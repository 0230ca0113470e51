------------------------ MODULE CmdbuildWebhooks_proofs ------------------------
(***************************************************************************)
(* Proofs about CmdbuildWebhooks and WebhookPlan, for whatever the rules   *)
(* ask for and whatever the operators and everybody else make of the       *)
(* webhooks: no request touches a webhook of another service, no plan      *)
(* replaces a credential, and a plan that nobody interferes with settles   *)
(* the matter.  Wanted and Edits stay uninterpreted, as do the orders of   *)
(* names and their comparison.                                             *)
(*                                                                         *)
(* What a running request writes it looks up in what it has read.  IInv    *)
(* says that this is a listing of webhooks by their ids, and that what is  *)
(* left of a sync are webhooks of it that are ours.  A record created      *)
(* meanwhile never has an id that is taken.                                *)
(*                                                                         *)
(* That a plan settles the matter is a fact about the functions of         *)
(* WebhookPlan: of one plan (Arranged, PlanIs), of what its operations leave *)
(* in their turn (LeftAfter), and of the plan of that (NothingAgain).  It  *)
(* needs that CMDBuild and every listing hold a code once (CodesInv) and   *)
(* that the first plan of a page is that of its listing and its version    *)
(* of the rules (PagesKept); PlanInv is IInv with both.                    *)
(***************************************************************************)
EXTENDS CmdbuildWebhooks, FiniteSetTheorems, WellFoundedInduction, TLAPS

OwnIn(seen) == {i \in DOMAIN seen : Owned(seen[i], <<>>)}

StoreInv ==
    /\ nextId \in Nat \ {0}
    /\ DOMAIN hooks \subseteq 1 .. nextId - 1

WellPrepared(r) ==
    r.phase = "running" =>
        /\ r.kind \in {"apply", "sync"}
        /\ DOMAIN r.seen \subseteq Nat
        /\ r.kind = "sync" => r.todo \in Seq(OwnIn(r.seen))

RequestInv == \A b \in Browsers : WellPrepared(request[b])

IInv == /\ StoreInv
        /\ DOMAIN request = Browsers
        /\ RequestInv

-----------------------------------------------------------------------------
(* What the operators return. *)

\* The fields of a request.
LEMMA RequestFields ==
    \A p, k, s, t : /\ Request(p, k, s, t).phase = p /\ Request(p, k, s, t).kind = k
                    /\ Request(p, k, s, t).seen = s /\ Request(p, k, s, t).todo = t
  BY DEF Request

\* A request that does not run needs no preparation.
LEMMA IdleWell == /\ WellPrepared(Idle)
                  /\ \A p, k, s, t : p # "running" => WellPrepared(Request(p, k, s, t))
  BY RequestFields DEF Idle, WellPrepared

\* A code is found at one place at most, and there.
LEMMA FindByCodeOnce ==
    ASSUME NEW seen, NEW c, DOMAIN seen \subseteq Nat,
           NEW i \in FindByCode(seen, c), NEW j \in FindByCode(seen, c)
    PROVE  i = j /\ i \in DOMAIN seen
  <1>1. /\ i \in DOMAIN seen /\ j \in DOMAIN seen
        /\ i <= j /\ j <= i
    BY DEF FindByCode
  <1> QED BY <1>1

\* An own webhook is nobody else's, and without a payload to move it to never
\* one of the time before the identifier.
LEMMA OwnedIsOurs ==
    \A hook, desired : Owned(hook, desired) =>
        /\ ~IsForeign(hook)
        /\ hook.owner = "legacy" => desired # <<>> /\ desired[1].url \in {None, hook.url}
        /\ desired = <<>> => hook.owner = "ours"
  BY DEF Owned, IsForeign

\* WithAuthorization changes the credential only.
LEMMA Authorized ==
    \A hook, auth : /\ WithAuthorization(hook, auth).auth = auth
                    /\ WithAuthorization(hook, auth).url = hook.url
  BY DEF WithAuthorization

\* An enumeration of a finite set is a sequence of its elements.
LEMMA Enumeration ==
    ASSUME NEW S, IsFiniteSet(S), NEW ids \in SetToSeqs(S), NEW T, S \subseteq T
    PROVE  ids \in Seq(T)
  <1>1. Cardinality(S) \in Nat
    BY FS_CardinalityType
  <1>2. ids \in [1 .. Cardinality(S) -> S]
    BY DEF SetToSeqs
  <1>3. ids \in [1 .. Cardinality(S) -> T]
    BY <1>2
  <1> QED BY <1>1, <1>3

\* The rest of a non-empty sequence.
LEMMA TailType ==
    ASSUME NEW S, NEW s \in Seq(S), s # <<>>
    PROVE  Tail(s) \in Seq(S) /\ s[1] \in S
  OBVIOUS

-----------------------------------------------------------------------------
(* The invariant. *)

\* Initially no request runs.
LEMMA InitInv == Init => IInv
  <1> SUFFICES ASSUME Init PROVE IInv
    OBVIOUS
  <1>1. DOMAIN hooks = 1 .. Len(hooks) /\ Len(hooks) \in Nat /\ nextId = 1 + Len(hooks)
    BY HooksAssumption DEF Init
  <1>2. StoreInv
    BY <1>1 DEF StoreInv
  <1>3. DOMAIN request = Browsers /\ \A b \in Browsers : request[b] = Idle
    BY DEF Init
  <1>4. RequestInv
    BY <1>3, IdleWell DEF RequestInv
  <1> QED BY <1>2, <1>3, <1>4 DEF IInv

\* Every step of the BFF leaves the requests of the other browsers alone; a
\* request that does not run says nothing.
LEMMA OneRequest ==
    ASSUME IInv, StoreInv', NEW b \in Browsers, NEW r,
           request' = [request EXCEPT ![b] = r],
           WellPrepared(r)
    PROVE  IInv'
  <1>1. DOMAIN request' = Browsers
    BY DEF IInv
  <1>2. \A c \in Browsers : request'[c] = IF c = b THEN r ELSE request[c]
    BY DEF IInv
  <1>3. RequestInv'
    BY <1>2 DEF IInv, RequestInv
  <1> QED BY <1>1, <1>3 DEF IInv

\* A request goes on to its next operation, or gives up.
LEMMA Dropped ==
    ASSUME IInv, StoreInv', NEW b \in Browsers, More(b), Drop(b) \/ Abort(b)
    PROVE  IInv'
  <1>1. CASE Abort(b)
    BY <1>1, IdleWell, OneRequest DEF Abort
  <1>2. CASE Drop(b)
    <2> DEFINE r == Request("running", request[b].kind, request[b].seen, Tail(request[b].todo))
    <2>1. /\ request[b].kind \in {"apply", "sync"}
          /\ DOMAIN request[b].seen \subseteq Nat
          /\ request[b].kind = "sync" => request[b].todo \in Seq(OwnIn(request[b].seen))
      BY DEF IInv, RequestInv, WellPrepared, More
    <2>2. request[b].kind = "sync" => Tail(request[b].todo) \in Seq(OwnIn(request[b].seen))
      BY <2>1, TailType DEF More
    <2>3. request' = [request EXCEPT ![b] = r]
      BY <1>2 DEF Drop
    <2>4. /\ r.kind = request[b].kind /\ r.seen = request[b].seen
          /\ r.todo = Tail(request[b].todo)
      BY RequestFields
    <2> HIDE DEF r
    <2>5. WellPrepared(r)
      BY <2>1, <2>2, <2>4 DEF WellPrepared
    <2> QED BY <2>3, <2>5, OneRequest
  <1> QED BY <1>1, <1>2

\* What a write does to the ids: only a creation adds one, the next.
LEMMA WriteStore ==
    ASSUME IInv, NEW b \in Browsers, Write(b)
    PROVE  StoreInv'
  <1> DEFINE op == request[b].todo[1]
             seen == request[b].seen
  <1>1. /\ hooks' = Effect(op, seen, hooks, nextId)
        /\ nextId' = IF op.action = "create" THEN nextId + 1 ELSE nextId
    BY DEF Write
  <1> HIDE DEF op, seen
  <1>2. nextId \in Nat \ {0} /\ DOMAIN hooks \subseteq 1 .. nextId - 1
    BY DEF IInv, StoreInv
  <1>3. CASE op.action = "create"
    <2>1. DOMAIN hooks' = DOMAIN hooks \cup {nextId} /\ nextId' = nextId + 1
      BY <1>1, <1>3 DEF Effect
    <2> QED BY <1>2, <2>1 DEF StoreInv
  <1>4. CASE op.action # "create"
    <2>1. DOMAIN hooks' \subseteq DOMAIN hooks /\ nextId' = nextId
      BY <1>1, <1>4 DEF Effect
    <2> QED BY <1>2, <2>1 DEF StoreInv
  <1> QED BY <1>3, <1>4

\* A request reads the webhooks and prepares what it will do.
LEMMA ReadInv ==
    ASSUME IInv, NEW b \in Browsers, ReadHooks(b)
    PROVE  IInv'
  <1>1. StoreInv'
    BY DEF ReadHooks, IInv, StoreInv
  <1>2. nextId \in Nat \ {0} /\ DOMAIN hooks \subseteq 1 .. nextId - 1
    BY DEF IInv, StoreInv
  <1>3. CASE request' = [request EXCEPT ![b] = Request("running", "apply", hooks, request[b].todo)]
    <2> DEFINE r == Request("running", "apply", hooks, request[b].todo)
    <2>1. r.kind = "apply" /\ r.seen = hooks
      BY RequestFields
    <2>2. request' = [request EXCEPT ![b] = r]
      BY <1>3
    <2> HIDE DEF r
    <2>3. WellPrepared(r)
      BY <1>2, <2>1 DEF WellPrepared
    <2> QED BY <1>1, <2>2, <2>3, OneRequest
  <1>4. CASE \E ids \in SetToSeqs(Candidates) :
                request' = [request EXCEPT ![b] = Request("running", "sync", hooks, ids)]
    <2>1. PICK ids \in SetToSeqs(Candidates) :
                request' = [request EXCEPT ![b] = Request("running", "sync", hooks, ids)]
      BY <1>4
    <2>2. Candidates \subseteq OwnIn(hooks) /\ Candidates \subseteq 1 .. nextId - 1
      BY <1>2 DEF Candidates, OwnIn
    <2>3. IsFiniteSet(Candidates)
      <3>1. IsFiniteSet(1 .. nextId - 1)
        BY <1>2, FS_Interval
      <3> QED BY <2>2, <3>1, FS_Subset
    <2>5. ids \in Seq(OwnIn(hooks))
      BY <2>2, <2>3, Enumeration
    <2> DEFINE r == Request("running", "sync", hooks, ids)
    <2>6. r.kind = "sync" /\ r.seen = hooks /\ r.todo = ids
      BY RequestFields
    <2>7. request' = [request EXCEPT ![b] = r]
      BY <2>1
    <2> HIDE DEF r
    <2>8. WellPrepared(r)
      BY <1>2, <2>5, <2>6 DEF WellPrepared
    <2> QED BY <1>1, <2>7, <2>8, OneRequest
  <1> QED BY <1>3, <1>4 DEF ReadHooks

\* The others give a record the next id or take one away.
LEMMA OthersStore == ASSUME IInv, Others PROVE StoreInv'
  <1>1. nextId \in Nat \ {0} /\ DOMAIN hooks \subseteq 1 .. nextId - 1
    BY DEF IInv, StoreInv
  <1>2. CASE OthersAdd
    <2>1. DOMAIN hooks' = DOMAIN hooks \cup {nextId} /\ nextId' = nextId + 1
      BY <1>2 DEF OthersAdd, OthersChange
    <2> QED BY <1>1, <2>1 DEF StoreInv
  <1>3. CASE OthersRemove \/ OthersRotate \/ OthersTake
    <2>1. DOMAIN hooks' \subseteq DOMAIN hooks /\ nextId' = nextId
      BY <1>3 DEF OthersRemove, OthersRotate, OthersTake, OthersChange
    <2> QED BY <1>1, <2>1 DEF StoreInv
  <1> QED BY <1>2, <1>3 DEF Others

\* What happens in the page alone changes neither CMDBuild nor a request.
PageStep(b) ==
    \/ Load(b) \/ Analyze(b) \/ Select(b) \/ SelectAll(b) \/ EditOperation(b)
    \/ EditCurrent(b) \/ Undo(b) \/ Redo(b)

\* What an operator does on the page touches no webhook and no request.
LEMMA PageSteps == \A b : PageStep(b) => UNCHANGED <<hooks, nextId, request>>
  <1>1. \A b, operations : Push(b, operations) => UNCHANGED <<hooks, nextId, request>>
    BY DEF Push
  <1> QED
    BY <1>1, Zenon DEF PageStep, Load, Analyze, Select, SelectAll, EditOperation, EditCurrent,
                       Undo, Redo

\* Every step keeps the invariant.
LEMMA StepInv == IInv /\ [Next]_vars => IInv'
  <1> SUFFICES ASSUME IInv, [Next]_vars PROVE IInv'
    OBVIOUS
  <1> DEFINE Kept == UNCHANGED <<hooks, nextId>>
  <1>1. ASSUME Kept PROVE StoreInv'
    BY <1>1 DEF IInv, StoreInv
  <1>2. ASSUME Kept, UNCHANGED request PROVE IInv'
    BY <1>1, <1>2 DEF IInv, RequestInv
  <1>3. ASSUME NEW b \in Browsers, PageStep(b) PROVE IInv'
    BY <1>2, <1>3, PageSteps
  <1>4. ASSUME NEW b \in Browsers, ApplySelected(b) \/ DeleteSelected(b) \/ SyncAuthorization(b)
        PROVE  IInv'
    <2>1. PICK k, t : Send(b, k, t)
      BY <1>4 DEF ApplySelected, DeleteSelected, SyncAuthorization
    <2>2. Kept /\ request' = [request EXCEPT ![b] = Request("sent", k, <<>>, t)]
      BY <2>1 DEF Send
    <2> QED BY <1>1, <2>2, IdleWell, OneRequest
  <1>5. ASSUME NEW b \in Browsers, ReadHooks(b) PROVE IInv'
    BY <1>5, ReadInv
  <1>6. ASSUME NEW b \in Browsers, Skip(b) PROVE IInv'
    <2>1. Kept /\ More(b) /\ Drop(b)
      BY <1>6 DEF Skip
    <2> QED BY <1>1, <2>1, Dropped
  <1>7. ASSUME NEW b \in Browsers, Write(b) PROVE IInv'
    <2>1. More(b) /\ (Drop(b) \/ Abort(b))
      BY <1>7 DEF Write
    <2> QED BY <1>7, <2>1, WriteStore, Dropped
  <1>8. ASSUME NEW b \in Browsers, WriteAuthorization(b) PROVE IInv'
    <2>1. /\ More(b) /\ (Drop(b) \/ Abort(b))
          /\ DOMAIN hooks' = DOMAIN hooks /\ nextId' = nextId
      BY <1>8 DEF WriteAuthorization
    <2>2. StoreInv'
      BY <2>1 DEF IInv, StoreInv
    <2> QED BY <2>1, <2>2, Dropped
  <1>9. ASSUME NEW b \in Browsers, Fail(b) \/ Finish(b) \/ Reload(b) \/ Reanalyze(b) PROVE IInv'
    <2>1. Kept
      BY <1>9 DEF Fail, Finish, Reload, Reanalyze
    <2>2. PICK r : request' = [request EXCEPT ![b] = r] /\ WellPrepared(r)
      BY <1>9, IdleWell DEF Fail, Finish, Reload, Reanalyze, Abort
    <2> QED BY <1>1, <2>1, <2>2, OneRequest
  <1>10. CASE ChangeRules \/ UNCHANGED vars
    BY <1>2, <1>10 DEF ChangeRules, vars
  <1>11. CASE Others
    <2>1. UNCHANGED request
      BY <1>11 DEF Others, OthersAdd, OthersRemove, OthersRotate, OthersTake, OthersChange
    <2>2. StoreInv'
      BY <1>11, OthersStore
    <2> QED BY <2>1, <2>2 DEF IInv, RequestInv
  <1> QED BY <1>3, <1>4, <1>5, <1>6, <1>7, <1>8, <1>9, <1>10, <1>11 DEF Next, PageStep

\* The listing a request works from and the candidates of a sync are what they
\* look like, always (readCmdbuildWebhooksByCode).
THEOREM RequestsPrepared == Spec => []IInv
  BY InitInv, StepInv, PTL DEF Spec

-----------------------------------------------------------------------------
(* The action properties. *)

\* Steps that leave the webhooks of CMDBuild as they are.
Quiet == UNCHANGED hooks

\* Only other services and the writes of a request change a webhook.
LEMMA StepKinds ==
    ASSUME [Next]_vars
    PROVE  \/ Quiet \/ Others
           \/ \E b \in Browsers : Write(b) \/ WriteAuthorization(b)
  <1>1. ASSUME NEW b \in Browsers, PageStep(b) PROVE Quiet
    BY <1>1, PageSteps DEF Quiet
  <1>2. ASSUME NEW b \in Browsers,
               ApplySelected(b) \/ DeleteSelected(b) \/ SyncAuthorization(b) \/ ReadHooks(b)
                 \/ Skip(b) \/ Fail(b) \/ Finish(b) \/ Reload(b) \/ Reanalyze(b)
        PROVE  Quiet
    BY <1>2 DEF Quiet, ApplySelected, DeleteSelected, SyncAuthorization, Send, ReadHooks, Skip,
                Fail, Finish, Reload, Reanalyze
  <1>3. CASE ChangeRules \/ UNCHANGED vars
    BY <1>3 DEF Quiet, ChangeRules, vars
  <1> QED BY <1>1, <1>2, <1>3 DEF Next, PageStep

\* What a write of an applied plan changes is the webhook it has found by the
\* code, and BFF found it ours.
LEMMA WriteChanges ==
    ASSUME IInv, NEW b \in Browsers, Write(b),
           NEW id \in DOMAIN hooks, id \notin DOMAIN hooks' \/ hooks'[id] # hooks[id]
    PROVE  LET op == request[b].todo[1] seen == request[b].seen
           IN  /\ id \in DOMAIN seen /\ op.action \in {"update", "delete"}
               /\ op.action = "delete" => Owned(seen[id], <<>>)
               /\ op.action = "update" =>
                     /\ Owned(seen[id], op.desired)
                     /\ id \in DOMAIN hooks'
                     /\ hooks'[id] = Written(op, seen[id])
  <1> DEFINE op == request[b].todo[1]
             seen == request[b].seen
  <1>1. /\ hooks' = Effect(op, seen, hooks, nextId)
        /\ Allowed(op, seen) /\ More(b)
    BY DEF Write
  <1>2. DOMAIN seen \subseteq Nat
    BY <1>1 DEF More, IInv, RequestInv, WellPrepared
  <1> HIDE DEF op, seen
  <1>3. nextId \notin DOMAIN hooks
    BY DEF IInv, StoreInv
  <1>4. op.action # "create"
    BY <1>1, <1>3 DEF Effect
  <1>5. op.action \in {"update", "delete"}
    BY <1>1, <1>4 DEF Allowed
  <1>6. id \in FindByCode(seen, op.code)
    BY <1>1, <1>4, <1>5 DEF Effect, Targets
  <1>7. \A i \in Targets(op, seen) : i = id /\ id \in DOMAIN seen
    BY <1>2, <1>4, <1>6, FindByCodeOnce DEF Targets
  <1>8. id \in DOMAIN seen
    BY <1>4, <1>6, <1>7 DEF Targets
  <1>9. op.action = "delete" => Owned(seen[id], <<>>)
    BY <1>1, <1>7 DEF Allowed
  <1>10. op.action = "update" => Owned(seen[id], op.desired)
    BY <1>1, <1>7 DEF Allowed
  <1>11. op.action = "update" => id \in DOMAIN hooks' /\ hooks'[id] = Written(op, seen[id])
    BY <1>1, <1>6 DEF Effect, Targets
  <1> QED BY <1>5, <1>8, <1>9, <1>10, <1>11 DEF op, seen

\* A sync changes a webhook of ours, and there the Authorization only.
LEMMA SyncChanges ==
    ASSUME IInv, NEW b \in Browsers, WriteAuthorization(b),
           NEW id \in DOMAIN hooks, id \notin DOMAIN hooks' \/ hooks'[id] # hooks[id]
    PROVE  /\ id \in DOMAIN request[b].seen /\ request[b].kind = "sync"
           /\ Owned(request[b].seen[id], <<>>)
           /\ id \in DOMAIN hooks'
           /\ hooks'[id] = WithAuthorization(request[b].seen[id], Configured)
  <1> DEFINE own == OwnIn(request[b].seen)
  <1>1. /\ More(b) /\ request[b].kind = "sync"
        /\ DOMAIN hooks' = DOMAIN hooks
        /\ id = request[b].todo[1]
        /\ hooks'[id] = WithAuthorization(request[b].seen[id], Configured)
    BY DEF WriteAuthorization
  <1>2. request[b].todo \in Seq(own) /\ request[b].todo # <<>>
    BY <1>1 DEF More, IInv, RequestInv, WellPrepared
  <1>3. id \in own
    BY <1>1, <1>2, TailType
  <1> QED BY <1>1, <1>3 DEF OwnIn

\* Nobody's plan, and no sync, writes or deletes a webhook that was another
\* service's when the request read the webhooks (isOwnedCmdbuildWebhook).
THEOREM OwnOnly == Spec => RequestsKeepToOwn
  <1> DEFINE Kept(id) ==
          (id \notin DOMAIN hooks' \/ hooks'[id] # hooks[id]) =>
              \/ Others
              \/ \E b \in Browsers :
                    /\ Writes(b, id) /\ ~IsForeign(request[b].seen[id])
                    /\ request[b].seen[id].owner = "legacy" =>
                          /\ id \in DOMAIN hooks'
                          /\ hooks'[id].url \in {None, request[b].seen[id].url}
  <1>1. ASSUME IInv, [Next]_vars, NEW id \in DOMAIN hooks PROVE Kept(id)
    <2> SUFFICES ASSUME id \notin DOMAIN hooks' \/ hooks'[id] # hooks[id], ~Others
                 PROVE  \E b \in Browsers :
                    /\ Writes(b, id) /\ ~IsForeign(request[b].seen[id])
                    /\ request[b].seen[id].owner = "legacy" =>
                          /\ id \in DOMAIN hooks'
                          /\ hooks'[id].url \in {None, request[b].seen[id].url}
      OBVIOUS
    <2>1. PICK b \in Browsers : Write(b) \/ WriteAuthorization(b)
      BY <1>1, StepKinds DEF Quiet
    <2>2. CASE Write(b)
      <3> DEFINE op == request[b].todo[1]
                 hook == request[b].seen[id]
      <3>1. /\ id \in DOMAIN request[b].seen /\ op.action \in {"update", "delete"}
            /\ op.action = "delete" => Owned(hook, <<>>)
            /\ op.action = "update" => Owned(hook, op.desired)
            /\ op.action = "update" => id \in DOMAIN hooks' /\ hooks'[id] = Written(op, hook)
        BY <1>1, <2>2, WriteChanges
      <3> HIDE DEF op, hook
      <3>2. op.action = "update" => hooks'[id].url = op.desired[1].url
        BY <3>1, Authorized DEF Written
      <3>3. ~IsForeign(hook)
        BY <3>1, OwnedIsOurs
      <3>4. hook.owner = "legacy" => id \in DOMAIN hooks' /\ hooks'[id].url \in {None, hook.url}
        BY <3>1, <3>2, OwnedIsOurs
      <3>5. Writes(b, id)
        BY <2>2, <3>1 DEF Writes
      <3> QED BY <3>3, <3>4, <3>5 DEF hook
    <2>3. CASE WriteAuthorization(b)
      <3>1. id \in DOMAIN request[b].seen /\ Owned(request[b].seen[id], <<>>)
        BY <1>1, <2>3, SyncChanges
      <3>2. ~IsForeign(request[b].seen[id]) /\ request[b].seen[id].owner # "legacy"
        BY <3>1, OwnedIsOurs
      <3> QED BY <2>3, <3>1, <3>2 DEF Writes
    <2> QED BY <2>1, <2>2, <2>3
  <1>2. IInv /\ [Next]_vars => [\A id \in DOMAIN hooks : Kept(id)]_vars
    BY <1>1
  <1> QED BY <1>2, RequestsPrepared, PTL DEF Spec, RequestsKeepToOwn

\* No plan, stale or edited, replaces a credential
\* (preserveExistingCmdbuildWebhookAuthorization).
THEOREM CredentialsStay == Spec => AuthorizationKept
  <1> DEFINE Kept(id) ==
          hooks'[id].auth # hooks[id].auth =>
              \/ Others
              \/ \E b \in Browsers :
                    /\ Writes(b, id)
                    /\ \/ request[b].kind = "sync" /\ hooks'[id].auth = Configured
                       \/ /\ request[b].seen[id].auth # hooks[id].auth
                          /\ hooks'[id].auth = request[b].seen[id].auth
  <1>1. ASSUME IInv, [Next]_vars, NEW id \in DOMAIN hooks \cap DOMAIN hooks' PROVE Kept(id)
    <2> SUFFICES ASSUME hooks'[id].auth # hooks[id].auth, ~Others
                 PROVE  \E b \in Browsers :
                    /\ Writes(b, id)
                    /\ \/ request[b].kind = "sync" /\ hooks'[id].auth = Configured
                       \/ /\ request[b].seen[id].auth # hooks[id].auth
                          /\ hooks'[id].auth = request[b].seen[id].auth
      OBVIOUS
    <2>1. PICK b \in Browsers : Write(b) \/ WriteAuthorization(b)
      BY <1>1, StepKinds DEF Quiet
    <2>2. hooks'[id] # hooks[id]
      OBVIOUS
    <2>3. CASE Write(b)
      <3> DEFINE op == request[b].todo[1]
      <3>1. /\ id \in DOMAIN request[b].seen /\ op.action \in {"update", "delete"}
            /\ op.action = "update" => hooks'[id] = Written(op, request[b].seen[id])
        BY <1>1, <2>2, <2>3, WriteChanges
      <3>2. op.action = "update"
        <4>1. hooks' = Effect(op, request[b].seen, hooks, nextId)
          BY <2>3 DEF Write
        <4> HIDE DEF op
        <4> QED BY <2>2, <3>1, <4>1 DEF Effect
      <3>3. hooks'[id].auth = request[b].seen[id].auth
        BY <3>1, <3>2, Authorized DEF Written
      <3> QED BY <2>3, <3>1, <3>3 DEF Writes
    <2>4. CASE WriteAuthorization(b)
      <3>1. /\ id \in DOMAIN request[b].seen /\ request[b].kind = "sync"
            /\ hooks'[id] = WithAuthorization(request[b].seen[id], Configured)
        BY <1>1, <2>2, <2>4, SyncChanges
      <3> QED BY <2>4, <3>1, Authorized DEF Writes
    <2> QED BY <2>1, <2>3, <2>4
  <1>2. IInv /\ [Next]_vars => [\A id \in DOMAIN hooks \cap DOMAIN hooks' : Kept(id)]_vars
    BY <1>1
  <1> QED BY <1>2, RequestsPrepared, PTL DEF Spec, AuthorizationKept

-----------------------------------------------------------------------------
(* Numbers. *)

\* A set of numbers that has a member has a first one.
LEMMA FirstNumber ==
  ASSUME NEW D, D \subseteq Nat, D # {}
  PROVE  \E n \in D : \A k \in D : n <= k
  <1> DEFINE R == {x \in Nat \X Nat : x[1] < x[2]}
  <1>1. PICK n \in D : \A k \in D : ~(<<k, n>> \in R)
    <2>1. IsWellFoundedOn(R, Nat)
      BY NatLessThanWellFounded DEF OpToRel
    <2> HIDE DEF R
    <2> QED BY <2>1, WFMin
  <1>2. ASSUME NEW k \in D PROVE n <= k
    <2>1. <<k, n>> \in Nat \X Nat /\ ~(<<k, n>> \in R)
      BY <1>1
    <2> QED BY <2>1
  <1> QED BY <1>2

\* A bounded one has a last one, too.
LEMMA LastNumber ==
  ASSUME NEW D, NEW n \in Nat, D \subseteq 0 .. n, D # {}
  PROVE  LastOf(D) \in D /\ \A k \in D : k <= LastOf(D)
  <1> DEFINE E == {n - k : k \in D}
  <1>1. E \subseteq Nat /\ E # {}
    OBVIOUS
  <1>2. PICK m \in E : \A k \in E : m <= k
    <2> HIDE DEF E
    <2> QED BY <1>1, FirstNumber
  <1>3. PICK l \in D : m = n - l
    OBVIOUS
  <1>4. ASSUME NEW k \in D PROVE k <= l
    <2>1. n - k \in E /\ m <= n - k /\ k \in 0 .. n /\ l \in 0 .. n
      BY <1>2
    <2> HIDE DEF E
    <2> QED BY <2>1, <1>3
  <1> HIDE DEF E
  <1> QED BY <1>3, <1>4 DEF LastOf

-----------------------------------------------------------------------------
(* Bodies. *)

\* A prefix that matches, or the one given to a class, is never the empty name.
LEMMA PrefixGiven ==
  ASSUME NEW current, NEW default, NEW class
  PROVE  PrefixMatches(PrefixForClass(current, default, class), class)
  BY DEF PrefixForClass, PrefixMatches

\* Normalizing twice is normalizing once.
LEMMA NormalizedTwice ==
  ASSUME NEW value, NEW p, NEW q, NEW class, PrefixMatches(p, class)
  PROVE  Normalized(Normalized(value, p, class), q, class) = Normalized(value, p, class)
  <1>1. \A a : Placeholder(p, a).prefix = p
    BY DEF Placeholder
  <1> QED BY <1>1 DEF Normalized

\* Where a key is put last.
LEMMA LastPutIs ==
  ASSUME NEW requirements, NEW n \in Nat, DOMAIN requirements = 1 .. n, NEW k
  PROVE  /\ LastPut(requirements, k) \in 0 .. n
         /\ LastPut(requirements, k) = 0 \/ requirements[LastPut(requirements, k)].payloadKey = k
         /\ \A i \in DOMAIN requirements : requirements[i].payloadKey = k => i <= LastPut(requirements, k)
  <1> DEFINE D == {0} \cup {i \in DOMAIN requirements : requirements[i].payloadKey = k}
  <1>1. D \subseteq 0 .. n /\ D # {}
    OBVIOUS
  <1>2. LastOf(D) \in D /\ \A i \in D : i <= LastOf(D)
    <2> HIDE DEF D
    <2> QED BY <1>1, LastNumber
  <1> QED BY <1>2 DEF LastPut

\* The keys of a body that requirements made, and its values.
AllKeys(base, requirements) ==
    FixedKeys \cup DOMAIN base \cup {requirements[i].payloadKey : i \in DOMAIN requirements}
Stays(requirements, k) ==
    \A j \in (LastPut(requirements, k) + 1) .. Len(requirements) : ~Removes(requirements[j], k)
ValueAt(prefix, base, requirements, class, k) ==
    IF LastPut(requirements, k) # 0
    THEN Placeholder(prefix, requirements[LastPut(requirements, k)].placeholder)
    ELSE IF k \in FixedKeys THEN Fixed ELSE Normalized(base[k], prefix, class)

\* What the requirements leave of a body.
LEMMA BodyIs ==
  ASSUME NEW prefix, NEW base, NEW requirements, NEW class
  PROVE  BodyForRequirements(prefix, base, requirements, class)
             = [k \in {n \in AllKeys(base, requirements) : Stays(requirements, n)} |->
                    ValueAt(prefix, base, requirements, class, k)]
  <1> DEFINE keys == AllKeys(base, requirements)
             last == [k \in keys |-> LastPut(requirements, k)]
             Still(k) == \A j \in (last[k] + 1) .. Len(requirements) : ~Removes(requirements[j], k)
             Was(k) == IF last[k] # 0 THEN Placeholder(prefix, requirements[last[k]].placeholder)
                       ELSE IF k \in FixedKeys THEN Fixed ELSE Normalized(base[k], prefix, class)
  <1>1. BodyForRequirements(prefix, base, requirements, class) = [k \in {n \in keys : Still(n)} |-> Was(k)]
    BY DEF BodyForRequirements, AllKeys
  <1>2. ASSUME NEW k \in keys PROVE last[k] = LastPut(requirements, k)
    BY <1>2
  <1>3. \A k \in keys : Still(k) <=> Stays(requirements, k)
    <2> HIDE DEF keys, last
    <2> QED BY <1>2 DEF Stays
  <1>4. \A k \in keys : Was(k) = ValueAt(prefix, base, requirements, class, k)
    <2> HIDE DEF keys, last
    <2> QED BY <1>2 DEF ValueAt
  <1>5. {n \in keys : Still(n)} = {n \in keys : Stays(requirements, n)}
    <2> HIDE DEF keys, Still
    <2> QED BY <1>3
  <1>6. [k \in {n \in keys : Still(n)} |-> Was(k)]
           = [k \in {n \in keys : Stays(requirements, n)} |-> ValueAt(prefix, base, requirements, class, k)]
    <2> HIDE DEF keys, Still, Was
    <2> QED BY <1>4, <1>5
  <1> QED BY <1>1, <1>6

\* The prefix of such a body is the one it was given, if anything was put.
LEMMA PrefixKept ==
  ASSUME NEW base, NEW requirements, Len(requirements) \in Nat,
         DOMAIN requirements = 1 .. Len(requirements), NEW class, class # None, NEW default, NEW other,
         \A p, q \in PrefixesIn(base) : p = q,
         NEW prefix, prefix = PrefixForClass(PrefixOf(base), default, class),
         NEW body, body = BodyForRequirements(prefix, base, requirements, class),
         NEW k \in DOMAIN body, LastPut(requirements, k) # 0
  PROVE  PrefixForClass(PrefixOf(body), other, class) = prefix
  <1>1. PrefixMatches(prefix, class) /\ prefix # None
    BY PrefixGiven, PrefixAssumption DEF PrefixMatches
  <1>2. \A n \in DOMAIN body : /\ n \in AllKeys(base, requirements)
                               /\ body[n] = ValueAt(prefix, base, requirements, class, n)
    BY BodyIs
  <1>3. \A a : Placeholder(prefix, a).prefix = prefix
    BY DEF Placeholder
  <1>4. Fixed.prefix = None
    BY DEF Fixed
  <1>5. ASSUME NEW n \in DOMAIN base, PrefixMatches(base[n].prefix, class), base[n].prefix # None
        PROVE  base[n].prefix = prefix
    <2>1. base[n].prefix \in PrefixesIn(base)
      BY <1>5 DEF PrefixesIn
    <2>2. PrefixOf(base) = base[n].prefix
      BY <2>1 DEF PrefixOf
    <2> QED BY <2>2, <1>5 DEF PrefixForClass
  <1>6. ASSUME NEW n \in DOMAIN body PROVE body[n].prefix \in {None, prefix}
    <2>1. CASE LastPut(requirements, n) # 0
      BY <2>1, <1>2, <1>3 DEF ValueAt
    <2>2. CASE LastPut(requirements, n) = 0 /\ n \in FixedKeys
      BY <2>2, <1>2, <1>4 DEF ValueAt
    <2>3. CASE LastPut(requirements, n) = 0 /\ n \in DOMAIN base /\ n \notin FixedKeys
      <3>1. body[n] = Normalized(base[n], prefix, class)
        BY <2>3, <1>2 DEF ValueAt
      <3> QED BY <3>1, <2>3, <1>3, <1>5 DEF Normalized
    <2>4. CASE LastPut(requirements, n) = 0 /\ n \in {requirements[i].payloadKey : i \in DOMAIN requirements}
               /\ n \notin FixedKeys /\ n \notin DOMAIN base
      <3>1. PICK i \in DOMAIN requirements : requirements[i].payloadKey = n
        BY <2>4
      <3>2. i <= 0 /\ i \in 1 .. Len(requirements)
        BY <2>4, <3>1, LastPutIs
      <3> QED BY <3>2
    <2> QED BY <2>1, <2>2, <2>3, <2>4, <1>2 DEF AllKeys
  <1>7. body[k].prefix = prefix
    BY <1>2, <1>3 DEF ValueAt
  <1>8. PrefixesIn(body) = {prefix}
    BY <1>1, <1>6, <1>7 DEF PrefixesIn
  <1>9. PrefixOf(body) = prefix
    BY <1>8 DEF PrefixOf
  <1> QED BY <1>1, <1>9 DEF PrefixForClass

\* A body that has what the requirements ask for stays as it is.
LEMMA BodyAgain ==
  ASSUME NEW base, NEW requirements, Len(requirements) \in Nat,
         DOMAIN requirements = 1 .. Len(requirements), NEW class,
         NEW prefix, PrefixMatches(prefix, class), NEW other,
         NEW body, body = BodyForRequirements(prefix, base, requirements, class),
         \A k \in DOMAIN body : LastPut(requirements, k) # 0 => other = prefix
  PROVE  BodyForRequirements(other, body, requirements, class) = body
  <1>1. body = [k \in {n \in AllKeys(base, requirements) : Stays(requirements, n)} |->
                    ValueAt(prefix, base, requirements, class, k)]
    BY BodyIs
  <1>2. BodyForRequirements(other, body, requirements, class)
            = [k \in {n \in AllKeys(body, requirements) : Stays(requirements, n)} |->
                    ValueAt(other, body, requirements, class, k)]
    BY BodyIs
  <1>3. DOMAIN body = {n \in AllKeys(base, requirements) : Stays(requirements, n)}
    BY <1>1
  <1>4. {n \in AllKeys(body, requirements) : Stays(requirements, n)} = DOMAIN body
    BY <1>3 DEF AllKeys
  <1>5. ASSUME NEW k \in DOMAIN body PROVE ValueAt(other, body, requirements, class, k) = body[k]
    <2>1. body[k] = ValueAt(prefix, base, requirements, class, k)
      BY <1>1
    <2>2. CASE LastPut(requirements, k) # 0
      BY <2>1, <2>2 DEF ValueAt
    <2>3. CASE LastPut(requirements, k) = 0
      BY <2>1, <2>3, NormalizedTwice DEF ValueAt
    <2> QED BY <2>2, <2>3
  <1>6. body = [k \in DOMAIN body |-> body[k]]
    BY <1>1
  <1> QED BY <1>2, <1>4, <1>5, <1>6

-----------------------------------------------------------------------------
(* The desired hooks. *)

\* What is compared of two hooks agrees.
LEMMA ComparableIs ==
  ASSUME NEW h, NEW g, Comparable(h) = Comparable(g)
  PROVE  /\ h.owner = g.owner /\ h.url = g.url /\ h.target = g.target /\ h.event = g.event
         /\ h.body = g.body /\ h.active = g.active
  <1>1. \A x : /\ Comparable(x).owner = x.owner /\ Comparable(x).url = x.url
               /\ Comparable(x).target = x.target /\ Comparable(x).event = x.event
               /\ Comparable(x).body = x.body /\ Comparable(x).active = x.active
    BY DEF Comparable
  <1> HIDE DEF Comparable
  <1> QED BY <1>1

\* The fields of a desired hook.
LEMMA DesiredIs ==
  ASSUME NEW want, NEW current, NEW defaults
  PROVE  LET base == IF current = <<>> THEN <<>> ELSE current[1].body
             prefix == PrefixForClass(PrefixOf(base), defaults.prefix, want.class)
             d == DesiredHook(want, current, defaults)
         IN  /\ d.code = CodeOf(want) /\ d.owner = "ours"
             /\ d.target = want.class /\ d.event = want.event
             /\ d.body = BodyForRequirements(prefix, base, want.fields, want.class)
             /\ current # <<>> => /\ d.url = UrlOr(current[1].url, defaults.url)
                                 /\ d.active = current[1].active
             /\ defaults.url # None => d.url # None
  BY DEF DesiredHook, UrlOr

\* A default url is never empty.
LEMMA DefaultUrlGiven == \A items : Defaults(items).url # None
  BY PrefixAssumption DEF Defaults, UrlOr

\* A hook in which what is compared is as desired is what is desired next.
LEMMA DesiredAgain ==
  ASSUME NEW want, want.class # None, Len(want.fields) \in Nat,
         DOMAIN want.fields = 1 .. Len(want.fields),
         NEW current, NEW defaults, defaults.url # None, NEW other, NEW hook,
         current # <<>> => \A p, q \in PrefixesIn(current[1].body) : p = q,
         Comparable(hook) = Comparable(DesiredHook(want, current, defaults))
  PROVE  Comparable(DesiredHook(want, <<hook>>, other)) = Comparable(hook)
  <1> DEFINE base == IF current = <<>> THEN <<>> ELSE current[1].body
             prefix == PrefixForClass(PrefixOf(base), defaults.prefix, want.class)
             next == PrefixForClass(PrefixOf(hook.body), other.prefix, want.class)
             d == DesiredHook(want, <<hook>>, other)
  <1>1. /\ hook.owner = "ours" /\ hook.target = want.class /\ hook.event = want.event
        /\ hook.body = BodyForRequirements(prefix, base, want.fields, want.class)
    BY ComparableIs, DesiredIs
  <1>0. hook.url # None
    BY ComparableIs, DesiredIs
  <1>2. /\ d.owner = "ours" /\ d.target = want.class /\ d.event = want.event
        /\ d.body = BodyForRequirements(next, hook.body, want.fields, want.class)
        /\ d.url = hook.url /\ d.active = hook.active
    <2>1. <<hook>> # <<>> /\ <<hook>>[1] = hook
      OBVIOUS
    <2> QED BY <1>0, <2>1, DesiredIs DEF UrlOr
  <1>3. \A p, q \in PrefixesIn(base) : p = q
    <2>1. PrefixesIn(<<>>) = {}
      BY DEF PrefixesIn
    <2> QED BY <2>1
  <1> HIDE DEF base, d
  <1>4. d.body = hook.body
    <2> HIDE DEF prefix
    <2>1. prefix = PrefixForClass(PrefixOf(base), defaults.prefix, want.class)
      BY DEF prefix
    <2>2. \A k \in DOMAIN hook.body : LastPut(want.fields, k) # 0 => next = prefix
      BY <1>1, <1>3, <2>1, PrefixKept
    <2>3. PrefixMatches(prefix, want.class)
      BY <2>1, PrefixGiven
    <2> HIDE DEF next
    <2> QED BY <1>1, <1>2, <2>2, <2>3, BodyAgain
  <1> HIDE DEF next, prefix
  <1>5. Comparable(d) = Comparable(hook)
    BY <1>1, <1>2, <1>4 DEF Comparable
  <1> QED BY <1>5 DEF d

-----------------------------------------------------------------------------
(* The plan is an arrangement of the operations there are. *)

\* An operation is put somewhere and moves what follows.
Moved(new, result, op, at) ==
    /\ at \in DOMAIN new /\ new[at] = op
    /\ \A i \in DOMAIN new : i < at => i \in DOMAIN result /\ new[i] = result[i]
    /\ \A i \in DOMAIN new : at < i => i - 1 \in DOMAIN result /\ new[i] = result[i - 1]
    /\ \A i \in DOMAIN result : \E j \in DOMAIN new : new[j] = result[i]

\* What is inserted comes where Moved says, and the rest stays in order.
LEMMA InsertedIs ==
  ASSUME NEW result, Len(result) \in Nat, DOMAIN result = 1 .. Len(result), NEW op
  PROVE  /\ Len(Inserted(result, op)) = Len(result) + 1
         /\ DOMAIN Inserted(result, op) = 1 .. Len(Inserted(result, op))
         /\ \E at : Moved(Inserted(result, op), result, op, at)
  <1> DEFINE later == {i \in DOMAIN result : Before(op, result[i])}
             at == IF later = {} THEN Len(result) + 1 ELSE FirstOf(later)
             new == [i \in 1..(Len(result) + 1) |->
                        IF i < at THEN result[i] ELSE IF i = at THEN op ELSE result[i - 1]]
  <1>1. Inserted(result, op) = new
    BY DEF Inserted
  <1>2. at \in 1 .. Len(result) + 1
    <2>1. CASE later # {}
      <3>1. \E n \in later : \A k \in later : n <= k
        <4>1. later \subseteq Nat
          OBVIOUS
        <4> HIDE DEF later
        <4> QED BY <2>1, <4>1, FirstNumber
      <3>2. FirstOf(later) \in later
        <4> HIDE DEF later
        <4> QED BY <3>1 DEF FirstOf
      <3> QED BY <2>1, <3>2
    <2> QED BY <2>1
  <1> HIDE DEF at
  <1>3. Len(new) = Len(result) + 1 /\ DOMAIN new = 1 .. Len(result) + 1
    OBVIOUS
  <1>4. \A i \in 1 .. Len(result) + 1 :
            new[i] = IF i < at THEN result[i] ELSE IF i = at THEN op ELSE result[i - 1]
    OBVIOUS
  <1> HIDE DEF new
  <1>5. \A i \in DOMAIN new : i < at => i \in DOMAIN result /\ new[i] = result[i]
    BY <1>2, <1>3, <1>4
  <1>6. \A i \in DOMAIN new : at < i => i - 1 \in DOMAIN result /\ new[i] = result[i - 1]
    BY <1>2, <1>3, <1>4
  <1>7. ASSUME NEW i \in DOMAIN result PROVE \E j \in DOMAIN new : new[j] = result[i]
    <2>1. CASE i < at
      BY <2>1, <1>3, <1>4
    <2>2. CASE ~(i < at)
      <3>1. i + 1 \in DOMAIN new /\ ~(i + 1 < at) /\ i + 1 # at /\ i + 1 - 1 = i
        BY <2>2, <1>2, <1>3
      <3>2. new[i + 1] = result[i]
        BY <3>1, <1>3, <1>4
      <3> QED BY <3>1, <3>2
    <2> QED BY <2>1, <2>2
  <1>8. new[at] = op /\ at \in DOMAIN new
    BY <1>2, <1>3, <1>4
  <1>9. Moved(new, result, op, at)
    BY <1>5, <1>6, <1>7, <1>8 DEF Moved
  <1> QED BY <1>1, <1>3, <1>9

\* What insertion of the first n choices leads to.
Put(result, choice) == IF choice = <<>> THEN result ELSE Inserted(result, choice[1])
Sorting(choices, g, n) ==
    /\ g = [k \in 0 .. n |-> g[k]]
    /\ \A k \in 0 .. n : g[k] = IF k = 0 THEN <<>> ELSE Put(g[k - 1], choices[k])

\* There is such a course for any choices.
LEMMA SortingExists ==
  ASSUME NEW choices, NEW n \in Nat
  PROVE  \E g : Sorting(choices, g, n)
  <1> DEFINE D == {k \in Nat : ~ \E g : Sorting(choices, g, k)}
  <1>1. SUFFICES ASSUME D # {} PROVE FALSE
    OBVIOUS
  <1>2. PICK m \in D : \A k \in D : m <= k
    <2>1. D \subseteq Nat
      OBVIOUS
    <2> HIDE DEF D
    <2> QED BY <1>1, <2>1, FirstNumber
  <1>3. m # 0
    <2> DEFINE g == [k \in 0 .. 0 |-> <<>>]
    <2>1. Sorting(choices, g, 0)
      BY DEF Sorting
    <2>2. \E f : Sorting(choices, f, 0)
      BY <2>1
    <2> QED BY <2>2
  <1>4. PICK g : Sorting(choices, g, m - 1)
    BY <1>2, <1>3
  <1> DEFINE h == [k \in 0 .. m |-> IF k = m THEN Put(g[m - 1], choices[m]) ELSE g[k]]
  <1>5. Sorting(choices, h, m)
    <2>1. h = [k \in 0 .. m |-> h[k]]
      OBVIOUS
    <2>2. ASSUME NEW k \in 0 .. m PROVE h[k] = IF k = 0 THEN <<>> ELSE Put(h[k - 1], choices[k])
      <3>1. CASE k = m
        <4>1. m - 1 \in 0 .. m /\ m - 1 # m /\ m \in 0 .. m
          BY <1>3
        <4>2. h[m] = Put(g[m - 1], choices[m]) /\ h[m - 1] = g[m - 1]
          BY <4>1
        <4> HIDE DEF h
        <4> QED BY <4>2, <3>1, <1>3
      <3>2. CASE k # m
        <4>1. k \in 0 .. m - 1
          BY <3>2
        <4>2. g[k] = IF k = 0 THEN <<>> ELSE Put(g[k - 1], choices[k])
          BY <4>1, <1>4 DEF Sorting
        <4>3. h[k] = g[k]
          BY <3>2
        <4>4. k # 0 => h[k - 1] = g[k - 1]
          BY <4>1
        <4> HIDE DEF h
        <4> QED BY <4>2, <4>3, <4>4
      <3> QED BY <3>1, <3>2
    <2> HIDE DEF h
    <2> QED BY <2>1, <2>2 DEF Sorting
  <1>6. \E f : Sorting(choices, f, m)
    BY <1>5
  <1> QED BY <1>6, <1>2

\* A plan is at the end of one.
LEMMA SortedIsSorting ==
  ASSUME NEW choices, Len(choices) \in Nat
  PROVE  \E g : Sorting(choices, g, Len(choices)) /\ Sorted(choices) = g[Len(choices)]
  <1> DEFINE n == Len(choices)
             Rec(g) == g = [k \in 0 .. n |->
                        IF k = 0 THEN <<>>
                        ELSE LET choice == choices[k]
                             IN  IF choice = <<>> THEN g[k - 1] ELSE Inserted(g[k - 1], choice[1])]
             c == CHOOSE g : Rec(g)
  <1>2. PICK k : Sorting(choices, k, n)
    BY SortingExists
  <1>3. Rec(k)
    BY <1>2 DEF Sorting, Put
  <1>4. Rec(c)
    BY <1>3
  <1>5. Sorted(choices) = c[n]
    BY DEF Sorted
  <1>6. Sorting(choices, c, n)
    <2> HIDE DEF c, n
    <2>1. \A i \in 0 .. n : c[i] = IF i = 0 THEN <<>> ELSE Put(c[i - 1], choices[i])
      BY <1>4 DEF Put
    <2>2. c = [i \in 0 .. n |-> c[i]]
      BY <1>4
    <2> QED BY <2>1, <2>2 DEF Sorting
  <1> QED BY <1>5, <1>6

\* A sequence of the first n choices, each once.
Apart(choices) ==
    \A k, l \in DOMAIN choices :
        choices[k] # <<>> /\ choices[l] # <<>> /\ choices[k][1].code = choices[l][1].code => k = l
Comes(result, choices, n) ==
    \A i \in DOMAIN result : \E k \in 1 .. n : choices[k] # <<>> /\ result[i] = choices[k][1]
Holds(result, choices, n) ==
    \A k \in 1 .. n : choices[k] # <<>> => \E i \in DOMAIN result : result[i] = choices[k][1]
CodesApart(result) == \A i, j \in DOMAIN result : result[i].code = result[j].code => i = j
Arranged(result, choices, n) ==
    /\ Len(result) \in Nat /\ DOMAIN result = 1 .. Len(result)
    /\ Comes(result, choices, n) /\ Holds(result, choices, n)
    /\ Apart(choices) => CodesApart(result)

\* One more choice is arranged with the others.
LEMMA PutArranged ==
  ASSUME NEW choices, NEW result, NEW n \in Nat, DOMAIN choices = 1 .. Len(choices),
         n + 1 \in DOMAIN choices, Len(choices) \in Nat,
         Arranged(result, choices, n)
  PROVE  Arranged(Put(result, choices[n + 1]), choices, n + 1)
  <1>1. CASE choices[n + 1] = <<>>
    <2>1. \A k \in 1 .. n + 1 : choices[k] # <<>> => k \in 1 .. n
      BY <1>1
    <2>2. Comes(result, choices, n + 1)
      BY DEF Arranged, Comes
    <2>3. Holds(result, choices, n + 1)
      BY <2>1 DEF Arranged, Holds
    <2> QED BY <1>1, <2>2, <2>3 DEF Arranged, Put
  <1>2. CASE choices[n + 1] # <<>>
    <2> DEFINE op == choices[n + 1][1]
               new == Inserted(result, op)
    <2>1. Len(result) \in Nat /\ DOMAIN result = 1 .. Len(result)
      BY DEF Arranged
    <2>2. Put(result, choices[n + 1]) = new
      BY <1>2 DEF Put
    <2>3. Len(new) = Len(result) + 1 /\ DOMAIN new = 1 .. Len(new)
      BY <2>1, InsertedIs
    <2>4. PICK at : Moved(new, result, op, at)
      BY <2>1, InsertedIs
    <2> HIDE DEF new
    <2>5. /\ at \in DOMAIN new /\ new[at] = op
          /\ \A i \in DOMAIN new : i < at => i \in DOMAIN result /\ new[i] = result[i]
          /\ \A i \in DOMAIN new : at < i => i - 1 \in DOMAIN result /\ new[i] = result[i - 1]
          /\ \A i \in DOMAIN result : \E j \in DOMAIN new : new[j] = result[i]
      BY <2>4 DEF Moved
    <2>6. Comes(new, choices, n + 1)
      <3> SUFFICES ASSUME NEW i \in DOMAIN new
                   PROVE  \E k \in 1 .. n + 1 : choices[k] # <<>> /\ new[i] = choices[k][1]
        BY DEF Comes
      <3>1. i < at \/ i = at \/ at < i
        BY <2>3, <2>1, <2>5
      <3>2. CASE i = at
        BY <3>2, <2>5, <1>2
      <3>3. CASE i # at
        <4>1. PICK j \in DOMAIN result : new[i] = result[j]
          BY <3>1, <3>3, <2>5
        <4>2. PICK k \in 1 .. n : choices[k] # <<>> /\ result[j] = choices[k][1]
          BY DEF Arranged, Comes
        <4> QED BY <4>1, <4>2
      <3> QED BY <3>2, <3>3
    <2>7. Holds(new, choices, n + 1)
      <3> SUFFICES ASSUME NEW k \in 1 .. n + 1, choices[k] # <<>>
                   PROVE  \E i \in DOMAIN new : new[i] = choices[k][1]
        BY DEF Holds
      <3>1. CASE k = n + 1
        BY <3>1, <2>5
      <3>2. CASE k # n + 1
        <4>1. PICK j \in DOMAIN result : result[j] = choices[k][1]
          BY <3>2 DEF Arranged, Holds
        <4> QED BY <4>1, <2>5
      <3> QED BY <3>1, <3>2
    <2>8. ASSUME Apart(choices) PROVE CodesApart(new)
      <3>1. \A j \in DOMAIN result : result[j].code # op.code
        <4> SUFFICES ASSUME NEW j \in DOMAIN result, result[j].code = op.code PROVE FALSE
          OBVIOUS
        <4>1. PICK k \in 1 .. n : choices[k] # <<>> /\ result[j] = choices[k][1]
          BY DEF Arranged, Comes
        <4>2. k \in DOMAIN choices
          BY <4>1
        <4>3. k = n + 1
          BY <4>1, <4>2, <2>8, <1>2 DEF Apart
        <4> QED BY <4>1, <4>3
      <3>2. CodesApart(result)
        BY <2>8 DEF Arranged
      <3> DEFINE from(i) == IF i < at THEN i ELSE i - 1
      <3>3. ASSUME NEW i \in DOMAIN new, i # at
            PROVE  from(i) \in DOMAIN result /\ new[i] = result[from(i)]
        BY <3>3, <2>1, <2>3, <2>5
      <3>4. ASSUME NEW i \in DOMAIN new, NEW j \in DOMAIN new, new[i].code = new[j].code PROVE i = j
        <4>1. CASE i = at
          BY <4>1, <3>1, <3>3, <3>4, <2>5
        <4>2. CASE j = at
          BY <4>2, <3>1, <3>3, <3>4, <2>5
        <4>3. CASE i # at /\ j # at
          <5>1. from(i) = from(j)
            <6> HIDE DEF from
            <6> QED BY <4>3, <3>2, <3>3, <3>4 DEF CodesApart
          <5> QED BY <5>1, <4>3, <2>3, <2>1, <2>5
        <4> QED BY <4>1, <4>2, <4>3
      <3> QED BY <3>4 DEF CodesApart
    <2> QED BY <2>1, <2>2, <2>3, <2>6, <2>7, <2>8 DEF Arranged
  <1> QED BY <1>1, <1>2

\* The sorted choices are an arrangement of them.
LEMMA SortedArranged ==
  ASSUME NEW choices, Len(choices) \in Nat, DOMAIN choices = 1 .. Len(choices)
  PROVE  Arranged(Sorted(choices), choices, Len(choices))
  <1>1. PICK g : Sorting(choices, g, Len(choices)) /\ Sorted(choices) = g[Len(choices)]
    BY SortedIsSorting
  <1> DEFINE D == {k \in 0 .. Len(choices) : ~Arranged(g[k], choices, k)}
  <1>2. SUFFICES ASSUME D # {} PROVE FALSE
    BY <1>1
  <1>3. PICK m \in D : \A k \in D : m <= k
    <2>1. D \subseteq Nat
      OBVIOUS
    <2> HIDE DEF D
    <2> QED BY <1>2, <2>1, FirstNumber
  <1>4. m # 0
    <2>1. g[0] = <<>>
      BY <1>1 DEF Sorting
    <2>2. Arranged(<<>>, choices, 0)
      BY DEF Arranged, Comes, Holds, CodesApart
    <2> QED BY <2>1, <2>2
  <1>5. Arranged(g[m - 1], choices, m - 1)
    BY <1>3, <1>4
  <1>6. g[m] = Put(g[m - 1], choices[m])
    BY <1>1, <1>4 DEF Sorting
  <1>7. m - 1 \in Nat /\ m - 1 + 1 = m /\ m \in DOMAIN choices
    BY <1>4
  <1>8. Arranged(g[m], choices, m)
    BY <1>5, <1>6, <1>7, PutArranged
  <1> QED BY <1>3, <1>8

-----------------------------------------------------------------------------
(* What a plan leaves when it is applied and nobody interferes. *)

AfterOperation(store, plan, left, k) ==
    IF plan[k].action = "delete" THEN left ELSE Effect(plan[k], store, left, nextId + k)
Applying(store, plan, g, n) ==
    /\ g = [k \in 0 .. n |-> g[k]]
    /\ \A k \in 0 .. n : g[k] = IF k = 0 THEN store ELSE AfterOperation(store, plan, g[k - 1], k)

\* There is such a course for any plan.
LEMMA ApplyingExists ==
  ASSUME NEW store, NEW plan, NEW n \in Nat
  PROVE  \E g : Applying(store, plan, g, n)
  <1> DEFINE D == {k \in Nat : ~ \E g : Applying(store, plan, g, k)}
  <1>1. SUFFICES ASSUME D # {} PROVE FALSE
    OBVIOUS
  <1>2. PICK m \in D : \A k \in D : m <= k
    <2>1. D \subseteq Nat
      OBVIOUS
    <2> HIDE DEF D
    <2> QED BY <1>1, <2>1, FirstNumber
  <1>3. m # 0
    <2> DEFINE g == [k \in 0 .. 0 |-> store]
    <2>1. Applying(store, plan, g, 0)
      BY DEF Applying
    <2>2. \E f : Applying(store, plan, f, 0)
      BY <2>1
    <2> QED BY <2>2
  <1>4. PICK g : Applying(store, plan, g, m - 1)
    BY <1>2, <1>3
  <1> DEFINE h == [k \in 0 .. m |-> IF k = m THEN AfterOperation(store, plan, g[m - 1], m) ELSE g[k]]
  <1>5. Applying(store, plan, h, m)
    <2>1. h = [k \in 0 .. m |-> h[k]]
      OBVIOUS
    <2>2. ASSUME NEW k \in 0 .. m
          PROVE  h[k] = IF k = 0 THEN store ELSE AfterOperation(store, plan, h[k - 1], k)
      <3>1. CASE k = m
        <4>1. m - 1 \in 0 .. m /\ m - 1 # m /\ m \in 0 .. m
          BY <1>3
        <4>2. h[m] = AfterOperation(store, plan, g[m - 1], m) /\ h[m - 1] = g[m - 1]
          BY <4>1
        <4> HIDE DEF h
        <4> QED BY <4>2, <3>1, <1>3
      <3>2. CASE k # m
        <4>1. k \in 0 .. m - 1
          BY <3>2
        <4>2. g[k] = IF k = 0 THEN store ELSE AfterOperation(store, plan, g[k - 1], k)
          BY <4>1, <1>4 DEF Applying
        <4>3. h[k] = g[k]
          BY <3>2
        <4>4. k # 0 => h[k - 1] = g[k - 1]
          BY <4>1
        <4> HIDE DEF h
        <4> QED BY <4>2, <4>3, <4>4
      <3> QED BY <3>1, <3>2
    <2> HIDE DEF h
    <2> QED BY <2>1, <2>2 DEF Applying
  <1>6. \E f : Applying(store, plan, f, m)
    BY <1>5
  <1> QED BY <1>6, <1>2

\* What a plan leaves is at the end of one.
LEMMA AppliedIsApplying ==
  ASSUME NEW store, NEW plan, Len(plan) \in Nat
  PROVE  \E g : Applying(store, plan, g, Len(plan)) /\ Applied(store, plan) = g[Len(plan)]
  <1> DEFINE n == Len(plan)
             Rec(g) == g = [k \in 0 .. n |->
                        IF k = 0 THEN store
                        ELSE IF plan[k].action = "delete" THEN g[k - 1]
                        ELSE Effect(plan[k], store, g[k - 1], nextId + k)]
             c == CHOOSE g : Rec(g)
  <1>2. PICK k : Applying(store, plan, k, n)
    BY ApplyingExists
  <1>3. Rec(k)
    BY <1>2 DEF Applying, AfterOperation
  <1>4. Rec(c)
    BY <1>3
  <1>5. Applied(store, plan) = c[n]
    BY DEF Applied
  <1>6. Applying(store, plan, c, n)
    <2> HIDE DEF c, n
    <2>1. \A i \in 0 .. n : c[i] = IF i = 0 THEN store ELSE AfterOperation(store, plan, c[i - 1], i)
      BY <1>4 DEF AfterOperation
    <2>2. c = [i \in 0 .. n |-> c[i]]
      BY <1>4
    <2> QED BY <2>1, <2>2 DEF Applying
  <1> QED BY <1>5, <1>6

\* After n operations: the new ones are there as desired, an old one is written
\* by the update that has its code or as it was.
Hits(store, plan, k, i) == plan[k].action = "update" /\ i \in FindByCode(store, plan[k].code)
Created(plan, n) == {nextId + k : k \in {j \in 1 .. n : plan[j].action = "create"}}
LeftAfter(store, plan, left, n) ==
    /\ DOMAIN left = DOMAIN store \cup Created(plan, n)
    /\ \A k \in 1 .. n : plan[k].action = "create" => left[nextId + k] = plan[k].desired[1]
    /\ \A i \in DOMAIN store :
          (\A k \in 1 .. n : ~Hits(store, plan, k, i)) => left[i] = store[i]
    /\ \A i \in DOMAIN store : \A k \in 1 .. n :
          Hits(store, plan, k, i) => left[i] = Written(plan[k], store[i])

\* A plan can be applied: what it does is one of the three, each code once, and
\* the ids of the webhooks are used up.
Applicable(store, plan) ==
    /\ nextId \in Nat /\ DOMAIN store \subseteq 1 .. nextId - 1
    /\ Len(plan) \in Nat /\ DOMAIN plan = 1 .. Len(plan)
    /\ \A k \in DOMAIN plan : plan[k].action \in {"create", "update", "delete"}
    /\ CodesApart(plan)

\* What a code is found at is there and has it.
LEMMA FoundIs == \A store, c : \A i \in FindByCode(store, c) : i \in DOMAIN store /\ store[i].code = c
  BY DEF FindByCode

\* One operation more.
LEMMA OneMoreLeft ==
  ASSUME NEW store, NEW plan, Applicable(store, plan), NEW n \in Nat, n + 1 \in DOMAIN plan,
         NEW left, LeftAfter(store, plan, left, n)
  PROVE  LeftAfter(store, plan, AfterOperation(store, plan, left, n + 1), n + 1)
  <1> DEFINE m == n + 1
             op == plan[n + 1]
             new == AfterOperation(store, plan, left, n + 1)
  <1>1. /\ nextId \in Nat /\ DOMAIN store \subseteq 1 .. nextId - 1
        /\ op.action \in {"create", "update", "delete"}
    BY DEF Applicable
  <1>2. \A k \in 1 .. m : k \in 1 .. n \/ k = m
    OBVIOUS
  <1>3. /\ DOMAIN left = DOMAIN store \cup Created(plan, n)
        /\ \A k \in 1 .. n : plan[k].action = "create" => left[nextId + k] = plan[k].desired[1]
        /\ \A i \in DOMAIN store :
              (\A k \in 1 .. n : ~Hits(store, plan, k, i)) => left[i] = store[i]
        /\ \A i \in DOMAIN store : \A k \in 1 .. n :
              Hits(store, plan, k, i) => left[i] = Written(plan[k], store[i])
    BY DEF LeftAfter
  <1>4. CASE op.action = "delete"
    <2>1. new = left
      BY <1>4 DEF AfterOperation
    <2>2. Created(plan, m) = Created(plan, n)
      BY <1>4, <1>2 DEF Created
    <2>3. \A i : ~Hits(store, plan, m, i)
      BY <1>4 DEF Hits
    <2> HIDE DEF new, m
    <2>4. \A k \in 1 .. m : plan[k].action = "create" => k \in 1 .. n
      BY <1>2, <1>4 DEF m
    <2>5. \A k \in 1 .. n : k \in 1 .. m
      BY DEF m
    <2> QED BY <1>2, <1>3, <2>1, <2>2, <2>3, <2>4, <2>5 DEF LeftAfter, m, new
  <1>5. CASE op.action = "create"
    <2>1. new = [i \in DOMAIN left \cup {nextId + m} |-> IF i = nextId + m THEN op.desired[1] ELSE left[i]]
      BY <1>5 DEF AfterOperation, Effect
    <2>2. Created(plan, m) = Created(plan, n) \cup {nextId + m}
      BY <1>5, <1>2 DEF Created
    <2>3. \A i : ~Hits(store, plan, m, i)
      BY <1>5 DEF Hits
    <2>4. \A i \in DOMAIN store : i # nextId + m
      BY <1>1
    <2>5. \A k \in 1 .. n : nextId + k # nextId + m /\ k \in 1 .. m
      BY <1>1
    <2>6. \A k \in 1 .. n : plan[k].action = "create" => nextId + k \in DOMAIN left
      BY <1>3 DEF Created
    <2> HIDE DEF new, m
    <2>7. DOMAIN new = DOMAIN store \cup Created(plan, m)
      BY <1>3, <2>1, <2>2
    <2>8. ASSUME NEW k \in 1 .. m, plan[k].action = "create" PROVE new[nextId + k] = plan[k].desired[1]
      <3>1. CASE k = m
        BY <3>1, <2>1 DEF m
      <3>2. CASE k \in 1 .. n
        BY <3>2, <2>1, <2>5, <2>6, <2>8, <1>3
      <3> QED BY <3>1, <3>2, <1>2 DEF m
    <2>9. \A i \in DOMAIN store : new[i] = left[i]
      BY <1>3, <2>1, <2>4
    <2>10. LeftAfter(store, plan, new, m)
      BY <1>2, <1>3, <2>3, <2>5, <2>7, <2>8, <2>9 DEF LeftAfter, m
    <2> QED BY <2>10 DEF m, new
  <1>6. CASE op.action = "update"
    <2>1. new = [i \in DOMAIN left |-> IF i \in FindByCode(store, op.code) THEN Written(op, store[i]) ELSE left[i]]
      BY <1>6 DEF AfterOperation, Effect, Targets
    <2>2. Created(plan, m) = Created(plan, n)
      BY <1>6, <1>2 DEF Created
    <2>3. \A i : Hits(store, plan, m, i) <=> i \in FindByCode(store, op.code)
      BY <1>6 DEF Hits
    <2>4. \A k \in 1 .. n : k \in 1 .. m /\ nextId + k \notin DOMAIN store
      BY <1>1
    <2>5. \A k \in 1 .. m : plan[k].action = "create" => k \in 1 .. n
      BY <1>2, <1>6
    <2>6. \A k \in 1 .. n : plan[k].action = "create" => nextId + k \in DOMAIN left
      BY <1>3 DEF Created
    <2>7. ASSUME NEW i, NEW k \in 1 .. n, Hits(store, plan, k, i), Hits(store, plan, m, i) PROVE FALSE
      <3>1. plan[k].code = plan[m].code
        BY <2>7, FoundIs DEF Hits
      <3>2. k \in DOMAIN plan /\ m \in DOMAIN plan /\ k # m
        BY DEF Applicable
      <3> QED BY <3>1, <3>2 DEF Applicable, CodesApart
    <2> HIDE DEF new, m
    <2>8. DOMAIN new = DOMAIN store \cup Created(plan, m)
      BY <1>3, <2>1, <2>2
    <2>9. ASSUME NEW k \in 1 .. m, plan[k].action = "create" PROVE new[nextId + k] = plan[k].desired[1]
      <3>1. nextId + k \notin FindByCode(store, op.code) /\ nextId + k \in DOMAIN left
        BY <2>4, <2>5, <2>6, <2>9, FoundIs
      <3> QED BY <3>1, <2>1, <2>5, <2>9, <1>3
    <2>10. ASSUME NEW i \in DOMAIN store, \A k \in 1 .. m : ~Hits(store, plan, k, i) PROVE new[i] = store[i]
      <3>1. m \in 1 .. m
        BY DEF m
      <3>2. i \notin FindByCode(store, op.code) /\ left[i] = store[i]
        BY <2>3, <2>4, <2>10, <3>1, <1>3
      <3> QED BY <3>2, <2>1, <1>3
    <2>11. ASSUME NEW i \in DOMAIN store, NEW k \in 1 .. m, Hits(store, plan, k, i)
           PROVE  new[i] = Written(plan[k], store[i])
      <3>1. CASE k = m
        BY <3>1, <2>1, <2>3, <2>11, <1>3 DEF m
      <3>2. CASE k \in 1 .. n
        <4>1. i \notin FindByCode(store, op.code)
          BY <2>3, <2>7, <2>11, <3>2
        <4> QED BY <4>1, <2>1, <2>11, <3>2, <1>3
      <3> QED BY <3>1, <3>2, <1>2 DEF m
    <2>12. LeftAfter(store, plan, new, m)
      BY <2>8, <2>9, <2>10, <2>11 DEF LeftAfter
    <2> QED BY <2>12 DEF m, new
  <1> QED BY <1>1, <1>4, <1>5, <1>6

\* A plan that can be applied leaves this.
LEMMA AppliedIs ==
  ASSUME NEW store, NEW plan, Applicable(store, plan)
  PROVE  LeftAfter(store, plan, Applied(store, plan), Len(plan))
  <1>0. Len(plan) \in Nat /\ DOMAIN plan = 1 .. Len(plan)
    BY DEF Applicable
  <1>1. PICK g : Applying(store, plan, g, Len(plan)) /\ Applied(store, plan) = g[Len(plan)]
    BY <1>0, AppliedIsApplying
  <1> DEFINE D == {k \in 0 .. Len(plan) : ~LeftAfter(store, plan, g[k], k)}
  <1>2. SUFFICES ASSUME D # {} PROVE FALSE
    BY <1>0, <1>1
  <1>3. PICK m \in D : \A k \in D : m <= k
    <2>1. D \subseteq Nat
      BY <1>0
    <2> HIDE DEF D
    <2> QED BY <1>2, <2>1, FirstNumber
  <1>4. m # 0
    <2>1. g[0] = store
      BY <1>0, <1>1 DEF Applying
    <2>2. 1 .. 0 = {}
      OBVIOUS
    <2>3. Created(plan, 0) = {}
      BY <2>2 DEF Created
    <2>4. LeftAfter(store, plan, store, 0)
      BY <2>2, <2>3 DEF LeftAfter
    <2> QED BY <2>1, <2>4
  <1>5. LeftAfter(store, plan, g[m - 1], m - 1)
    BY <1>0, <1>3, <1>4
  <1>6. g[m] = AfterOperation(store, plan, g[m - 1], m)
    BY <1>0, <1>1, <1>4 DEF Applying
  <1>7. m - 1 \in Nat /\ m - 1 + 1 = m /\ m \in DOMAIN plan
    BY <1>0, <1>4
  <1>8. LeftAfter(store, plan, g[m], m)
    BY <1>5, <1>6, <1>7, OneMoreLeft
  <1> QED BY <1>3, <1>8

-----------------------------------------------------------------------------
(* What a plan consists of. *)

\* The fields of an operation of a plan.
LEMMA OperationIs ==
  \A a, current, desired :
      /\ Operation(a, current, desired).action = a
      /\ Operation(a, current, desired).desired = desired
  BY DEF Operation

\* The code of an operation is that of its hook.
LEMMA OperationCode ==
  ASSUME NEW a, NEW current, NEW hook
  PROVE  /\ Operation(a, current, <<hook>>).code = hook.code
         /\ Operation(a, <<hook>>, <<>>).code = hook.code
  <1>1. \A d, c : Operation(a, c, d).code = (d \o c)[1].code
    BY DEF Operation
  <1>2. (<<>> \o <<hook>>)[1] = hook /\ \A c : c = <<>> => (<<hook>> \o c)[1] = hook
    OBVIOUS
  <1> QED BY <1>1, <1>2

\* A code that no managed webhook has, or one has, is looked up so.
LEMMA LookupNone ==
  ASSUME NEW items, NEW c, Lookup(items, c) = <<>>
  PROVE  \A i \in Managed(items) : items[i].code # c
  BY DEF Lookup

\* The only managed hook with a code is found.
LEMMA LookupOne ==
  ASSUME NEW items, NEW c, NEW i \in Managed(items), i \in Nat, items[i].code = c,
         \A j \in Managed(items) : items[j].code = c => j = i
  PROVE  Lookup(items, c) = <<items[i]>>
  <1>1. {j \in Managed(items) : items[j].code = c} = {i}
    OBVIOUS
  <1>2. LastOf({i}) = i
    BY DEF LastOf
  <1> QED BY <1>1, <1>2 DEF Lookup

\* What is found is a managed hook with that code.
LEMMA LookupSome ==
  ASSUME NEW items, NEW n \in Nat, DOMAIN items \subseteq 1 .. n, CodesOnce(items),
         NEW c, c # Outside, Lookup(items, c) # <<>>
  PROVE  \E i \in Managed(items) : items[i].code = c /\ Lookup(items, c) = <<items[i]>>
  <1>1. PICK i \in Managed(items) : items[i].code = c
    BY DEF Lookup
  <1>2. i \in Nat /\ i \in DOMAIN items
    BY DEF Managed
  <1>3. \A j \in Managed(items) : items[j].code = c => j = i
    BY <1>1, <1>2 DEF Managed, CodesOnce
  <1> QED BY <1>1, <1>2, <1>3, LookupOne

\* What is planned for the n-th wanted hook.
CurrentOf(wanted, items, n) == Lookup(items, CodeOf(wanted[n]))
DesiredOf(wanted, items, n) == DesiredHook(wanted[n], CurrentOf(wanted, items, n), Defaults(items))
ChoiceOf(wanted, items, n) == Planned(DesiredOf(wanted, items, n), CurrentOf(wanted, items, n))

\* What is deleted is managed and not wanted.
Obsolete(wanted, items, i) ==
    i \in Managed(items) /\ \A k \in DOMAIN wanted : CodeOf(wanted[k]) # items[i].code
Deletion(items, i) == Operation("delete", <<items[i]>>, <<>>)

ChoicesFor(wanted, items, choices) ==
    /\ Len(choices) \in Nat /\ DOMAIN choices = 1 .. Len(choices)
    /\ \A n \in DOMAIN wanted : n \in DOMAIN choices /\ choices[n] = ChoiceOf(wanted, items, n)
    /\ \A n \in DOMAIN choices \ DOMAIN wanted :
          choices[n] # <<>> => /\ Obsolete(wanted, items, n - Len(wanted))
                               /\ choices[n] = <<Deletion(items, n - Len(wanted))>>

\* A plan is the arrangement of such choices.
LEMMA BuiltIs ==
  ASSUME NEW wanted, IsWanted(wanted), NEW items, NEW n \in Nat, DOMAIN items \subseteq 1 .. n
  PROVE  \E choices : /\ ChoicesFor(wanted, items, choices)
                      /\ BuildOperations(wanted, items) = Sorted(choices)
  <1> DEFINE current == [k \in DOMAIN wanted |-> Lookup(items, CodeOf(wanted[k]))]
             obsolete == {i \in Managed(items) : \A k \in DOMAIN wanted : CodeOf(wanted[k]) # items[i].code}
             last == IF DOMAIN items = {} THEN 0 ELSE LastOf(DOMAIN items)
             Choice(k) == IF k <= Len(wanted)
                          THEN Planned(DesiredHook(wanted[k], current[k], Defaults(items)), current[k])
                          ELSE IF k - Len(wanted) \in obsolete
                          THEN <<Operation("delete", <<items[k - Len(wanted)]>>, <<>>)>> ELSE <<>>
             choices == [k \in 1 .. Len(wanted) + last |-> Choice(k)]
  <1>1. BuildOperations(wanted, items) = Sorted(choices)
    BY DEF BuildOperations
  <1>2. last \in Nat
    <2>1. CASE DOMAIN items # {}
      <3>1. DOMAIN items \subseteq 0 .. n
        OBVIOUS
      <3> QED BY <2>1, <3>1, LastNumber
    <2> QED BY <2>1
  <1>3. Len(wanted) \in Nat /\ DOMAIN wanted = 1 .. Len(wanted)
    BY DEF IsWanted
  <1> HIDE DEF last
  <1>4. Len(choices) = Len(wanted) + last /\ DOMAIN choices = 1 .. Len(wanted) + last
    BY <1>2, <1>3
  <1>5. ASSUME NEW k \in DOMAIN wanted PROVE k \in DOMAIN choices /\ choices[k] = ChoiceOf(wanted, items, k)
    <2>1. k <= Len(wanted) /\ k \in DOMAIN choices
      BY <1>2, <1>3, <1>4
    <2>2. choices[k] = Choice(k)
      BY <2>1
    <2>3. current[k] = CurrentOf(wanted, items, k)
      BY DEF CurrentOf
    <2> HIDE DEF choices, current
    <2> QED BY <2>1, <2>2, <2>3 DEF ChoiceOf, DesiredOf
  <1>6. ASSUME NEW k \in DOMAIN choices \ DOMAIN wanted, choices[k] # <<>>
        PROVE  /\ Obsolete(wanted, items, k - Len(wanted))
               /\ choices[k] = <<Deletion(items, k - Len(wanted))>>
    <2>1. ~(k <= Len(wanted))
      BY <1>2, <1>3, <1>4
    <2>2. choices[k] = Choice(k)
      OBVIOUS
    <2> HIDE DEF choices
    <2>3. k - Len(wanted) \in obsolete
      BY <1>6, <2>1, <2>2
    <2> QED BY <2>1, <2>2, <2>3 DEF Obsolete, Deletion
  <1> HIDE DEF choices
  <1>7. ChoicesFor(wanted, items, choices)
    BY <1>2, <1>3, <1>4, <1>5, <1>6 DEF ChoicesFor
  <1> QED BY <1>1, <1>7

\* An operation is what was planned for the n-th wanted hook.
PlannedFor(wanted, items, op, n) ==
    \/ /\ CurrentOf(wanted, items, n) = <<>>
       /\ op = Operation("create", <<>>, <<DesiredOf(wanted, items, n)>>)
    \/ /\ CurrentOf(wanted, items, n) # <<>>
       /\ Comparable(CurrentOf(wanted, items, n)[1]) # Comparable(DesiredOf(wanted, items, n))
       /\ op = Operation("update", CurrentOf(wanted, items, n), <<DesiredOf(wanted, items, n)>>)

\* An operation that is chosen for a wanted hook is planned for it.
LEMMA ChoiceIs ==
  ASSUME NEW wanted, NEW items, NEW n, ChoiceOf(wanted, items, n) # <<>>
  PROVE  PlannedFor(wanted, items, ChoiceOf(wanted, items, n)[1], n)
  BY DEF ChoiceOf, Planned, PlannedFor

\* It has the code of that hook, a create or an update of it.
LEMMA PlannedForIs ==
  ASSUME NEW wanted, NEW items, NEW op, NEW n, PlannedFor(wanted, items, op, n)
  PROVE  /\ op.code = CodeOf(wanted[n]) /\ op.desired = <<DesiredOf(wanted, items, n)>>
         /\ DesiredOf(wanted, items, n).code = CodeOf(wanted[n])
         /\ op.action = IF CurrentOf(wanted, items, n) = <<>> THEN "create" ELSE "update"
  <1>1. DesiredOf(wanted, items, n).code = CodeOf(wanted[n])
    BY DesiredIs DEF DesiredOf
  <1> QED BY <1>1, OperationIs, OperationCode DEF PlannedFor

\* A plan changes what is wanted and differs, once each, and deletes the rest.
LEMMA PlanIs ==
  ASSUME NEW wanted, IsWanted(wanted), NEW items, NEW n \in Nat, DOMAIN items \subseteq 1 .. n,
         NEW plan, plan = BuildOperations(wanted, items)
  PROVE  /\ Len(plan) \in Nat /\ DOMAIN plan = 1 .. Len(plan)
         /\ \A k \in DOMAIN plan : \/ plan[k].action = "delete"
                                   \/ \E m \in DOMAIN wanted : PlannedFor(wanted, items, plan[k], m)
         /\ \A k \in DOMAIN plan : plan[k].action # "delete" =>
                \E m \in DOMAIN wanted : ChoiceOf(wanted, items, m) # <<>>
         /\ \A m \in DOMAIN wanted : ChoiceOf(wanted, items, m) # <<>> =>
                \E k \in DOMAIN plan : PlannedFor(wanted, items, plan[k], m)
         /\ CodesOnce(items) => CodesApart(plan)
  <1>1. PICK choices : ChoicesFor(wanted, items, choices) /\ plan = Sorted(choices)
    BY BuiltIs
  <1>2. /\ Len(choices) \in Nat /\ DOMAIN choices = 1 .. Len(choices)
        /\ \A m \in DOMAIN wanted : m \in DOMAIN choices /\ choices[m] = ChoiceOf(wanted, items, m)
        /\ \A m \in DOMAIN choices \ DOMAIN wanted :
              choices[m] # <<>> => /\ Obsolete(wanted, items, m - Len(wanted))
                                   /\ choices[m] = <<Deletion(items, m - Len(wanted))>>
    BY <1>1 DEF ChoicesFor
  <1>3. /\ Len(plan) \in Nat /\ DOMAIN plan = 1 .. Len(plan)
        /\ Comes(plan, choices, Len(choices)) /\ Holds(plan, choices, Len(choices))
        /\ Apart(choices) => CodesApart(plan)
    BY <1>1, <1>2, SortedArranged DEF Arranged
  <1>4. ASSUME NEW m \in DOMAIN choices, choices[m] # <<>>
        PROVE  \/ m \in DOMAIN wanted /\ PlannedFor(wanted, items, choices[m][1], m)
               \/ /\ m \notin DOMAIN wanted /\ Obsolete(wanted, items, m - Len(wanted))
                  /\ choices[m][1] = Deletion(items, m - Len(wanted))
    BY <1>2, <1>4, ChoiceIs
  <1>5. \A i : Deletion(items, i).action = "delete" /\ Deletion(items, i).code = items[i].code
    BY OperationIs, OperationCode DEF Deletion
  <1>6. ASSUME NEW k \in DOMAIN plan
        PROVE  \/ plan[k].action = "delete"
               \/ \E m \in DOMAIN wanted : /\ PlannedFor(wanted, items, plan[k], m)
                                           /\ ChoiceOf(wanted, items, m) # <<>>
    <2>1. PICK m \in 1 .. Len(choices) : choices[m] # <<>> /\ plan[k] = choices[m][1]
      BY <1>3 DEF Comes
    <2> QED BY <1>2, <1>4, <1>5, <2>1
  <1>7. ASSUME NEW m \in DOMAIN wanted, ChoiceOf(wanted, items, m) # <<>>
        PROVE  \E k \in DOMAIN plan : PlannedFor(wanted, items, plan[k], m)
    <2>1. m \in 1 .. Len(choices) /\ choices[m] # <<>> /\ PlannedFor(wanted, items, choices[m][1], m)
      BY <1>2, <1>4, <1>7
    <2>2. PICK k \in DOMAIN plan : plan[k] = choices[m][1]
      BY <1>3, <2>1 DEF Holds
    <2> QED BY <2>1, <2>2
  <1>8. ASSUME CodesOnce(items) PROVE Apart(choices)
    <2> SUFFICES ASSUME NEW k \in DOMAIN choices, NEW l \in DOMAIN choices,
                        choices[k] # <<>>, choices[l] # <<>>, choices[k][1].code = choices[l][1].code
                 PROVE  k = l
      BY DEF Apart
    <2>1. CASE k \in DOMAIN wanted /\ l \in DOMAIN wanted
      <3>1. CodeOf(wanted[k]) = CodeOf(wanted[l])
        BY <1>4, <2>1, PlannedForIs
      <3> QED BY <2>1, <3>1 DEF IsWanted
    <2>2. CASE k \in DOMAIN wanted /\ l \notin DOMAIN wanted
      BY <1>4, <1>5, <2>2, PlannedForIs DEF Obsolete
    <2>3. CASE k \notin DOMAIN wanted /\ l \in DOMAIN wanted
      BY <1>4, <1>5, <2>3, PlannedForIs DEF Obsolete
    <2>4. CASE k \notin DOMAIN wanted /\ l \notin DOMAIN wanted
      <3> DEFINE i == k - Len(wanted)
                 j == l - Len(wanted)
      <3>1. i \in Managed(items) /\ j \in Managed(items) /\ items[i].code = items[j].code
        BY <1>4, <1>5, <2>4 DEF Obsolete
      <3> HIDE DEF i, j
      <3>2. i = j
        BY <3>1, <1>8 DEF CodesOnce, Managed, IsManaged
      <3>3. Len(wanted) \in Nat
        BY DEF IsWanted
      <3> QED BY <3>2, <3>3, <1>2 DEF i, j
    <2> QED BY <2>1, <2>2, <2>3, <2>4
  <1> QED BY <1>3, <1>6, <1>7, <1>8

-----------------------------------------------------------------------------
(* A plan settles the matter. *)

\* CMDBuild as the invariant knows it.
StoreOnce == nextId \in Nat \ {0} /\ DOMAIN hooks \subseteq 1 .. nextId - 1 /\ CodesOnce(hooks)

\* A plan of it can be applied.
LEMMA PlanApplicable ==
  ASSUME StoreOnce, NEW wanted, IsWanted(wanted), NEW plan, plan = BuildOperations(wanted, hooks)
  PROVE  Applicable(hooks, plan)
  <1>1. nextId - 1 \in Nat /\ DOMAIN hooks \subseteq 1 .. nextId - 1
    BY DEF StoreOnce
  <1>2. /\ Len(plan) \in Nat /\ DOMAIN plan = 1 .. Len(plan)
        /\ \A k \in DOMAIN plan : \/ plan[k].action = "delete"
                                  \/ \E m \in DOMAIN wanted : PlannedFor(wanted, hooks, plan[k], m)
        /\ CodesApart(plan)
    BY <1>1, PlanIs DEF StoreOnce
  <1>3. \A k \in DOMAIN plan : plan[k].action \in {"create", "update", "delete"}
    BY <1>2, PlannedForIs
  <1> QED BY <1>2, <1>3 DEF Applicable, StoreOnce

\* A code is found where a webhook has it.
LEMMA FoundWhere ==
  ASSUME StoreOnce, NEW i \in DOMAIN hooks, hooks[i].code # Outside
  PROVE  FindByCode(hooks, hooks[i].code) = {i}
  <1>1. i \in Nat /\ \A j \in DOMAIN hooks : hooks[j].code = hooks[i].code => j = i
    BY DEF StoreOnce, CodesOnce
  <1> QED BY <1>1 DEF FindByCode

\* A plan that conflicts with nobody is not refused.
Conflict(plan) ==
    \E k \in DOMAIN plan : plan[k].action = "create" /\ FindByCode(hooks, plan[k].code) # {}

\* Without a conflict the BFF refuses none of a plan's creates and updates.
LEMMA PlanAllowed ==
  ASSUME StoreOnce, NEW wanted, IsWanted(wanted), NEW plan, plan = BuildOperations(wanted, hooks),
         ~Conflict(plan), NEW k \in DOMAIN plan, plan[k].action # "delete"
  PROVE  Allowed(plan[k], hooks)
  <1> DEFINE op == plan[k]
  <1>1. nextId - 1 \in Nat /\ DOMAIN hooks \subseteq 1 .. nextId - 1
    BY DEF StoreOnce
  <1>2. PICK n \in DOMAIN wanted : PlannedFor(wanted, hooks, op, n)
    BY <1>1, PlanIs
  <1> DEFINE c == CodeOf(wanted[n])
             d == DesiredOf(wanted, hooks, n)
             current == CurrentOf(wanted, hooks, n)
  <1>3. /\ op.code = c /\ op.desired = <<d>> /\ d.code = c
        /\ op.action = IF current = <<>> THEN "create" ELSE "update"
    BY <1>2, PlannedForIs
  <1>4. d.owner = "ours" /\ (current # <<>> => d.url = UrlOr(current[1].url, Defaults(hooks).url))
    BY DesiredIs DEF DesiredOf
  <1>5. c # Outside
    BY DEF IsWanted
  <1>6. current = Lookup(hooks, c)
    BY DEF CurrentOf
  <1>7. op.action = "create" => FindByCode(hooks, op.code) = {}
    BY DEF Conflict
  <1> HIDE DEF op, c, d, current
  <1>8. op.desired[1] = d
    BY <1>3
  <1>9. ASSUME current = <<>> PROVE Allowed(op, hooks)
    BY <1>3, <1>4, <1>5, <1>7, <1>8, <1>9 DEF Allowed
  <1>10. ASSUME current # <<>> PROVE Allowed(op, hooks)
    <2>1. PICK i \in Managed(hooks) : hooks[i].code = c /\ current = <<hooks[i]>>
      BY <1>1, <1>5, <1>6, <1>10, LookupSome DEF StoreOnce
    <2>2. i \in DOMAIN hooks /\ IsManaged(hooks[i])
      BY DEF Managed
    <2>3. i \in Targets(op, hooks)
      BY <1>3, <1>5, <1>10, <2>1, <2>2, FoundWhere DEF Targets
    <2>4. hooks[i].owner = "legacy" => d.url = hooks[i].url
      BY <1>4, <1>10, <2>1, <2>2, PrefixAssumption DEF IsManaged, UrlOr
    <2>5. op.desired # <<>>
      BY <1>3
    <2>6. Owned(hooks[i], op.desired)
      BY <1>8, <2>2, <2>4, <2>5 DEF IsManaged, Owned
    <2> QED BY <1>3, <1>4, <1>5, <1>8, <1>10, <2>3, <2>6 DEF Allowed
  <1> QED BY <1>9, <1>10 DEF op

\* What is compared does not depend on the Authorization.
LEMMA AuthorizationApart ==
    \A hook, auth : /\ Comparable(WithAuthorization(hook, auth)) = Comparable(hook)
                    /\ WithAuthorization(hook, auth).code = hook.code
  BY DEF Comparable, WithAuthorization

\* A webhook keeps its code when the plan is applied.
LEMMA CodesKept ==
  ASSUME StoreOnce, NEW wanted, IsWanted(wanted), NEW plan, plan = BuildOperations(wanted, hooks),
         NEW i \in DOMAIN hooks
  PROVE  Applied(hooks, plan)[i].code = hooks[i].code
  <1>1. Applicable(hooks, plan) /\ LeftAfter(hooks, plan, Applied(hooks, plan), Len(plan))
    BY PlanApplicable, AppliedIs
  <1>2. Len(plan) \in Nat /\ DOMAIN plan = 1 .. Len(plan)
    BY <1>1 DEF Applicable
  <1>3. CASE \A k \in 1 .. Len(plan) : ~Hits(hooks, plan, k, i)
    BY <1>1, <1>3 DEF LeftAfter
  <1>4. ASSUME NEW k \in 1 .. Len(plan), Hits(hooks, plan, k, i)
        PROVE  Applied(hooks, plan)[i].code = hooks[i].code
    <2>1. Applied(hooks, plan)[i] = Written(plan[k], hooks[i])
      BY <1>1, <1>4 DEF LeftAfter
    <2>2. plan[k].action = "update" /\ hooks[i].code = plan[k].code
      BY <1>4, FoundIs DEF Hits
    <2>3. nextId - 1 \in Nat /\ DOMAIN hooks \subseteq 1 .. nextId - 1
      BY DEF StoreOnce
    <2>4. PICK n \in DOMAIN wanted : PlannedFor(wanted, hooks, plan[k], n)
      BY <1>2, <2>2, <2>3, PlanIs
    <2>5. plan[k].desired[1].code = plan[k].code
      BY <2>4, PlannedForIs
    <2> QED BY <2>1, <2>2, <2>5, AuthorizationApart DEF Written
  <1> QED BY <1>3, <1>4

\* A webhook that the plan has created is the desired one.
LEMMA CreatedIs ==
  ASSUME StoreOnce, NEW wanted, IsWanted(wanted), NEW plan, plan = BuildOperations(wanted, hooks),
         NEW i \in Created(plan, Len(plan))
  PROVE  \E k \in DOMAIN plan : \E n \in DOMAIN wanted :
             /\ i = nextId + k /\ CurrentOf(wanted, hooks, n) = <<>>
             /\ plan[k].code = CodeOf(wanted[n])
             /\ Applied(hooks, plan)[i] = DesiredOf(wanted, hooks, n)
             /\ DesiredOf(wanted, hooks, n).code = CodeOf(wanted[n])
  <1>1. Applicable(hooks, plan) /\ LeftAfter(hooks, plan, Applied(hooks, plan), Len(plan))
    BY PlanApplicable, AppliedIs
  <1>2. Len(plan) \in Nat /\ DOMAIN plan = 1 .. Len(plan)
    BY <1>1 DEF Applicable
  <1>3. PICK k \in 1 .. Len(plan) : i = nextId + k /\ plan[k].action = "create"
    BY DEF Created
  <1>4. Applied(hooks, plan)[i] = plan[k].desired[1]
    BY <1>1, <1>3 DEF LeftAfter
  <1>5. nextId - 1 \in Nat /\ DOMAIN hooks \subseteq 1 .. nextId - 1
    BY DEF StoreOnce
  <1>6. PICK n \in DOMAIN wanted : PlannedFor(wanted, hooks, plan[k], n)
    BY <1>2, <1>3, <1>5, PlanIs
  <1>7. /\ plan[k].code = CodeOf(wanted[n]) /\ plan[k].desired = <<DesiredOf(wanted, hooks, n)>>
        /\ DesiredOf(wanted, hooks, n).code = CodeOf(wanted[n])
        /\ CurrentOf(wanted, hooks, n) = <<>>
    BY <1>3, <1>6, PlannedForIs
  <1> QED BY <1>2, <1>3, <1>4, <1>7

\* Every wanted code has one managed webhook then, and that is as desired.
AsDesired(wanted, items, n, i) ==
    /\ i \in Managed(items) /\ items[i].code = CodeOf(wanted[n])
    /\ Comparable(items[i]) = Comparable(DesiredOf(wanted, hooks, n))
    /\ \A j \in Managed(items) : items[j].code = CodeOf(wanted[n]) => j = i

\* What a plan leaves has, for each wanted hook, the one it desires.
LEMMA EachAsDesired ==
  ASSUME StoreOnce, NEW wanted, IsWanted(wanted), NEW plan, plan = BuildOperations(wanted, hooks),
         ~Conflict(plan), NEW n \in DOMAIN wanted
  PROVE  \E i : AsDesired(wanted, Applied(hooks, plan), n, i)
  <1> DEFINE left == Applied(hooks, plan)
             c == CodeOf(wanted[n])
             d == DesiredOf(wanted, hooks, n)
             current == CurrentOf(wanted, hooks, n)
  <1>1. Applicable(hooks, plan) /\ LeftAfter(hooks, plan, left, Len(plan))
    BY PlanApplicable, AppliedIs
  <1>2. Len(plan) \in Nat /\ DOMAIN plan = 1 .. Len(plan) /\ CodesApart(plan)
    BY <1>1 DEF Applicable
  <1>3. nextId \in Nat /\ nextId - 1 \in Nat /\ DOMAIN hooks \subseteq 1 .. nextId - 1 /\ CodesOnce(hooks)
    BY DEF StoreOnce
  <1>4. c # Outside /\ \A m \in DOMAIN wanted : CodeOf(wanted[m]) = c => m = n
    BY DEF IsWanted
  <1>5. d.code = c /\ d.owner = "ours" /\ Comparable(d).owner = "ours"
    BY DesiredIs DEF DesiredOf, Comparable
  <1>6. DOMAIN left = DOMAIN hooks \cup Created(plan, Len(plan))
    BY <1>1 DEF LeftAfter
  <1>7. \A i \in DOMAIN hooks : left[i].code = hooks[i].code
    BY CodesKept
  <1>8. current = Lookup(hooks, c)
    BY DEF CurrentOf
  <1>9. ASSUME NEW j \in DOMAIN left, left[j].code = c, j \notin DOMAIN hooks
        PROVE  current = <<>> /\ \E k \in DOMAIN plan : j = nextId + k /\ plan[k].code = c
    <2>1. j \in Created(plan, Len(plan))
      BY <1>6, <1>9
    <2>2. PICK k \in DOMAIN plan, m \in DOMAIN wanted :
             /\ j = nextId + k /\ CurrentOf(wanted, hooks, m) = <<>>
             /\ plan[k].code = CodeOf(wanted[m])
             /\ left[j] = DesiredOf(wanted, hooks, m)
             /\ DesiredOf(wanted, hooks, m).code = CodeOf(wanted[m])
      BY <2>1, CreatedIs
    <2>3. m = n
      BY <1>4, <1>9, <2>2
    <2> QED BY <2>2, <2>3
  <1>10. CASE current = <<>>
    <2>1. ChoiceOf(wanted, hooks, n) # <<>>
      BY <1>10 DEF ChoiceOf, Planned
    <2>2. PICK k \in DOMAIN plan : PlannedFor(wanted, hooks, plan[k], n)
      BY <1>3, <2>1, PlanIs
    <2>3. plan[k].code = c /\ plan[k].desired = <<d>> /\ plan[k].action = "create"
      BY <1>10, <2>2, PlannedForIs
    <2>4. left[nextId + k] = d /\ nextId + k \in DOMAIN left
      <3>1. nextId + k \in Created(plan, Len(plan))
        BY <1>2, <2>3 DEF Created
      <3>2. left[nextId + k] = plan[k].desired[1]
        BY <1>1, <1>2, <2>3 DEF LeftAfter
      <3> HIDE DEF left, d
      <3> QED BY <1>6, <2>3, <3>1, <3>2
    <2>5. FindByCode(hooks, c) = {}
      BY <2>3 DEF Conflict
    <2> HIDE DEF left, c, d, current
    <2>6. nextId + k \in Managed(left)
      BY <1>4, <1>5, <2>4 DEF Managed, IsManaged
    <2>7. ASSUME NEW j \in Managed(left), left[j].code = c PROVE j = nextId + k
      <3>1. j \in DOMAIN left
        BY DEF Managed
      <3>2. j \notin DOMAIN hooks
        <4> SUFFICES ASSUME j \in DOMAIN hooks PROVE FALSE
          OBVIOUS
        <4>1. hooks[j].code = c
          BY <1>7, <2>7
        <4> QED BY <4>1, <1>4, <2>5, FoundWhere
      <3>3. PICK l \in DOMAIN plan : j = nextId + l /\ plan[l].code = c
        BY <1>9, <2>7, <3>1, <3>2
      <3>4. l = k
        BY <1>2, <2>3, <3>3 DEF CodesApart
      <3> QED BY <3>3, <3>4
    <2>8. AsDesired(wanted, left, n, nextId + k)
      BY <1>5, <2>4, <2>6, <2>7 DEF AsDesired, c, d
    <2> QED BY <2>8 DEF left
  <1>11. CASE current # <<>>
    <2>1. PICK i \in Managed(hooks) : hooks[i].code = c /\ current = <<hooks[i]>>
      BY <1>3, <1>4, <1>8, <1>11, LookupSome
    <2>2. i \in DOMAIN hooks /\ IsManaged(hooks[i]) /\ i \in DOMAIN left /\ left[i].code = c
      BY <1>6, <1>7, <2>1 DEF Managed
    <2>3. FindByCode(hooks, c) = {i}
      BY <1>4, <2>1, <2>2, FoundWhere
    <2> HIDE DEF left, c, d
    <2>4. Comparable(left[i]) = Comparable(d) /\ IsManaged(left[i])
      <3>1. CASE Comparable(hooks[i]) # Comparable(d)
        <4>1. ChoiceOf(wanted, hooks, n) # <<>>
          BY <1>11, <2>1, <3>1 DEF ChoiceOf, Planned, d, current
        <4>2. PICK k \in DOMAIN plan : PlannedFor(wanted, hooks, plan[k], n)
          BY <1>3, <4>1, PlanIs
        <4>3. plan[k].code = c /\ plan[k].desired = <<d>> /\ plan[k].action = "update"
          BY <1>11, <4>2, PlannedForIs DEF c, d
        <4>4. Hits(hooks, plan, k, i)
          BY <2>3, <4>3 DEF Hits
        <4>5. left[i] = WithAuthorization(d, hooks[i].auth)
          BY <1>1, <1>2, <2>2, <4>3, <4>4 DEF LeftAfter, Written
        <4>6. Comparable(left[i]) = Comparable(d)
          BY <4>5, AuthorizationApart
        <4>7. left[i].owner = "ours"
          BY <1>5, <4>6, ComparableIs
        <4> QED BY <1>4, <2>2, <4>6, <4>7 DEF IsManaged
      <3>2. CASE Comparable(hooks[i]) = Comparable(d)
        <4>1. ASSUME NEW k \in 1 .. Len(plan), Hits(hooks, plan, k, i) PROVE FALSE
          <5>1. plan[k].action = "update" /\ plan[k].code = c
            BY <4>1, <2>1, FoundIs DEF Hits
          <5>2. PICK m \in DOMAIN wanted : PlannedFor(wanted, hooks, plan[k], m)
            BY <1>2, <1>3, <5>1, PlanIs
          <5>3. m = n
            BY <1>4, <5>1, <5>2, PlannedForIs
          <5>4. Comparable(current[1]) # Comparable(d)
            BY <1>11, <5>2, <5>3 DEF PlannedFor, d
          <5> QED BY <5>4, <2>1, <3>2
        <4>2. left[i] = hooks[i]
          BY <1>1, <2>2, <4>1 DEF LeftAfter
        <4> QED BY <2>2, <3>2, <4>2
      <3> QED BY <3>1, <3>2
    <2>5. ASSUME NEW j \in Managed(left), left[j].code = c PROVE j = i
      <3>1. j \in DOMAIN left
        BY DEF Managed
      <3>2. j \in DOMAIN hooks
        BY <1>9, <1>11, <2>5, <3>1
      <3>3. hooks[j].code = c
        BY <1>7, <2>5, <3>2
      <3> QED BY <1>3, <1>4, <2>1, <2>2, <3>2, <3>3 DEF CodesOnce
    <2>6. i \in Managed(left)
      BY <2>2, <2>4 DEF Managed
    <2>7. AsDesired(wanted, left, n, i)
      BY <2>2, <2>4, <2>5, <2>6 DEF AsDesired, c, d
    <2> QED BY <2>7 DEF left
  <1> QED BY <1>10, <1>11

\* So the next analysis changes nothing.
LEMMA NothingAgain ==
  ASSUME StoreOnce, OnePrefix(hooks), NEW wanted, IsWanted(wanted),
         NEW plan, plan = BuildOperations(wanted, hooks), ~Conflict(plan),
         NEW again, again = BuildOperations(wanted, Applied(hooks, plan)),
         NEW k \in DOMAIN again
  PROVE  again[k].action = "delete"
  <1> DEFINE left == Applied(hooks, plan)
  <1>1. Applicable(hooks, plan) /\ LeftAfter(hooks, plan, left, Len(plan))
    BY PlanApplicable, AppliedIs
  <1>2. Len(plan) \in Nat /\ nextId \in Nat /\ DOMAIN hooks \subseteq 1 .. nextId - 1
    BY <1>1 DEF Applicable
  <1>3. DOMAIN left = DOMAIN hooks \cup Created(plan, Len(plan))
    BY <1>1 DEF LeftAfter
  <1>4. \A n \in DOMAIN wanted : \E i : AsDesired(wanted, left, n, i)
    BY EachAsDesired
  <1> HIDE DEF left
  <1>5. nextId + Len(plan) \in Nat /\ DOMAIN left \subseteq 1 .. nextId + Len(plan)
    BY <1>2, <1>3 DEF Created
  <1>6. ASSUME NEW n \in DOMAIN wanted PROVE ChoiceOf(wanted, left, n) = <<>>
    <2> DEFINE want == wanted[n]
               current == CurrentOf(wanted, hooks, n)
    <2>1. PICK i : AsDesired(wanted, left, n, i)
      BY <1>4
    <2>2. /\ i \in Managed(left) /\ left[i].code = CodeOf(want)
          /\ Comparable(left[i]) = Comparable(DesiredHook(want, current, Defaults(hooks)))
          /\ \A j \in Managed(left) : left[j].code = CodeOf(want) => j = i
      BY <2>1 DEF AsDesired, DesiredOf
    <2>3. i \in Nat
      BY <1>5, <2>2 DEF Managed
    <2>4. CurrentOf(wanted, left, n) = <<left[i]>>
      BY <2>2, <2>3, LookupOne DEF CurrentOf
    <2>5. /\ want.class # None /\ Len(want.fields) \in Nat
          /\ DOMAIN want.fields = 1 .. Len(want.fields) /\ CodeOf(want) # Outside
      BY DEF IsWanted
    <2>6. current # <<>> => \A p, q \in PrefixesIn(current[1].body) : p = q
      <3> SUFFICES ASSUME current # <<>> PROVE \A p, q \in PrefixesIn(current[1].body) : p = q
        OBVIOUS
      <3>1. nextId - 1 \in Nat
        BY DEF StoreOnce
      <3>2. PICK j \in Managed(hooks) : current = <<hooks[j]>>
        BY <2>5, <3>1, LookupSome DEF StoreOnce, CurrentOf
      <3>3. j \in DOMAIN hooks /\ current[1] = hooks[j]
        BY <3>2 DEF Managed
      <3> QED BY <3>3 DEF OnePrefix
    <2> HIDE DEF want, current
    <2>7. Comparable(DesiredHook(want, <<left[i]>>, Defaults(left))) = Comparable(left[i])
      BY <2>2, <2>5, <2>6, DesiredAgain, DefaultUrlGiven
    <2>8. DesiredOf(wanted, left, n) = DesiredHook(want, <<left[i]>>, Defaults(left))
      BY <2>4 DEF DesiredOf, want
    <2>9. <<left[i]>> # <<>> /\ <<left[i]>>[1] = left[i]
      OBVIOUS
    <2> QED BY <2>4, <2>7, <2>8, <2>9 DEF ChoiceOf, Planned
  <1> QED BY <1>5, <1>6, PlanIs DEF left

-----------------------------------------------------------------------------
(* The plan that a page shows unedited is the plan of its webhooks. *)

\* While a page has the version of the rules its first plan was made from, that
\* plan begins its history.
PageKept(page) ==
    /\ DOMAIN page = {"loaded", "items", "history", "index", "version"}
    /\ page.version # 0 =>
          /\ page.version \in AllVersions
          /\ Len(page.history) \in Nat
          /\ page.history = [k \in 1 .. Len(page.history) |-> page.history[k]]
          /\ page.index \in 1 .. Len(page.history)
          /\ page.history[1] = BuildOperations(Wanted(page.version), page.items)
PagesKept == DOMAIN browser = Browsers /\ \A b \in Browsers : PageKept(browser[b])

\* A webhook that a request has read has the code it had then, if it is there.
SeenKept(r) ==
    r.phase = "running" =>
        /\ DOMAIN r.seen \subseteq 1 .. nextId - 1
        /\ \A i \in DOMAIN r.seen \cap DOMAIN hooks : r.seen[i].code = hooks[i].code
CodesInv ==
    /\ CodesOnce(hooks)
    /\ \A b \in Browsers : SeenKept(request[b])

PlanInv == IInv /\ CodesInv /\ version \in AllVersions /\ PagesKept

\* Initially nothing is loaded, and no code is there twice.
LEMMA InitPlan == Init => PlanInv
  <1> SUFFICES ASSUME Init PROVE PlanInv
    OBVIOUS
  <1>1. CodesOnce(hooks)
    BY HooksAssumption DEF Init
  <1>2. \A b \in Browsers : request[b].phase = "idle"
    BY RequestFields DEF Init, Idle
  <1>3. CodesInv
    BY <1>1, <1>2 DEF CodesInv, SeenKept
  <1>4. DOMAIN browser = Browsers /\ \A b \in Browsers : browser[b] = Page
    BY DEF Init
  <1>5. PageKept(Page)
    BY DEF PageKept, Page
  <1> QED BY <1>3, <1>4, <1>5, InitInv DEF PlanInv, PagesKept, Init, AllVersions

\* One page changes, into one that keeps its first plan.
LEMMA OnePage ==
  ASSUME PagesKept, NEW b \in Browsers, NEW page, PageKept(page),
         browser' = [browser EXCEPT ![b] = page]
  PROVE  PagesKept'
  <1>1. DOMAIN browser' = Browsers /\ \A c \in Browsers : browser'[c] = IF c = b THEN page ELSE browser[c]
    BY DEF PagesKept
  <1> QED BY <1>1 DEF PagesKept

\* Loading forgets the plan, analysis makes the plan of what is loaded.
LEMMA PagesAnew ==
  ASSUME version \in AllVersions, NEW page, PageKept(page)
  PROVE  PageKept(Loaded(page)) /\ PageKept(Analyzed(page))
  <1>1. /\ DOMAIN Loaded(page) = DOMAIN page
        /\ Loaded(page).version = 0
    BY DEF Loaded, PageKept
  <1> DEFINE items == IF page.loaded THEN page.items ELSE hooks
             plan == BuildOperations(Wanted(version), items)
  <1>2. /\ DOMAIN Analyzed(page) = DOMAIN page
        /\ Analyzed(page).version = version /\ Analyzed(page).history = <<plan>>
        /\ Analyzed(page).index = 1 /\ Analyzed(page).items = items
    <2> HIDE DEF plan
    <2> QED BY DEF Analyzed, PageKept, plan
  <1>3. /\ Len(<<plan>>) = 1 /\ <<plan>>[1] = plan
        /\ <<plan>> = [k \in 1 .. 1 |-> <<plan>>[k]]
    <2> HIDE DEF plan
    <2> QED OBVIOUS
  <1> HIDE DEF items
  <1>4. PageKept(Analyzed(page))
    <2> HIDE DEF Analyzed
    <2>1. DOMAIN Analyzed(page) = {"loaded", "items", "history", "index", "version"}
      BY <1>2 DEF PageKept
    <2> QED BY <1>2, <1>3, <2>1 DEF PageKept
  <1>5. PageKept(Loaded(page))
    <2> HIDE DEF Loaded
    <2> QED BY <1>1 DEF PageKept
  <1> QED BY <1>4, <1>5

\* Editing comes after the plan in the history, undo stops at it.
LEMMA PushKeeps ==
  ASSUME PagesKept, NEW b \in Browsers, NEW operations, Push(b, operations)
  PROVE  PagesKept'
  <1> DEFINE page == browser[b]
             history == Append(SubSeq(page.history, 1, page.index), operations)
             new == [page EXCEPT !.history = history, !.index = page.index + 1]
  <1>1. PageKept(page)
    BY DEF PagesKept
  <1>2. browser' = [browser EXCEPT ![b] = new]
    BY DEF Push
  <1>3. /\ DOMAIN new = DOMAIN page /\ new.version = page.version /\ new.items = page.items
        /\ new.history = history /\ new.index = page.index + 1
    <2> HIDE DEF page, history
    <2> QED BY <1>1 DEF PageKept
  <1>4. ASSUME page.version # 0
        PROVE  /\ Len(history) \in Nat /\ history = [k \in 1 .. Len(history) |-> history[k]]
               /\ page.index + 1 \in 1 .. Len(history) /\ history[1] = page.history[1]
    <2> DEFINE h == page.history
               T == {h[k] : k \in 1 .. Len(h)} \cup {operations}
    <2>1. Len(h) \in Nat /\ h = [k \in 1 .. Len(h) |-> h[k]] /\ page.index \in 1 .. Len(h)
      BY <1>1, <1>4 DEF PageKept
    <2>2. h \in Seq(T)
      <3> DEFINE n == Len(h)
      <3>1. n \in Nat /\ h \in [1 .. n -> T]
        BY <2>1
      <3> QED BY <3>1
    <2> HIDE DEF T, h, page
    <2>3. SubSeq(h, 1, page.index) \in Seq(T) /\ Len(SubSeq(h, 1, page.index)) = page.index
          /\ SubSeq(h, 1, page.index)[1] = h[1]
      BY <2>1, <2>2
    <2>4. operations \in T
      BY DEF T
    <2>5. history \in Seq(T) /\ Len(history) = page.index + 1 /\ history[1] = h[1]
      BY <2>1, <2>3, <2>4 DEF h
    <2> HIDE DEF history
    <2> QED BY <2>1, <2>5 DEF h
  <1> HIDE DEF page, history, new
  <1>5. PageKept(new)
    BY <1>1, <1>3, <1>4 DEF PageKept
  <1> QED BY <1>2, <1>5, OnePage

\* Undo and redo leave the first plan where it is.
LEMMA UndoKeeps ==
  ASSUME PagesKept, NEW b \in Browsers, Undo(b) \/ Redo(b)
  PROVE  PagesKept'
  <1> DEFINE page == browser[b]
  <1>1. PageKept(page)
    BY DEF PagesKept
  <1>2. PICK n : /\ browser' = [browser EXCEPT ![b] = [page EXCEPT !.index = n]]
                 /\ \/ n = page.index - 1 /\ page.index > 1
                    \/ n = page.index + 1 /\ page.index < Len(page.history)
    BY DEF Undo, Redo
  <1> DEFINE new == [page EXCEPT !.index = n]
  <1>3. /\ DOMAIN new = DOMAIN page /\ new.version = page.version /\ new.items = page.items
        /\ new.history = page.history /\ new.index = n
    <2> HIDE DEF page
    <2> QED BY <1>1 DEF PageKept
  <1>4. browser' = [browser EXCEPT ![b] = new]
    BY <1>2
  <1> HIDE DEF page, new
  <1>5. PageKept(new)
    BY <1>1, <1>2, <1>3 DEF PageKept
  <1> QED BY <1>4, <1>5, OnePage

\* Every step keeps the pages so.
LEMMA PagesStep == ASSUME PagesKept, version \in AllVersions, [Next]_vars PROVE PagesKept'
  <1>1. ASSUME UNCHANGED browser PROVE PagesKept'
    BY <1>1 DEF PagesKept
  <1>2. ASSUME NEW b \in Browsers, browser' = [browser EXCEPT ![b] = Loaded(@)] PROVE PagesKept'
    <2>1. PageKept(Loaded(browser[b]))
      BY PagesAnew DEF PagesKept
    <2>2. browser' = [browser EXCEPT ![b] = Loaded(browser[b])]
      BY <1>2
    <2> QED BY <2>1, <2>2, OnePage
  <1>3. ASSUME NEW b \in Browsers, browser' = [browser EXCEPT ![b] = Analyzed(@)] PROVE PagesKept'
    <2>1. PageKept(Analyzed(browser[b]))
      BY PagesAnew DEF PagesKept
    <2>2. browser' = [browser EXCEPT ![b] = Analyzed(browser[b])]
      BY <1>3
    <2> QED BY <2>1, <2>2, OnePage
  <1>4. ASSUME NEW b \in Browsers, Load(b) \/ Reload(b) PROVE PagesKept'
    BY <1>2, <1>4 DEF Load, Reload
  <1>5. ASSUME NEW b \in Browsers, Analyze(b) \/ Reanalyze(b) PROVE PagesKept'
    BY <1>3, <1>5 DEF Analyze, Reanalyze
  <1>6. ASSUME NEW b \in Browsers, Select(b) \/ SelectAll(b) \/ EditOperation(b) \/ EditCurrent(b)
        PROVE  PagesKept'
    <2>1. \E operations : Push(b, operations)
      BY <1>6, Zenon DEF Select, SelectAll, EditOperation, EditCurrent
    <2> QED BY <2>1, PushKeeps
  <1>7. ASSUME NEW b \in Browsers, Undo(b) \/ Redo(b) PROVE PagesKept'
    BY <1>7, UndoKeeps
  <1>8. ASSUME NEW b \in Browsers,
               \/ ApplySelected(b) \/ DeleteSelected(b) \/ SyncAuthorization(b) \/ ReadHooks(b)
               \/ Skip(b) \/ Write(b) \/ WriteAuthorization(b) \/ Fail(b) \/ Finish(b)
        PROVE  PagesKept'
    BY <1>1, <1>8 DEF ApplySelected, DeleteSelected, SyncAuthorization, Send, ReadHooks, Skip,
                      Write, WriteAuthorization, Fail, Finish
  <1>9. CASE ChangeRules \/ Others \/ UNCHANGED vars
    BY <1>1, <1>9 DEF ChangeRules, Others, OthersAdd, OthersRemove, OthersRotate, OthersTake,
                      OthersChange, vars
  <1> QED BY <1>4, <1>5, <1>6, <1>7, <1>8, <1>9 DEF Next

\* A step keeps the codes: what has an id now has the code it had.
IdsKept ==
    /\ nextId' \in Nat /\ nextId <= nextId'
    /\ \A i \in DOMAIN hooks' : i < nextId => i \in DOMAIN hooks /\ hooks'[i].code = hooks[i].code

\* A write takes no code that is taken, and moves none.
LEMMA WriteCodes ==
  ASSUME IInv, CodesInv, NEW b \in Browsers, Write(b)
  PROVE  IdsKept /\ CodesOnce(hooks')
  <1> DEFINE op == request[b].todo[1]
             seen == request[b].seen
  <1>1. /\ hooks' = Effect(op, seen, hooks, nextId) /\ Allowed(op, seen) /\ Accepts(op, seen, hooks)
        /\ nextId' = IF op.action = "create" THEN nextId + 1 ELSE nextId
        /\ request[b].phase = "running"
    BY DEF Write, More
  <1>2. nextId \in Nat \ {0} /\ DOMAIN hooks \subseteq 1 .. nextId - 1
    BY DEF IInv, StoreInv
  <1>3. /\ CodesOnce(hooks) /\ DOMAIN seen \subseteq 1 .. nextId - 1
        /\ \A i \in DOMAIN seen \cap DOMAIN hooks : seen[i].code = hooks[i].code
    BY <1>1 DEF CodesInv, SeenKept
  <1> HIDE DEF op, seen
  <1>4. CASE op.action = "create"
    <2>1. /\ hooks' = [i \in DOMAIN hooks \cup {nextId} |-> IF i = nextId THEN op.desired[1] ELSE hooks[i]]
          /\ \A i \in DOMAIN hooks : hooks[i].code # op.code
          /\ op.desired[1].code = op.code
      BY <1>1, <1>4 DEF Effect, Accepts, Allowed
    <2>2. nextId \notin DOMAIN hooks
      BY <1>2
    <2>3. \A i \in DOMAIN hooks : i \in DOMAIN hooks' /\ hooks'[i] = hooks[i]
      BY <2>1, <2>2
    <2>4. hooks'[nextId].code = op.code /\ DOMAIN hooks' = DOMAIN hooks \cup {nextId}
      BY <2>1
    <2>5. CodesOnce(hooks')
      BY <2>1, <2>3, <2>4, <1>3 DEF CodesOnce
    <2>6. IdsKept
      BY <1>1, <1>2, <1>4, <2>3, <2>4 DEF IdsKept
    <2> QED BY <2>5, <2>6
  <1>5. CASE op.action = "delete"
    <2>1. hooks' = [i \in DOMAIN hooks \ Targets(op, seen) |-> hooks[i]]
      BY <1>1, <1>5 DEF Effect
    <2>2. \A i \in DOMAIN hooks' : i \in DOMAIN hooks /\ hooks'[i] = hooks[i]
      BY <2>1
    <2> QED BY <1>1, <1>2, <1>3, <1>5, <2>2 DEF CodesOnce, IdsKept
  <1>6. CASE op.action = "update"
    <2>1. /\ hooks' = [i \in DOMAIN hooks |-> IF i \in FindByCode(seen, op.code) THEN Written(op, seen[i])
                                             ELSE hooks[i]]
          /\ op.desired[1].code = op.code
      BY <1>1, <1>6 DEF Effect, Targets, Allowed
    <2>2. ASSUME NEW i \in DOMAIN hooks PROVE hooks'[i].code = hooks[i].code
      <3>1. CASE i \in FindByCode(seen, op.code)
        <4>1. i \in DOMAIN seen /\ seen[i].code = op.code
          BY <3>1, FoundIs
        <4>2. hooks'[i] = WithAuthorization(op.desired[1], seen[i].auth)
          BY <2>1, <3>1 DEF Written
        <4> QED BY <4>1, <4>2, <1>3, <2>1, AuthorizationApart
      <3>2. CASE i \notin FindByCode(seen, op.code)
        BY <2>1, <3>2
      <3> QED BY <3>1, <3>2
    <2>3. DOMAIN hooks' = DOMAIN hooks
      BY <2>1
    <2> QED BY <1>1, <1>2, <1>3, <1>6, <2>2, <2>3 DEF CodesOnce, IdsKept
  <1> QED BY <1>1, <1>4, <1>5, <1>6 DEF Allowed

\* Nor does a sync, which changes nothing but the Authorization.
LEMMA SyncCodes ==
  ASSUME IInv, CodesInv, NEW b \in Browsers, WriteAuthorization(b)
  PROVE  IdsKept /\ CodesOnce(hooks')
  <1> DEFINE id == request[b].todo[1]
             seen == request[b].seen
  <1>1. /\ hooks' = [i \in DOMAIN hooks |-> IF i = id THEN WithAuthorization(seen[id], Configured) ELSE hooks[i]]
        /\ nextId' = nextId /\ request[b].phase = "running" /\ request[b].kind = "sync"
        /\ request[b].todo # <<>>
    BY DEF WriteAuthorization, More
  <1>2. nextId \in Nat \ {0} /\ DOMAIN hooks \subseteq 1 .. nextId - 1
    BY DEF IInv, StoreInv
  <1>3. CodesOnce(hooks) /\ \A i \in DOMAIN seen \cap DOMAIN hooks : seen[i].code = hooks[i].code
    BY <1>1 DEF CodesInv, SeenKept
  <1>4. id \in DOMAIN seen
    <2>1. request[b].todo \in Seq(OwnIn(seen))
      BY <1>1 DEF IInv, RequestInv, WellPrepared
    <2>2. id \in OwnIn(seen)
      BY <1>1, <2>1, TailType
    <2> QED BY <2>2 DEF OwnIn
  <1> HIDE DEF id, seen
  <1>5. \A i \in DOMAIN hooks : hooks'[i].code = hooks[i].code
    BY <1>1, <1>3, <1>4, AuthorizationApart
  <1>6. DOMAIN hooks' = DOMAIN hooks
    BY <1>1
  <1> QED BY <1>1, <1>2, <1>3, <1>5, <1>6 DEF CodesOnce, IdsKept

\* Nor does CMDBuild let others do so.
LEMMA OthersCodes ==
  ASSUME IInv, CodesInv, Others
  PROVE  IdsKept /\ CodesOnce(hooks')
  <1>1. nextId \in Nat \ {0} /\ DOMAIN hooks \subseteq 1 .. nextId - 1 /\ CodesOnce(hooks)
    BY DEF IInv, StoreInv, CodesInv
  <1>2. CASE OthersAdd
    <2>1. PICK h : /\ \A i \in DOMAIN hooks : hooks[i].code # h.code
                   /\ hooks' = [i \in DOMAIN hooks \cup {nextId} |-> IF i = nextId THEN h ELSE hooks[i]]
                   /\ nextId' = nextId + 1
      BY <1>2 DEF OthersAdd, OthersChange
    <2>2. nextId \notin DOMAIN hooks
      BY <1>1
    <2>3. \A i \in DOMAIN hooks : hooks'[i] = hooks[i]
      BY <2>1, <2>2
    <2>4. hooks'[nextId] = h /\ DOMAIN hooks' = DOMAIN hooks \cup {nextId}
      BY <2>1
    <2> QED BY <1>1, <2>1, <2>3, <2>4 DEF CodesOnce, IdsKept
  <1>3. CASE OthersRemove
    <2>1. PICK id : hooks' = [i \in DOMAIN hooks \ {id} |-> hooks[i]] /\ nextId' = nextId
      BY <1>3 DEF OthersRemove, OthersChange
    <2>2. \A i \in DOMAIN hooks' : i \in DOMAIN hooks /\ hooks'[i] = hooks[i]
      BY <2>1
    <2> QED BY <1>1, <2>1, <2>2 DEF CodesOnce, IdsKept
  <1>4. CASE OthersRotate \/ OthersTake
    <2>1. PICK id \in DOMAIN hooks :
              \E h : hooks' = [hooks EXCEPT ![id] = h] /\ h.code = hooks[id].code /\ nextId' = nextId
      <3>1. \A hook : Taken(hook).code = hook.code
        BY DEF Taken
      <3> QED BY <1>4, <3>1, AuthorizationApart DEF OthersRotate, OthersTake, OthersChange
    <2>2. DOMAIN hooks' = DOMAIN hooks /\ \A i \in DOMAIN hooks : hooks'[i].code = hooks[i].code
      BY <2>1
    <2> QED BY <1>1, <2>1, <2>2 DEF CodesOnce, IdsKept
  <1> QED BY <1>2, <1>3, <1>4 DEF Others

\* So what the requests have read keeps its code, too.
LEMMA RequestCodes ==
  ASSUME IInv, CodesInv, IdsKept, NEW b \in Browsers,
         \/ request'[b].phase # "running"
         \/ /\ request[b].phase = "running" /\ request'[b].seen = request[b].seen
         \/ /\ request'[b].seen = hooks /\ UNCHANGED <<hooks, nextId>>
  PROVE  SeenKept(request[b])'
  <1>1. nextId \in Nat \ {0} /\ DOMAIN hooks \subseteq 1 .. nextId - 1
    BY DEF IInv, StoreInv
  <1>2. CASE request[b].phase = "running" /\ request'[b].seen = request[b].seen
    <2> DEFINE seen == request[b].seen
    <2>1. DOMAIN seen \subseteq 1 .. nextId - 1 /\ \A i \in DOMAIN seen \cap DOMAIN hooks : seen[i].code = hooks[i].code
      BY <1>2 DEF CodesInv, SeenKept
    <2> HIDE DEF seen
    <2>2. DOMAIN seen \subseteq 1 .. nextId' - 1
      BY <1>1, <2>1 DEF IdsKept
    <2>3. \A i \in DOMAIN seen \cap DOMAIN hooks' : seen[i].code = hooks'[i].code
      BY <1>1, <2>1 DEF IdsKept
    <2> QED BY <1>2, <2>2, <2>3 DEF SeenKept, seen
  <1>3. CASE request'[b].seen = hooks /\ UNCHANGED <<hooks, nextId>>
    BY <1>1, <1>3 DEF SeenKept
  <1>4. CASE request'[b].phase # "running"
    BY <1>4 DEF SeenKept
  <1> QED BY <1>2, <1>3, <1>4

\* What a step makes of the requests.
RequestsStep ==
    \A b \in Browsers :
        \/ request'[b].phase # "running"
        \/ /\ request[b].phase = "running" /\ request'[b].seen = request[b].seen
        \/ /\ request'[b].seen = hooks /\ UNCHANGED <<hooks, nextId>>

\* A step keeps what a request has read, ends it, or reads what there is.
LEMMA RequestsStepIs ==
  ASSUME IInv, [Next]_vars
  PROVE  RequestsStep
  <1>0. DOMAIN request = Browsers
    BY DEF IInv
  <1>1. ASSUME UNCHANGED request PROVE RequestsStep
    BY <1>1 DEF RequestsStep
  <1>2. ASSUME NEW b \in Browsers, NEW r, request' = [request EXCEPT ![b] = r],
               \/ r.phase # "running"
               \/ request[b].phase = "running" /\ r.seen = request[b].seen
               \/ r.seen = hooks /\ UNCHANGED <<hooks, nextId>>
        PROVE  RequestsStep
    <2>1. \A c \in Browsers : request'[c] = IF c = b THEN r ELSE request[c]
      BY <1>0, <1>2
    <2> QED BY <1>2, <2>1 DEF RequestsStep
  <1>3. ASSUME NEW b \in Browsers, PageStep(b) PROVE RequestsStep
    BY <1>1, <1>3, PageSteps
  <1>4. ASSUME NEW b \in Browsers, ApplySelected(b) \/ DeleteSelected(b) \/ SyncAuthorization(b)
        PROVE  RequestsStep
    <2>1. PICK k, t : Send(b, k, t)
      BY <1>4 DEF ApplySelected, DeleteSelected, SyncAuthorization
    <2> DEFINE r == Request("sent", k, <<>>, t)
    <2>2. request' = [request EXCEPT ![b] = r] /\ r.phase # "running"
      BY <2>1, RequestFields DEF Send
    <2> HIDE DEF r
    <2> QED BY <1>2, <2>2
  <1>5. ASSUME NEW b \in Browsers, ReadHooks(b) PROVE RequestsStep
    <2>1. PICK k, t : request' = [request EXCEPT ![b] = Request("running", k, hooks, t)]
      BY <1>5 DEF ReadHooks
    <2> DEFINE r == Request("running", k, hooks, t)
    <2>2. request' = [request EXCEPT ![b] = r] /\ r.seen = hooks
      BY <2>1, RequestFields
    <2>3. UNCHANGED <<hooks, nextId>>
      BY <1>5 DEF ReadHooks
    <2> HIDE DEF r
    <2> QED BY <1>2, <2>2, <2>3
  <1>6. ASSUME NEW b \in Browsers, Skip(b) \/ Write(b) \/ WriteAuthorization(b) PROVE RequestsStep
    <2>1. More(b) /\ (Drop(b) \/ Abort(b))
      BY <1>6 DEF Skip, Write, WriteAuthorization
    <2>2. CASE Drop(b)
      <3> DEFINE r == Request("running", request[b].kind, request[b].seen, Tail(request[b].todo))
      <3>1. request' = [request EXCEPT ![b] = r] /\ r.seen = request[b].seen
        BY <2>2, RequestFields DEF Drop
      <3>2. request[b].phase = "running"
        BY <2>1 DEF More
      <3> HIDE DEF r
      <3> QED BY <1>2, <3>1, <3>2
    <2>3. CASE Abort(b)
      <3>1. request' = [request EXCEPT ![b] = Idle] /\ Idle.phase # "running"
        BY <2>3, RequestFields DEF Abort, Idle
      <3> QED BY <1>2, <3>1
    <2> QED BY <2>1, <2>2, <2>3
  <1>7. ASSUME NEW b \in Browsers, Fail(b) \/ Finish(b) \/ Reload(b) \/ Reanalyze(b) PROVE RequestsStep
    <2>1. PICK r : request' = [request EXCEPT ![b] = r] /\ r.phase # "running"
      BY <1>7, RequestFields DEF Fail, Finish, Reload, Reanalyze, Abort, Idle
    <2> QED BY <1>2, <2>1
  <1>8. CASE ChangeRules \/ Others \/ UNCHANGED vars
    BY <1>1, <1>8 DEF ChangeRules, Others, OthersAdd, OthersRemove, OthersRotate, OthersTake,
                      OthersChange, vars
  <1> QED BY <1>3, <1>4, <1>5, <1>6, <1>7, <1>8 DEF Next, PageStep

\* Every step keeps the codes.
LEMMA CodesStep == ASSUME IInv, CodesInv, [Next]_vars PROVE CodesInv'
  <1>1. nextId \in Nat \ {0} /\ DOMAIN hooks \subseteq 1 .. nextId - 1 /\ CodesOnce(hooks)
    BY DEF IInv, StoreInv, CodesInv
  <1>2. ASSUME UNCHANGED <<hooks, nextId>> PROVE IdsKept /\ CodesOnce(hooks')
    BY <1>1, <1>2 DEF IdsKept
  <1>3. IdsKept /\ CodesOnce(hooks')
    <2>1. ASSUME NEW b \in Browsers, PageStep(b) PROVE UNCHANGED <<hooks, nextId>>
      BY <2>1, PageSteps
    <2>2. ASSUME NEW b \in Browsers,
                 \/ ApplySelected(b) \/ DeleteSelected(b) \/ SyncAuthorization(b) \/ ReadHooks(b)
                 \/ Skip(b) \/ Fail(b) \/ Finish(b) \/ Reload(b) \/ Reanalyze(b)
          PROVE  UNCHANGED <<hooks, nextId>>
      BY <2>2 DEF ApplySelected, DeleteSelected, SyncAuthorization, Send, ReadHooks, Skip, Fail,
                  Finish, Reload, Reanalyze
    <2>3. CASE ChangeRules \/ UNCHANGED vars
      BY <1>2, <2>3 DEF ChangeRules, vars
    <2> QED BY <1>2, <2>1, <2>2, <2>3, WriteCodes, SyncCodes, OthersCodes DEF Next, PageStep
  <1>4. \A b \in Browsers : SeenKept(request[b])'
    BY <1>3, RequestsStepIs, RequestCodes DEF RequestsStep
  <1> QED BY <1>3, <1>4 DEF CodesInv

\* The current version of the rules is one there is.
LEMMA VersionStep == ASSUME version \in AllVersions, [Next]_vars PROVE version' \in AllVersions
  <1>1. CASE ChangeRules
    BY <1>1 DEF ChangeRules, AllVersions
  <1>2. ASSUME NEW b \in Browsers,
               \/ Load(b) \/ Analyze(b) \/ Undo(b) \/ Redo(b) \/ ReadHooks(b) \/ Skip(b) \/ Write(b)
               \/ WriteAuthorization(b) \/ Fail(b) \/ Finish(b) \/ Reload(b) \/ Reanalyze(b)
        PROVE  version' = version
    BY <1>2 DEF Load, Analyze, Undo, Redo, ReadHooks, Skip, Write, WriteAuthorization, Fail,
                Finish, Reload, Reanalyze
  <1>3. ASSUME NEW b \in Browsers, Select(b) \/ SelectAll(b) \/ EditOperation(b) \/ EditCurrent(b)
        PROVE  version' = version
    <2>1. \A operations : Push(b, operations) => version' = version
      BY DEF Push
    <2> QED BY <1>3, <2>1, Zenon DEF Select, SelectAll, EditOperation, EditCurrent
  <1>4. ASSUME NEW b \in Browsers, ApplySelected(b) \/ DeleteSelected(b) \/ SyncAuthorization(b)
        PROVE  version' = version
    BY <1>4 DEF ApplySelected, DeleteSelected, SyncAuthorization, Send
  <1>5. CASE Others \/ UNCHANGED vars
    BY <1>5 DEF Others, OthersAdd, OthersRemove, OthersRotate, OthersTake, OthersChange, vars
  <1> QED BY <1>1, <1>2, <1>3, <1>4, <1>5 DEF Next

\* Every step keeps the invariant.
LEMMA StepPlan == PlanInv /\ [Next]_vars => PlanInv'
  BY StepInv, CodesStep, VersionStep, PagesStep DEF PlanInv

\* The invariant says that an unedited plan is the plan of its webhooks, and
\* that settles the matter.
LEMMA PlanInvSettles == PlanInv => PlanSettles
  <1> SUFFICES ASSUME PlanInv, NEW b \in Browsers, Fresh(b), OnePrefix(hooks)
               PROVE  LET plan == browser[b].history[1]
                          changes == {k \in DOMAIN plan : plan[k].action # "delete"}
                          conflict == \E k \in changes : /\ plan[k].action = "create"
                                                        /\ FindByCode(hooks, plan[k].code) # {}
                          again == BuildOperations(Wanted(version), Applied(hooks, plan))
                      IN  conflict \/ /\ \A k \in changes : Allowed(plan[k], hooks)
                                      /\ \A k \in DOMAIN again : again[k].action = "delete"
    BY DEF PlanSettles
  <1> DEFINE plan == browser[b].history[1]
             again == BuildOperations(Wanted(version), Applied(hooks, plan))
  <1>1. StoreOnce
    BY DEF PlanInv, IInv, StoreInv, CodesInv, StoreOnce
  <1>2. version \in AllVersions /\ IsWanted(Wanted(version)) /\ version # 0
    BY WantedAssumption DEF PlanInv
  <1>3. plan = BuildOperations(Wanted(version), hooks)
    BY <1>2 DEF PlanInv, PagesKept, PageKept, Fresh
  <1> HIDE DEF plan
  <1>4. again = BuildOperations(Wanted(version), Applied(hooks, plan))
    OBVIOUS
  <1> HIDE DEF again
  <1>5. ASSUME ~Conflict(plan)
        PROVE  /\ \A k \in DOMAIN plan : plan[k].action # "delete" => Allowed(plan[k], hooks)
               /\ \A k \in DOMAIN again : again[k].action = "delete"
    BY <1>1, <1>2, <1>3, <1>4, <1>5, PlanAllowed, NothingAgain
  <1> QED BY <1>5 DEF Conflict, plan, again

\* Whatever the rules ask for and whoever worked in CMDBuild before: a plan made
\* of the webhooks as they are and applied without interference is not refused
\* and leaves nothing to create or update (buildCmdbuildWebhookOperations,
\* applyCmdbuildWebhookOperations).  This is so when no webhook's body mixes two
\* placeholder prefixes, and no other service holds a code the plan creates.
THEOREM PlansSettle == Spec => []PlanSettles
  BY InitPlan, StepPlan, PlanInvSettles, PTL DEF Spec

=============================================================================
