# A verification project for cmdb2monitoring

cmdb2monitoring keeps Zabbix hosts in step with the cards of CMDBuild. This
directory holds TLA+ models of the parts of it that are hard to test: the Kafka
consumer loop and its two cursors, the files services replace on disk, the
requests to Zabbix with their retries and fallbacks, the conversion of a card
into hosts, the way host ids come back to CMDBuild, the circuit breaker, and the
monitoring UI with its BFF: rules editor, rules publication, webhook setup,
catalogues, bulk operations, audit and dry run, queue monitor, accounts, logins by
identity providers and settings. TLC checks them on small instances; TLAPS proves
many of the results for every instance.

Source paths below are relative to `src/src/` (code) and `src/` (documents).
"app.js" is `monitoring-ui-api/public/app.js`, "server.mjs" is
`monitoring-ui-api/server.mjs`.

## 1. The system

```
 CMDBuild --webhook--> cmdbwebhooks2kafka --> [cmdb events]
    ^  ^                                           |
    |  |  rules file --> GitConversionRulesProvider --> cmdbkafka2zabbix --> [requests]
    |  |      ^                                    ^                     |
    |  |      | publish, reload                    | host ids            v
    |  +-- monitoring-ui-api (BFF, browser)     CMDBuild          zabbixrequests2api --> Zabbix
    |         | webhooks, catalogue,               ^                     |        \
    |         | audit model, bulk turns            |                     v         [responses]
    +---------+                         zabbixbindings2cmdbuild <-- [binding events]
```

Each arrow into or out of brackets is a Kafka topic. The three services that
consume a topic run one active replica each, under `restart: unless-stopped`
(`deploy/compose.production.yml`). The BFF is one Node process: its requests
interleave at every `await`, and nothing but the publication of rules is
serialised.

| component | state it keeps | operations | what is hard | modules |
|---|---|---|---|---|
| Kafka consumer loop (`KafkaConversionWorker`, `KafkaZabbixRequestWorker`, `KafkaBindingWorker`) | committed offsets, processing-state file, consumer position, in-flight task | start, assign, consume, process, record, commit, back off, stop, drain, close | crash between output, state and commit; two cursors that disagree; rebalance; shutdown during a message | `ConsumerWorker` |
| Queue monitor | none: reads offsets and state files | poll | reads taken at different moments; a file that names one partition | `QueueMonitor` over `ConsumerWorker` |
| State file, rules file (`SafeStateFileStore`, `active-rules-publication.mjs`) | a document and temporary files | read, write | crash in the middle, concurrent writers and readers, failed steps | `AtomicFile` implements `FileCell` |
| Zabbix request processing (`KafkaZabbixRequestWorker`, `ZabbixClient`, publishers) | the request, attempts, what is published | validate, look up, merge, fall back, write, answer, dead-letter, bind | lost answers, nested retries, stale look-ups, protected hosts, upserts | `ZabbixRequests` |
| `host.update` merge | none: a function of payload and host | build the update | repeated updates, administrators' edits, interface identity | `HostUpdateMerge` |
| Conversion (`CmdbToZabbixConverter`) | none: a function of event and rules | match, select, address, validate, fan out to profiles | two implementations (C#, JavaScript) of one rules language | `Conversion`, `ConditionExpression` |
| Quick audit | none: reads CMDBuild and Zabbix | scope, expect, compare | must agree with the converter | `QuickAudit`; `HostAudit` composes it with merge and conversion |
| Dry run of the rules page | none: reads the rules and the cached catalogue | normalise a payload, route, preview | a third reading of the rules | `QuickAudit` (its last section); `HostAudit` |
| HTTP resilience (`HttpClientResilienceHandler`) | failure counter, open-until time | send, retry, open, fail fast, close | calls that overlap the opening and the closing | `HttpResilience` |
| Rules publication and rules provider (`server.mjs`, `GitConversionRulesProvider`) | rules file, operation queue, cache, lock | open, publish, retry, load, reload, status | competing editors, other programs, stale cache, late answers, restarts | `RulesPublication` |
| Rules editor | drafts, undo history, revision read | add, modify, delete rules; create, save, remove profiles; undo, redo; save, publish, reload | drafts that outlive the file they were made from; renames that leave references; what an administrator is told | `MappingRules`, `DraftChecks`, `RulesEditor` |
| Webhook setup | loaded webhooks, plans with undo, requests at the BFF | analyse, edit, select, apply, sync Authorization | others change the webhooks between read and write; partly applied plans | `WebhookPayload`, `WebhookPlan`, `CmdbuildWebhooks` |
| Catalogues and audit model | cached catalogue files | synchronise, poll after a lost answer, analyse, apply; starter, Logical Control, fix | lost answers, overlapping writers, half-read catalogues, conflicts of templates | `AuditModel`, `RulesCatalogs` |
| Lookup bulk operations | running and finished batches | ask, join, turn, repeat | repeated requests, offsets into a changing list, crashes | `LookupBulk` (composed with `AuditModel`) |
| Accounts and sessions | users file, session store | first start, log in, change, reset, log out, touch | read-wait-write of whole documents; crash in an in-place write | `UiAccounts` |
| External logins (OAuth2, SAML, MS AD/LDAP) | states sent out, cached metadata, directory settings | begin, call back, exchange, read metadata, bind, search, map groups to roles | answers that come twice, late or after a restart; certificates and groups that change meanwhile | `UiLogins` |
| Settings | `ui-settings.json`, configuration in memory, secret references | save a section, apply, resolve | overlapping saves, answers of the PAM that come late | `UiSettings` |
| Binding writeback and host id resolution (`KafkaBindingWorker`, `CmdbuildBindingClient`, `CmdbZabbixHostBindingResolver`) | attribute of a card, binding cards | apply an event, resolve a host id | replays, resent creations, garbled answers, removed cards | `BindingWriteback` |
| Webhook ingress, T4 templates, schema validation, dynamic groups, secrets at start, observability | see section 7 | | | not modelled |

How they interact: a *message* of one loop is what the previous component
published; the loops know nothing of each other but the topics. Zabbix and
CMDBuild are shared with people, who edit hosts and cards at any time. The rules
file is shared by the BFF, the converter and whoever deploys. The rules document
is the contract of five readers: converter, editor, webhook planner, dry run and
audit.

What makes each component correct, before any model:

* consumer loop: no message is lost silently, none overtakes an earlier one of
  its partition, a backlog is worked off and never shown smaller than it is;
* files: a document is always whole, a failed write changes nothing;
* requests: an answer or a binding event claims only what Zabbix did; a host
  that is protected is not written; administrators' tags survive; every request ends;
* conversion, merge, audit, dry run: what is not the rules' stays, a repeated update is
  harmless, the audit finds nothing after a successful update, what is previewed is
  what a host gets, a deletion reaches the host whatever the card has lost;
* resilience: the breaker does not stay open after the outage;
* rules: nobody overwrites another's work unseen, nobody is told "applied"
  untruly, the converter does not run by stale rules;
* editor: a draft stays acceptable, a publication replaces the file its draft was
  made from, other profiles keep their rules, what the administrator is told is true;
* webhooks: every field a matching rule reads is sent, foreign webhooks are left
  alone, a plan applied undisturbed leaves nothing to do;
* catalogues: "synchronised" and "ready" are true, generated rules are sound;
* bulk: each card is turned once and none is missed;
* accounts: passwords told hold, sessions that ended stay away;
* logins: roles are those of the groups, a state counts in time and not
  after its deletion, an answer is judged by a certificate as current as the cache may be;
* settings: what was saved stays, memory is what a restart would load;
* bindings: the converter resolves the host the last event named.

`PROJECT.json` lists the components with their sources and, under `hazards`,
each hazard at its line with the properties aimed at it.

## 2. Modules

### ConsumerWorker and QueueMonitor

One worker, its broker and its disk. The three classes share the control flow
line by line, so there is one module; what differs, the processing of one
message, is the step `Complete` here and a module of its own elsewhere.

`phase` is where `ExecuteAsync` stands (`top` of the loop, `polling`,
`processing`, `completed` once the outputs are out, `recorded` once the state is
written, `backoff`, `closing`, `down`). `committed` is the group's offset per
partition, `stateFile` the processing-state document (last message of ONE
partition), `snapshot` the value `ExecuteAsync` read at its start and the
assignment handler closed over, `position` the consumer's, `tracked` whether
`TrackInFlightTask` has run, `stop` how far `StopAsync` is. `handled` and
`failed` are history.

Actions are the code's steps between which something else can happen: `Start`,
`LoopTest`, `Assign` (both the first assignment and a rebalance), `PollEmpty`,
`Consume`, `TrackInFlightTask`, `Complete`, `RecordState`, `Commit`, `Fail`,
`BackoffEnd`; `RequestStop`, `ReadInFlightTask`, `Drained`, `DrainTimeout`,
`CancelInFlight`, `Close`; `Crash`; and `Produce` for the producers.
`Processing:WriteOnSuccess` (the option that switches the state file off) is a
constant.

Fairness: the loop's own steps are weakly fair, since nothing but the process
runs them. `Assign` and `Consume` are strongly fair: a poll may return empty at
any time, which disables them for a moment, but the client library fetches what
the broker has. Of `Assign` only the assignment of a consumer that has none is
fair (`~assigned /\ Assign`). `Start` is fair because containers are restarted.
Failures, crashes, shutdowns and rebalances are never obliged to happen, and are
bounded.

`QueueMonitor` extends it with the arithmetic of the BFF's queue monitor. It has
no state of its own: it fetches offsets, then reads the file, so what it may
have seen is every offset up to the present ones beside the present file
(`Fetched`), with low offsets wherever retention has put them: messages below the
low offset wait no longer. A partition the file does not name counts from its low
offset and never drains; over-reporting is allowed by `MonitorTellsBacklog`,
under-reporting is not. More than the topic holds (server.mjs:2770) is reported
only where retention has overtaken the file's offset: then the lag counts messages
that are gone. The worker itself is not modelled as overtaken by retention. It
needs `WriteOnSuccess`.

### FileCell and AtomicFile

`FileCell` is the promise: an atomic cell with writes that are applied at one
instant or not at all, and reads of one instant. `AtomicFile` is the code: a
temporary file of a fresh name, chunks, flush and close, rename, and a `finally`
that deletes what is left; readers hold the file they opened. `ImplementsCell`
is the refinement (`Cell == INSTANCE FileCell WITH ...`): the cell is what the
document's name points to, a write is *applied* at the rename. The BFF's users,
settings and catalogue files are NOT written this way; `UiAccounts`,
`UiSettings`, `AuditModel` and `RulesCatalogs` model the in-place write
(`Truncate`, then the text). Its definitions carry names of their own (`FileInit`,
`FileNext`, `FileSpec`), so that the theorems about it can stand beside those of
the worker that writes such a file.

### ZabbixRequests

`ProcessMessageAsync` of the request worker, from the consumed message to the
commit, against a server that people use too. `pc` walks through `prepare`
(dynamic groups, validation, protection of the payload), `lookup` (the
`host.get` of a fallback, of a merge, or of the protection check), `build`,
`execute`, `deadletter`, `respond`, `bind`, `record`, `commit`. `Throw` is an
exception of an attempt (`ProcessRequestWithRetryAsync` starts over),
`HttpRetryOr` the inner retry of the HTTP handler, `Finish` the result.
`AnswerLost` applies the write and loses the answer. What is published stays
published: `answered` records the messages whose latest run got its answer out, a
replay takes the message out again until it has published anew. The kinds of request
(`AllMethods`) are those the converter publishes; whether validation passes is a
free choice. A restart resumes after the recorded message and an exception skips
a message, as established in `ConsumerWorker`.

Fairness: the worker's steps; for an API call only that it ends one way or
another (`HttpClient.Timeout`), never which way. Failures of the API are not
bounded: a call may fail at every attempt for ever, so that a request ends only
because the two nested counters do. Bounded are what ends an attempt from outside
(`Mishap`): failed publications, state writes and commits, interruptions, and tags
of administrators.

### HostUpdateMerge, Conversion, QuickAudit, HostAudit

`HostUpdateMerge` is `BuildHostUpdateRequestJson` as an operator
`BuildHostUpdate(payload, host)` and the effect of `host.update` as `Apply`: a
request Zabbix would refuse (`Valid`) changes nothing. Arrays that the code keys
(`groupid`, `templateid`, macro, tag + value) are sets or functions of their key;
interfaces are sequences, as their order decides, and `host.get` lists them by
their ids (`ListedById`). Payload fields may be absent (`fields`). Its definitions
carry names of their own (`MergeInit`, `MergeNext`, `MergeSpec`), so that the
theorems about it can stand beside those of the requests that carry the update.

`Conversion` is the converter as an operator from an event and a rules document
to one result per matching profile: route (its own or the default one of the
events that may create hosts), suppressions, host id, selection
rules for groups and templates, template conflicts, interfaces and addresses,
validation and fallback. `QuickAudit` is the BFF's own reading of the same
document: scope, paging, expected host, comparison; its last section is the preview
of the rules page (`DryRunRules`), which reads a pasted payload with the audit's operators but as one
host. `HostAudit` puts them
together as one state machine: an update is either made by hand or converted
from one of the cards, merged into the host, and administrators edit in between;
`ReadersAgree` then asks what the audit would say (`AuditFollowsUpdate`) and what
the dry run previews (`PreviewFollowsUpdate`), and `DeletionReachesHost` what a
deletion of the same card, with whatever the card has lost by then, would reach.

### HttpResilience

The handler's two fields, its callers and a clock. `Check` is
`ThrowIfCircuitOpen` with its three ends, `ResetCircuit` any answer that is not
transient, `Retry` and `GiveUp` the failed attempt, `TimeOut` the call cancelled from above, which
the handler neither retries nor counts.

### RulesPublication

Both sides of the rules file. `request` holds the editors' operations
(`publish`: `Open`, `Submit`, `Compare`, `Write`, `CallReload`, answers;
`retry`: `Submit`, `Reread`, `CallReload`, answers), `queue` is the serial
executor's chain, `load` the calls of `LoadRulesAsync` with `lock` and `cached`.
`Edit` is any other program that replaces the file, with its own modification
time; `CoarseClock` allows two writes the same time. A document stands for its
own revision (a hash). Which documents the BFF's validator and the converter
accept are constants, and they differ.

Fairness: some operation that can go on does, and so does some load; editors,
other programs and failures are free.

### ConditionExpression, WebhookPayload, WebhookPlan, CmdbuildWebhooks

`ConditionExpression` is the tree of conditions of the rules and what the UI
reads out of it: whether it matches, which fields it reads, to which classes it
may apply, which host profile it demands. `webhook-logic.js`
is two modules. `WebhookPayload` says what the rules ask for: the source fields
each class needs and why, the payload keys and placeholders they become, which
requirement a path shadows. `WebhookPlan` says how the webhooks there are get
there: bodies, desired webhooks and the sorted plan of operations. What the code
does to a body in a loop is a closed form there (`BodyForRequirements`: a key
stays that no requirement removes after the last one that put it), and its sort
is an insertion (`Inserted`), so that the provers can follow both.
`CmdbuildWebhooks` is the page with its
history of plans and the BFF that carries a plan out one webhook after another,
beside other services and administrators (`Others`); what the rules ask for is a
constant operator of it (`Wanted`), given by `WebhookPayload` in the run.

### MappingRules, DraftChecks, RulesEditor

`MappingRules` is what the forms do to a document: adding, modifying and
deleting rules, creating, saving (renaming) and removing host profiles with the
rules scoped to them. `RulesEditor` is the page around it: draft, undo and redo,
loading, saving to a file, publishing with a revision, conflicts and retries,
and the refreshing of the revision under a draft (`TakenOver`) when webhooks are
analysed or rules reloaded; `over` records that a draft stands over a newer file.
`DraftChecks` is what an administrator is told when a draft is saved: the
warnings about classes without an address, and the file of webhook bodies made
from the changes since the draft was loaded.

### AuditModel, LookupBulk, RulesCatalogs

`AuditModel`: the CMDBuild catalogue file with its synchronisation, class by
class, the page that polls the cached file when the answer is lost, and the
audit model whose plan the BFF makes from a fresh catalogue and creates one call
after the other. `LookupBulk` extends it with the operation that turns a lookup
of every card of a class to its next value: batches with ids, joined by repeated
requests, kept until the process dies. `RulesCatalogs`: the Zabbix catalogue, the
starter rules made from it, Logical Control (what the rules name that Zabbix does
not have, and which templates of a rule conflict), and the removal of what is
missing, one request of at most `MaxOperations` (250 in the code) at a time.

### UiAccounts, UiLogins, UiSettings

`UiAccounts`: the requests that read, wait and write back the users file and the
sessions, the three steps of a first start, both session stores. `UiLogins`: the
requests of one user who logs in by a provider, step by step. An OAuth2 callback
looks its state up, deletes it and exchanges the code; a SAML answer fetches or
reuses cached metadata and is judged by the certificate in them; a login by
MS AD/LDAP finds, binds and searches; the others may be enriched from the
directory; groups become roles. Meanwhile the user is moved between groups, the
provider changes its certificate, an administrator saves other settings, the
process restarts (and with the memory store forgets the states). History in the
request says which groups the user was in since it began. `UiSettings`:
two pages save sections of one file; a save reads the file, waits, validates,
writes in place, changes the memory, and then asks the PAM for every secret
reference, one answer at a time. History variables name the crossings of two
requests in which the code does lose an update, so that the properties say
exactly when it does not.

### BindingWriteback

The binding worker, CMDBuild and the converter's resolver. `main` is the
attribute `zabbix_main_hostid` of a source card, `cards` the `ZabbixHostBinding`
cards of a link in the order CMDBuild returns them. `ReadMain`, `FindCard`,
`Write`, `Resend` (the HTTP handler repeats a write that had taken effect),
`ReadGarbled` and `WriteGarbled` (an answer that is not JSON), `Record`, `Skip`,
`Crash`, `Remove`. `Resolved` is the resolver: the host ids it may return.

### MC modules

`MC<Module>` gives constants their values; `MCWebhookRules` is the small CMDBuild
that the webhook and editor runs share. `MCAdministration` composes `LookupBulk`
(and with it `AuditModel`) with `RulesCatalogs`, `MCCallsAndLogins`
the breaker with the logins: one of the two halves is at rest in every behaviour.
Where a set of inputs is narrowed, the MC module says how; no definition of a
checked module is replaced.

## 3. Runs

| run | what it asks | bounds |
|---|---|---|
| `worker` | nothing skipped silently; outcomes in order; backlog worked off (liveness); the queue monitor never shows less than is waiting | 2 partitions of 2 messages; 1 failure, 1 crash, 1 stop, 1 rebalance, in any order; any low offset |
| `file` | refinement of `FileCell` | 3 writers, 2 readers, 2 chunks; every step may fail or be the process's last |
| `requests` | claims are real, last answer holds, protected hosts untouched, every request ends (liveness) | every pair of request kinds about one host, 2 attempts of 2 HTTP attempts, API calls failing without a bound, 2 mishaps: failed publications, state writes and commits, interruptions, tags of administrators |
| `calls_and_logins` | one break after the outage; roles follow groups; states and certificates are current | 3 callers, 2 attempts, threshold 2, break 2, outage until 5; or 2 logins in 2 slots under 5 configurations, 2 states, 2 groups, time up to 2 with lifetimes of 1, 1 change outside or restart; 1.4 million states |
| `rules` | loads current, "applied" true, no overwriting, queue alive (liveness) | 2 editors in 3 plans, 1 other edit, 1 load of the worker, 1 fault; clock may stand still |
| `bindings` | resolver follows events | 3 events over a main and an additional link and 2 hosts; 2 resends, 1 fault, 1 garbled answer, 1 removal |
| `merge` | external data kept, second update is a no-op, audit and dry run agree with converter and merge, a deletion reaches the host | payloads by hand with 2 values of each kind and 4 interface lists; 36 cards under 5 rules documents with a main and an additional profile, one of them without a route for creations; 3 updates and edits |
| `accounts` | passwords told hold, bootstrap password known, ended sessions stay away, live ones stay | 3 requests in 2 slots, 2 sessions, 2 users, 1 crash, first starts without a file, with half of one and with a whole one; time up to 3 with idle 1 and lifetime 2 |
| `webhooks` | plans settle, foreign webhooks untouched, Authorization kept | 2 browsers, 2 rules versions, up to 4 webhooks of every owner, 2 loads, 2 requests, 1 act of others, 1 edit: a selection, or the Authorization and the url of one webhook cleared |
| `editor` | drafts acceptable, a publication replaces its draft's source (`ReplacesItsSource`), other profiles' rules kept, fields served, body file and warnings true (`SavingTellsRight`) | 2 pages; 3 edits in a row, or 1 edit while both pages save and read; and about 870 hand-written documents, each analysed once |
| `settings` | saves survive, memory follows file | 2 pages, 3 plain values (one refused), 1 PAM secret, 1 typed text, an idp secret blank at first, 2 edits, 2 saves, 1 crash, an environment that overrides one section |
| `administration` | synced is new, ready is complete, turned once, nobody missed, made rules sound and no conflict unnoticed (`ChecksCanBeTrusted`) | 2 pages; class tree A, B below A, a class that is gone; up to 3 requests, or 2 bulk operations over 3 cards in batches of 1, each beside 1 fault, crash or edit; 3 templates sharing item keys in 1,030 documents of conflict rules; 250 documents with names that moved or are missing |

Why these bounds: two partitions are enough for the state file to be about the
*other* partition, which is what tells the cursors apart, and two messages for
an earlier and a later one; failure, crash, stop and rebalance once each meet in
every order, and the theorems of section 5 cover any number of them. Two
requests about one host are the shortest history in which a request meets what
an earlier one left behind; requests about different hosts share only the
cursors. Failures of API calls are free, so that two HTTP attempts within two
attempts are exhausted in every way; two mishaps are a crash and a failed
publication after it. Three writers make it possible that one file is
replaced while a second is being read and a third written. Three callers let two
calls be under way while the circuit opens. Three binding events are create,
delete and create again, or two interleaved links. Two overlapping requests are
what a read-wait-write of a whole document can be harmed by, and a third one
observes the result; with four writers of one file at once the text could be
broken in ways `UiAccounts` does not tell apart. Two logins are two callbacks
with one state, or one that finds the metadata another cached. Three edits in a
row are a creation, a rename and a removal. In `administration` and `editor` the
budgets of a behaviour, in `calls_and_logins` the half that moves, are chosen at
the start, so that the state spaces of the questions add up instead of
multiplying. Deadlock is not checked where the bounds stop the
system: every model but the environment's counters would go on.

Every property has a mutant in `PROJECT.json`: a plausible mistake in the code
(a comparison dropped, an order swapped, a counter not advanced) under which the
same run refutes it. Properties that were checked in earlier states of the
project and are now theorems are not run again: `CommittedNeverRewinds`,
`BreakIsKept`, `CommitNeverOvertakesState`, `SeenTagsKept`,
`NothingRecordedUnanswered`, `NoLitter`, `ReferencesKept`, `DuplicatesPaidFor`,
`VisitsInTime`.

## 4. Where documents and code disagree, and other things met on the way

No run is kept for these; each was met while modelling, several with a
counterexample of TLC's, and the models contain the behaviour.

Consumers and requests

* A failed message is skipped: after an exception the loop polls on and the next
  commit covers it (`KafkaConversionWorker.cs:153`; `must.en.md:29` says it is
  retried). `NothingSilentlySkipped` says what does hold.
* A rebalance resumes from the state read at the start
  (`KafkaConversionWorker.cs:81`; `must.en.md:31`), behind the worker's own file.
* A write whose answer was lost is repeated, refused and answered as an error:
  the host exists and is never bound (`KafkaZabbixRequestWorker.cs:425`;
  `PROJECT_DOCUMENTATION.en.md:319`).
* A binding card is created twice when the POST is resent
  (`CmdbuildBindingClient.cs:93`; `TZ_cmdb2monitoring.en.txt:571`).
* A valid binding event is recorded as `invalid_json` when CMDBuild's answer is
  not JSON (`KafkaBindingWorker.cs:255`; `PROJECT_DOCUMENTATION.en.md:348-349`).
* A stop between the start of `ProcessMessageAsync` and `TrackInFlightTask` is
  not drained (`KafkaConversionWorker.cs:36,131`; `must.en.md:37`).
* What was published stays on the response topic: a create is answered "success",
  the worker dies before it records that, a delete whose own answer could not be
  published is executed again and removes the host, the create executed again is
  refused, and the publication of that answer fails, which the loop passes over.
  The last answer about the host says "success", and it is gone
  (`KafkaZabbixRequestWorker.cs:1829-1840`). `LastAnswerHolds` is about answers
  that the latest run of a message got out (`answered`); without that premise TLC
  shows the trace.
* Where retention has removed messages the worker never read, the queue monitor
  reports them as lag, more than the topic's depth (server.mjs:2770).
* A request interrupted by a shutdown in its last attempt is answered as failed
  and dead-lettered.
* A tag an administrator adds between `host.get` and `host.update` is lost
  (`must.en.md:59`), as is one that differs only by letter case (`TagKey`).
* One update may name the same `interfaceid` twice when two interfaces of a
  payload match one of the host.
* Timeouts are neither retried nor counted by the breaker
  (`HttpClientResilienceHandler.cs:194`).
* `GET /admin/rules-status` may reload rules, although
  `PROJECT_DOCUMENTATION.en.md:254` calls it a status "without reloading rules".
  `GetStatusAsync` and `ReloadAsync` read three fields outside the lock
  (`GitConversionRulesProvider.cs:35`).
* The webhook rate limiter counts refused requests too
  (`WebhookRateLimiter.cs:24`; not modelled).
* The queue monitor's metric maps `warning`, but the status is `warn`
  (server.mjs about 8849), so Prometheus shows 0 where its HELP text promises 2.

Editor and publication

* A lost publication: "Analyze rules" of the webhook page takes the new revision
  under an old draft (app.js:4313), and the publication (10315) is then accepted,
  although `SYSTEM_ADMIN_GUIDE.en.md:113` says an editor whose file was changed
  gets a conflict. So does the reload after one's own publication (10332) when
  another publication came in between. `ReplacesItsSource` exempts both (`over`)
  and holds for every other publication.
* What is edited while a publication or a save to a file is under way is
  overwritten by `rememberSavedRulesContent`.
* The revision is compared and the file renamed without a lock on the file: what
  another program (Git) puts there in between is overwritten unseen
  (server.mjs:3416); a write of the same modification time leaves the converter
  with the rules of before (`GitConversionRulesProvider.cs:84`).
* Fields used only in conditions are not added to `rules.source.fields`.
* Two profiles whose names differ only in punctuation are one to the editor;
  deleting a profile also deletes rules that mention it anywhere in their
  condition; saving a profile drops hand-written conditions of it; after an undo
  the profile form may hold the class of another state.
* The warnings look at the address fields of any profile of a class, not of the
  one that applies; `WarningsAreRight` is restricted to documents the forms make.
* A comment says the webhook body of a domain path carries the card's id, which
  `webhookBodyValueForField` omits.

Webhooks

* A later requirement that shares an attribute deletes the payload key of an
  earlier one, and a key may appear twice (`webhook-logic.js:446`;
  `PROJECT_DOCUMENTATION.en.md:440`).
* A webhook of before the identifiers is planned as Delete, which the BFF
  refuses with 404 and aborts the rest.
* "Sync Authorization updates only that header", but the whole webhook read
  earlier is PUT; an apply overwrites a rotation the same way. `AuthorizationKept`
  is what remains true.
* After a partly failed apply, "Analyze" does not load the webhooks anew.

Converter, dry run and audit read one document differently

* The audit ignores template conflict rules, the profile-scoping policy, the
  `enabled` of interface rules, reference paths, and honours `enabled: false` of
  selection rules, which C# does not; of several matching status rules it takes
  the last, the converter the first; a blank profile name is `main` or
  `profile-n` to one and `default` to the other; a profile without interfaces
  falls back differently. A stale binding id falls back to the host's name
  without a warning. `AuditFollowsUpdate` holds for documents in the editor's
  form, and the check's cards say so.
* The dry run (server.mjs:3587; "Apply rules to a sample CMDBuild payload without
  saving", `aa/openapi/monitoring-ui-api.openapi.yaml:354`) knows no profiles:
  since the editor scopes every rule to a profile, the payload a webhook sends
  previews no group and no template at all, and only one that names a
  `hostProfile` previews that host, as `PreviewFollowsUpdate` says. It asks
  neither suppressions nor the checks before publication, so it shows a result
  where the converter publishes none; it shows no group of a rule that takes its
  groups from a field, and it still shows templates that a conflict rule removes.
* The converter routes an event without a route of its own by default if it may
  create hosts (`CmdbToZabbixConverter.cs:495`); the dry run says "not routed".
* `conditionExactValues` (JavaScript) goes through all, any and not;
  `CollectRequiredClassValues` (C#) through all only.
* A delete whose interface field became malformed is skipped and the host stays.

Catalogues, audit model, bulk operations

* The polling page accepts the old catalogue if it could not read the earlier
  status (app.js:3373-3385); of two overlapping synchronisations the older read
  may be written last; the Zabbix catalogue file is written in place as well.
* Applying the audit model to a parent and then its child is refused by CMDBuild
  and must be repeated.
* A crash of the BFF in a batch makes the page's retry turn cards a second time;
  a removed card makes the operation skip another.
* Logical Control accepts an item found by id OR name, the server by id only: a
  group that was created anew shows no issue and refuses the publication.
  Conflict rules are applied to defaults plus one rule, one after the other, by
  the page, and to the templates selected first, without defaults, by the
  converter. The removal of a missing item also removes an existing one of the
  same name. The route of the removal is not called by app.js.

Accounts and settings

* Two OAuth2 callbacks that both read one state before either deletes it are both
  let in as far as the state goes (server.mjs:1275-1277).
* A process that dies between writing the first users file and noting its
  password leaves an administrator nobody can log in as (server.mjs:2350).
* Overlapping requests undo each other's password changes, bring back a session
  that was logged out, and may leave the users file broken.
* A secret of the idp section left blank is saved as its resolved value
  (server.mjs:9259; `DEPLOYMENT_LOCAL_REGISTRY.en.md:310`). Between Apply and the
  PAM's answer the services use the literal `secret://id`. A file that does not
  parse, or an absent PAM, stops the start.
## 5. Proofs

Eight modules hold theorems; every step is checked by tlapm with Z3, Zenon and
LS4. `PROJECT.json` lists the theorems under `theorems`. Each module assumes
only what the module it is about declares in its `ASSUME`, so that the results
hold for any number of messages, partitions, users, editors, hosts, failures and
crashes; the bounds on the latter (`MaxCrashes` and its like) are any natural
numbers. The pattern is always the same: TLC first finds out on a run whether the
strengthened invariant holds, then `Init => IInv` and `IInv /\ [Next]_vars => IInv'`
are proved action by action, and the property follows from `IInv`.

**`ConsumerWorker_proofs`** (with `QueueMonitor`)

* `NoSilentLoss`: `NothingSilentlySkipped`, through any crashes, shutdowns and
  rebalances. Alone it is not inductive: a commit moves the offset over the
  *current* message, and an assignment moves the position to the *snapshot*.
  `IInv` adds that the position has only accounted messages below it, the one
  being processed excepted (`PositionInv`), that the snapshot is covered as the
  file is (`SnapshotInv`), and what each phase says about the current message
  (`PhaseInv`). `CurrentCovered` is the lemma both cursors rest on.
* `OutcomesInOrder`: the action property `FirstOutcomesInOrder`, from `IInv`.
* `StateKeepsUp`, `CommitsGrow`: until the first rebalance the file is never
  behind the commit, and no commit goes backwards. `StableInv` says that position,
  current message and file are past every commit while `rebalances = 0`. The
  hypothesis is necessary: a rebalance resumes from the snapshot taken at the start.
* `LagCoversBacklog`: `MonitorTellsBacklog`, for any number of partitions and any
  low offsets, from `StableInv`. Partition by partition the messages that wait lie
  between the state file's offset and the end of the topic (`PartitionShare`); that
  the lag is no more than the topic's depth is proved, and true, only where the low
  offset of the file's partition is not past the file. The sums over
  partitions are folds, which no installed prover can induct over; `SumIs` ties
  the fold to any function that satisfies its recursion on the finite set, such a
  function exists because there is no smallest set without one (`SumsExist`), and
  `SumCovers` compares sums by a smallest counterexample.
* Of the file the worker replaces (`AtomicFile`, whose definitions have names of
  their own): `FilesTypeCorrect`, `NothingLeftBehind` (`NoLitter`) and
  `FileIsACell`, the refinement of `FileCell` for any number of writers,
  readers and chunks. The inductive invariant says that what the name points to
  and what a reader holds is complete (`CompleteInv`) and which temporary names
  exist in which phase of a write (`TempInv`); `StepCell` maps each step to a step
  of the cell or to a stutter.

**`ZabbixRequests_proofs`** (with `HttpResilience` and `HostUpdateMerge`) follows one request through
its attempt.

* `ShieldHolds`: `ProtectedUntouched`. It needs `ShieldInv`: at the lookup every
  shielded host still has its mark (until the write only administrators change
  Zabbix, and what they do is add tags), at the build a shielded host can only be
  one to be created under a protected name, which the validation refuses, and at
  the write Zabbix would not accept it.
* `SuccessBacked`: `SuccessIsReal`. `SuccessInv` adds that a success not yet
  published is in evidence: the write it stands for was carried out, on the id
  the binding event will name (`ReachEvidence`).
* `LastAnswerTrue`: `LastAnswerHolds`. `FitInv` says, for a message that is
  answered "success" and the last about its host so far, that Zabbix has the host
  as the answer says, except while the next request about it is between its
  write and its answer. The answers it is about are those of the latest runs
  (`answered`): an answer of an earlier run stays on the topic when the new one
  cannot be published, and may then be wrong (section 4).
* `RecordedAnswered`: `NothingRecordedUnanswered`, from `AnswerInv`: every message
  behind the cursor was answered or given up, and the state file is not ahead of
  the cursor but during a commit.
* `TagsKept`: the action property `SeenTagsKept`, from `SeenInv`.
* Of the breaker in front of these calls, `BreakEnds` (`OneBreakAfterOutage`) and
  `BreakKept` (`BreakIsKept`). Its type invariant is inductive with the bound on
  `circuitOpenUntil`: failures are counted during the outage only, so that no
  break ends later than one break time after it (`GiveUpBounds`). Its variables
  are apart from those of the requests; the modules share this one because they
  share no state and no theorem mentions two of them.
* Of the merge, `ForeignKept` (`ExternalKept`) and `RepetitionHarmless`
  (`SecondUpdateIsNoop`), for any payloads, hosts and edits in between. The
  inductive `MergeInv` adds to both that the interfaces of a host have ids of
  their own below the next one. The list by id is a permutation of what was
  written (`ListedTogether`: the rank of an entry is one-to-one on a finite range
  and so onto), each interface of the payload is found again as what it became
  (`StoredAgain`), and merging groups, templates, tags and macros twice is merging
  them once (`RepeatedIsNoop`). It rests on `MergeAssumption`: a payload has no
  interface twice. The attempt changed the model: stated of any list, the property
  is false, since equal interfaces of one payload match the same one of the host;
  the converter does not send them (`CmdbToZabbixConverter.cs:728`).

**`RulesPublication_proofs`**: `NoStaleLoad` (`LoadsAreCurrent`), `AppliedIsTrue`
(`AppliedIsLoaded`), `NothingOverwritten` (the action property
`PublishesOverRead`). Only the head of the queue is past its first read
(`QueueInv`), so that between comparison and write the file is the draft's base
or another program's (`BaseInv`); what the file held since a publication is what
its reload can find (`HeldInv`); the cache is not newer than the file, and while
no two writes left the same time, equal times mean equal contents (`CacheInv`).
Their exceptions: `NoStaleLoad` ends with the first two writes of one time;
`AppliedIsTrue` is about the load that answered, which may have found what
replaced the publication already, and says nothing of later loads;
`NothingOverwritten` exempts a file of another program.

**`BindingWriteback_proofs`**: `ResolverIsRight` (`ResolverFollowsEvents`) and
`DuplicatesAreResends` (`DuplicatesPaidFor`). A link nothing is pending for is
stored as its last applied event says (`MainInv`, `CardsInv`); an event is
applied with the store as it wants it (`AppliedInv`); a card is created only
after a look-up that found none or as a resend (`CreationInv`).

**`CmdbuildWebhooks_proofs`**: `OwnOnly` and `CredentialsStay`, the action
properties `RequestsKeepToOwn` and `AuthorizationKept`, for whatever the rules
ask for and every edit an operator could make (`Wanted` and `Edits` stay
uninterpreted), from `RequestsPrepared`: what a running request looks its webhooks
up in is a listing by their ids, and what is left of a sync are our own.

`PlansSettle` (`PlanSettles`) is about the functions of `WebhookPlan`, for any
rules, any webhooks to begin with and any history before. `PlanInv` adds to the
invariant above that CMDBuild and every listing hold a code once, so that the BFF
finds by a code the webhook the browser meant (`CodesInv`), and that the first
plan of a page is that of its listing and of its version of the rules
(`PagesKept`). The rest is one argument about one plan:

* its operations come from the wanted hooks and the obsolete ones, each from one,
  with codes of their own, wherever the sort puts them (`Arranged`, `PlanIs`);
* carried out in turn they leave each webhook as the one operation with its code
  wants it and all others as they were (`LeftAfter`, `AppliedIs`), and the BFF
  refuses none of the creates and updates (`PlanAllowed`);
* the url that is taken over from another webhook is never the empty one;
* a body made for requirements and then made again for them is the same, and a
  prefix once chosen is chosen again, so that every wanted hook is found as
  desired (`EachAsDesired`) and nothing but deletes is left (`NothingAgain`).

The assumptions: CMDBuild starts with a code once and refuses a second
(`HooksAssumption`); a class is wanted once for each event (`WantedAssumption`);
the prefix of every class and the default url are not empty
(`PrefixAssumption`). The attempt
showed what the property rests on. Of a body that mixes prefixes the code takes the
first (`currentWebhookPlaceholderPrefix`); writing the body can move that key
behind another prefix, and the next analysis then updates it once more. So
`PlanSettles` is stated of webhooks of one prefix each (`OnePrefix`), which stay
such. And `Allowed` had left out that the payload must have the
operation's code (`requireManagedCmdbuildWebhookPayload`), which edits can break.

**`UiSettings_proofs`**: `RuntimeSecretsStay` (`ReferencesKept`), because the
memory never holds a runtime secret without its name (`Named`); `SavesStay`
(`SavesSurvive`) and `RestartChangesNothing` (`MemoryFollowsFile`), from
`SavedInv`, which follows each save from what it read over what it will write to
the references it still has to resolve. The attempt found that `MemoryFollowsFile`
was not inductive for a reason in the code: a save whose idp secret is blank
takes the secret from the memory as it is when the save is *applied*, not as it
was when it was *read*, so that it counts as crossed with a save in between
(`Crossed`).

**`UiAccounts_proofs`**: `PasswordsHold` (`AcceptedPasswordsHold`), `NotedIsTrue`
(`BootstrapKnown`), `OutStaysOut` (`LoggedOutStaysOut`), `LiveStays`
(`LiveSessionStays`) and `LetInInTime` (the action property `VisitsInTime`), for
both session stores. `SessionInv` follows every session and each copy a request
holds of it: a copy is of a session that was entered, its time of creation is
the login's, it is as fresh as the last visit or known to be outdated, and a
session not stored as of its last visit is held by a request that will store it
(`Pending`). `FileInv` follows the users file: without a torn write at most one
request is between opening and writing, the file is empty exactly then, and what
is to be written differs from the passwords last set only for users whose change
is known to be undone. `BootInv` says, for each step of `ensureUsersFile` that is
still to come, where the new administrator's password is already. The assumption
that no password in use is a bootstrap password of a later start stands for the
18 random bytes it is made of. `NotedIsTrue` exempts the administrator in `lost`:
a start that died after writing the users file and before noting the password.

**`UiSettings_proofs`**, on `UiLogins`: `RolesAreOfGroups` (`RolesFollowGroups`) and `JudgedInTime`
(`JudgedByTheCurrent`), for every set of groups, states and requests, every role
mapping and all lifetimes, and `LoginTypes`. `JudgedInTime` says of a state that it
had not been deleted when it was read; of two callbacks that read it before either
deletes it, it lets both in. Neither is inductive: what a request
holds is told only by the step it is at. `LoginInv` follows it from step to step:
of which source its groups are, and that they lie between those the user was in
all the time and at some time since it began (`SoundGroups`); whether its state
was found in the store, in time and not yet deleted (`SoundState`), for which
`StoreInv` says that a state is missing from the store only when it is deleted,
lost or too old; and since when the certificate it will be judged by can have been
replaced (`SoundCertificate`), for which `CacheInv` says the same of the cached
metadata.

**`LookupBulk_proofs`** holds three parts without state in common. On `AuditModel`: `SyncedIsNewHolds` (`SyncedIsNew`) and
`ReadyIsCompleteHolds` (`ReadyIsComplete`), for any tree of classes, although
others write the same cached file and create classes meanwhile. `AuditInv` says
that a catalog claims nothing CMDBuild lacks, which stays so because nothing is
deleted there (`Believable`, `Grows`); that one which is stamped has read each
of its classes (`Whole`); and that a stamp is given once and written once, so
that the file a waiting page finds later can have the stamp the page had seen
only as long as nobody wrote (`StampInv`, `PageStamp`). `SyncedIsNewHolds` is about
pages that had the earlier catalog's status; one without it (`blind`) accepts the
old catalog. The bulk operations
change nothing of this.

On the operations: `TurnedOnceHolds` (`TurnedOnce`) and `NobodyMissedHolds`
(`NobodyMissed`), for every number of cards, size of batches and lookup.
Neither counter nor report is inductive alone. `BulkInv` places each card: it was
turned, is in the batch, or is still ahead of it, and these together grant one
turn, plus one for each crash and insertion (`OnceOK`); and a card nobody touched
that the filter lets through is settled, in the batch, or ahead of a batch after
which the page goes on, and ahead of where this batch began in case the BFF
forgets it (`SparedOK`). The assumptions: ids of cards are unique, a batch has
room for a card, the lookup has a value, and None is no class, attribute or time
(`AuditAssumption`, `BulkAssumption`).

On `RulesCatalogs`: `ChecksTrusted` (`ChecksCanBeTrusted`) and
`CatalogsTypeCorrect`, for any catalogs, documents, conflict rules and
synchronisations. What a starter names was read from the catalogue file; it stays
known to Zabbix, to the file and to whoever may write the file, or was lost
(`StarterInv`), because a synchronisation nobody overtook has read what the file
had (`AloneInv`) and everything read was there once (`ReadInv`). After a removal
another item may count for a key whose first item went; it has the key, and would
have gone with it were the key missing (`NothingMissing`). The converter takes
away at least the templates the page does (`ConvertedIsActive`); the page applies
conflict rules one after the other, a recursive function over the list, of which
the lemma that it exists (`CourseExists`) goes by a first number without one. The
theorem is about single template rules in documents whose defaults have no
templates; other conflicts may go unnoticed (section 4).

Only model-checked:

* `ReadersAgree`, `DeletionReachesHost`, `DraftStaysAccepted`,
  `ReplacesItsSource`, `OthersKeepTheirRules` and the judgements of one document at a
  time (`SavingTellsRight`, `UsesAreServed`). They compare
  what recursive definitions and folds over trees and documents return; their
  modules declare `RECURSIVE` operators, of which the provers know nothing, or
  rest on one that does.
* Liveness under fairness: `EventuallyAccounted`, `EveryRequestEnds`,
  `EveryOperationEnds`; and `ENABLED`.


## 6. Abstractions to know about

* Contents are model values; a message is its offset, a document its revision, a
  Zabbix host its name, generation and external tags. Names are told apart by
  `fold`, `token` and `canonical`, which the webhook and editor runs give for a
  set of spellings that collide in every way.
* `ZabbixRequests` lets validation succeed or fail freely and does not show
  which catalogue entries are missing. Login and token are left out.
* `HostUpdateMerge` is given payloads that have no interface twice, as the
  converter groups equal ones (`SelectInterfaces`). Two different ones may still
  match one interface of the host; Zabbix then refuses the update.
* `Conversion`: tags, macros, proxies, encryption, inventory, maintenances and
  value maps are selected by the same rules as groups and are left out, as are
  the texts of the T4 templates.
* `BindingWriteback` has no empty but successful answer to a look-up, and reads
  are not resent (repeating them changes nothing).
* `RulesPublication` reads the rules from disk; `ReadFromGit` is off by default.
* `WebhookPlan`: names of payload keys are compared exactly where the code does,
  ignoring case or by `normalizeToken` where it does so; of a body with several
  prefixes some one is taken (the code: the first).
* `CmdbuildWebhooks`: headers other than Authorization travel with the url; the
  listing has the webhooks in the order of their ids.
* `RulesEditor`: one saving at a time per page; a form is loaded from the draft
  it is saved to; priorities, targets and texts are left out, as is the Git
  working copy. Conditions on the host profile can only be made by scoping.
* `DraftChecks` leaves out the advice for removals, event routes and the fields
  Zabbix expects.
* `UiAccounts`: a password is its own hash, and the list of Redis keys taking
  several steps is left out. An
  administrator whose note file was cut by a crash is counted as lost.
* `UiLogins`: one user; a state, a code and a certificate are model values. Which
  SAML answers the library accepts (audience, times, `InResponseTo`) is its own
  business: the code makes a new client for each request. The mapping of groups to
  roles stays what it is, although an administrator may save another; the lifetime
  of a state may be anything, while the code has at least 60 seconds. What becomes
  of a session is in `UiAccounts`.
* `DryRunRules` (in `QuickAudit`): status, proxies, tags, macros, inventory, maintenances, value maps
  and the report of the validation are left out; fields have one spelling each.
* `UiSettings`: three sections with one plain value and one secret; the write and
  its application to memory are one step; two overlapping in-place writes leave
  either text or a broken one.
* `AuditModel`, `LookupBulk`: CMDBuild refuses an attribute a class has already,
  by itself or by inheritance (an assumption about CMDBuild); the memory of
  batches lasts for ever (30 minutes in the code).
* Time is abstract everywhere but in `HttpResilience`, `UiAccounts` and `UiLogins`: a timeout
  may come at any moment.
* The group has one member (`Worker:ReplicaMode = SingleActive`), so a rebalance
  gives it every partition again.

## 7. Not modelled

| part | why |
|---|---|
| T4 templates | rendering of text, no state |
| Rules schema validation, Zabbix catalogue validation, dynamic groups | lists of independent checks; their verdict is a constant or a free choice |
| Webhook ingress and its rate limiter | one stateless publication per request |
| The wire of LDAP (BER), SAML (XML, signatures) and Redis | parsing of bytes; what the code makes of the answers is in `UiLogins` and `UiAccounts` |
| Git working copy of the settings, marks of unsaved forms | a second copy of the rules file, handled like the first |
| Secrets at start, logging, metrics, readiness, transport and security middleware, demo scripts | no state the models are about |
| Rendering, help texts, localisation of the UI | layout |

The share of the JavaScript that the map covers is limited by app.js, more than
half of which builds DOM nodes and texts.
## 8. Plan

Done: the worker and its monitor, the files, the requests, the breaker, the
publication, the bindings, the webhooks, the accounts, the logins, the settings,
the merge, the catalogues and the bulk operations are modelled, checked and proved
about; the converter, the audit, the dry run and the editor are modelled and checked. What would come next:

1. Theorems about the drafts of `RulesEditor`.
2. `Conversion` with tags, macros and the resolver of source fields with its
   depth and cycle limits.
3. `Pipeline`: conversion, requests and bindings composed over their topics, with
   the abstract specification "a host for each monitored card"; binding writeback
   raises webhooks of its own.
4. `WebhookIngress`: rate-limiter windows against the promised rate; the login
   token of the Zabbix client.
