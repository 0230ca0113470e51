--------------------------- MODULE ZabbixRequests ---------------------------
(***************************************************************************)
(* One Kafka request turned into Zabbix API calls: ProcessMessageAsync of  *)
(* KafkaZabbixRequestWorker with its retries and fallbacks, the answers it *)
(* publishes, and the Zabbix server it writes to.                          *)
(*                                                                         *)
(* Messages are processed one at a time. The loop around them and its two  *)
(* cursors are ConsumerWorker; here a restart resumes after the last       *)
(* recorded message and a message whose publication fails is skipped, as   *)
(* established there.                                                      *)
(*                                                                         *)
(* A host is known by its name and, to Zabbix, by an id that changes when  *)
(* the host is created anew: the id is the name's generation. Of a host's  *)
(* content only the tags that come from outside the rules are kept, one of *)
(* which marks the host as protected. An update replaces the tags by those *)
(* its lookup saw: the tags of the rules themselves are not shown.         *)
(***************************************************************************)
EXTENDS Integers, FiniteSets

CONSTANTS
    Names,           \* host names
    ProtectedNames,  \* Processing:ProtectedHostNames
    Tags,            \* tags set by administrators
    Protective,      \* the tag of Processing:ProtectedHostTags
    Length,          \* number of requests
    Inputs,          \* the sequences of requests considered
    MaxAttempts,     \* Processing:MaxRetryAttempts
    HttpAttempts,    \* Zabbix:Resilience:MaxRetryAttempts
    MaxMishaps       \* bound: failed publications, state writes and commits,
                     \* interruptions of the process, and tags added by
                     \* administrators; API calls fail as often as they like

(* host.create; host.update and host.delete of a known id, the update with *)
(* or without mergeable fields; host.get as fallback for host.update, with *)
(* and without createOnUpdateWhenMissing, and for host.delete; bad JSON.   *)
AllMethods == {"create", "merge", "plain", "delete", "get_update",
               "get_upsert", "get_delete", "malformed"}

Messages == 1 .. Length
Request == [method : AllMethods, name : Names]

ASSUME RequestAssumption ==
    /\ ProtectedNames \subseteq Names
    /\ Protective \in Tags
    /\ Inputs \subseteq [Messages -> Request]
    /\ Length \in Nat /\ MaxAttempts \in Nat \ {0} /\ HttpAttempts \in Nat \ {0}
    /\ MaxMishaps \in Nat

Outcomes == {"none", "ok", "rejected", "not_found", "error", "exhausted", "invalid"}

VARIABLES
    input,     \* the requests of the topic, in order
    zabbix,    \* the server: the host of each name
    cursor,    \* the message being processed, or the next one
    recorded,  \* the last message of the processing-state file
    pc,        \* program counter of ProcessMessageAsync
    attempt,   \* of ProcessRequestWithRetryAsync
    http,      \* attempt of HttpClientResilienceHandler
    call,      \* the API write being built or sent
    outcome,   \* response topic: a message's last answer, "none" before it
    answered,  \* history: messages whose latest run published its answer
    result,    \* the outcome reached but not yet published
    dead,      \* messages published to the dead-letter topic
    bindings,  \* binding events published
    applied,   \* history: writes that took effect in Zabbix
    skipped,   \* history: messages left by an exception
    shield,    \* history: names protected since the attempt began
    mishaps    \* bounded counter

delivery == <<cursor, recorded, skipped>>
published == <<outcome, answered, dead, bindings>>
locals == <<attempt, http, call, result, shield>>
vars == <<input, zabbix, delivery, pc, locals, published, applied, mishaps>>

NoCall == [op |-> "none", gen |-> 0, seen |-> {}]
Request0 == input[cursor]
Host == zabbix[Request0.name]

Protected(n) == n \in ProtectedNames \/ Protective \in zabbix[n].tags

Absent(g) == [gen |-> g, present |-> FALSE, tags |-> {}]

Init ==
    /\ input \in Inputs
    /\ zabbix \in [Names -> {Absent(0)} \union
                     {[gen |-> 1, present |-> TRUE, tags |-> T] : T \in SUBSET Tags}]
    /\ \A n \in Names : zabbix[n].present => \E i \in Messages : input[i].name = n
    /\ cursor = 1
    /\ recorded = 0
    /\ pc = "idle"
    /\ attempt = 1 /\ http = 1
    /\ call = NoCall
    /\ outcome = [i \in Messages |-> "none"]
    /\ result = "none"
    /\ answered = {}
    /\ dead = {}
    /\ bindings = {}
    /\ applied = {}
    /\ skipped = {}
    /\ shield = {}
    /\ mishaps = 0

-----------------------------------------------------------------------------
Mishap == mishaps < MaxMishaps /\ mishaps' = mishaps + 1

\* ProcessMessageAsync is left, and its local state with it.
Leave ==
    /\ pc' = "idle"
    /\ attempt' = 1 /\ http' = 1
    /\ call' = NoCall
    /\ result' = "none"
    /\ shield' = {}

\* The attempts end with a result: what is left is to publish it.
Finish(r) ==
    /\ result' = r
    /\ attempt' = 1
    /\ pc' = IF r \in {"exhausted", "invalid"} THEN "deadletter" ELSE "respond"

\* Mutant: the attempt counter does not advance.
ThrowForever == pc' = "prepare" /\ UNCHANGED <<attempt, result>>

(* An exception leaves ProcessRequestAsync: the request is retried from    *)
(* its beginning, or FromException after the last attempt.                 *)
Throw ==
    IF attempt < MaxAttempts
    THEN attempt' = attempt + 1 /\ pc' = "prepare" /\ UNCHANGED result
    ELSE Finish("exhausted")

(* ProcessMessageAsync starts: the request is read, or is not JSON. What   *)
(* an earlier run of the message published stays on the response topic.    *)
Receive ==
    /\ pc = "idle"
    /\ cursor <= Length
    /\ answered' = answered \ {cursor}
    /\ IF Request0.method = "malformed"
       THEN Finish("invalid")
       ELSE pc' = "prepare" /\ UNCHANGED <<attempt, result>>
    /\ UNCHANGED <<input, zabbix, delivery, http, call, outcome, dead, bindings,
                   applied, shield, mishaps>>

\* A new host of a protected name: ValidateProtectedHostPayload.
RefusedCreate(op) == op = "create" /\ Request0.name \in ProtectedNames

(* Dynamic host groups, validation against the Zabbix catalog and          *)
(* ValidateProtectedHostPayload: the request is rejected, goes on to its   *)
(* first API call, or fails.                                               *)
Prepare ==
    /\ pc = "prepare"
    /\ shield' = {n \in Names : Protected(n)}
    /\ call' = IF Request0.method = "create" THEN [NoCall EXCEPT !.op = "create"]
               ELSE NoCall
    /\ \/ Finish("rejected")
       \/ Throw
       \/ /\ ~ RefusedCreate(call'.op)
          /\ pc' = IF call'.op = "create" THEN "execute" ELSE "lookup"
          /\ UNCHANGED <<attempt, result>>
    /\ UNCHANGED <<input, zabbix, delivery, http, published, applied, mishaps>>

\* The lookup finds the host: by name in a fallback, else by the known id.
Found ==
    /\ Host.present
    /\ Request0.method \in {"merge", "plain", "delete"} => Host.gen = 1

\* The write a request leads to when its host is found.
OpOf(method) ==
    CASE method \in {"merge", "get_update", "get_upsert"} -> "update"
      [] method = "plain" -> "plain"
      [] method \in {"delete", "get_delete"} -> "delete"

\* ValidateProtectedHostMutation only looks: the request goes out unchanged.
GuardOnly == Request0.method \in {"plain", "delete"}

\* Mutant: an empty answer to host.get counts as the request's success.
LookupNotFoundIsSuccess ==
    /\ Finish("ok")
    /\ UNCHANGED call

LookupNotFound ==
    \/ /\ Request0.method = "get_upsert"
       /\ pc' = "build"
       /\ call' = [NoCall EXCEPT !.op = "create"]
       /\ UNCHANGED <<attempt, result>>
    \/ /\ GuardOnly
       /\ pc' = "execute"
       /\ call' = [op |-> OpOf(Request0.method), gen |-> 1, seen |-> {}]
       /\ UNCHANGED <<attempt, result>>
    \/ /\ Request0.method \in {"merge", "get_update", "get_delete"}
       /\ Finish("not_found")
       /\ UNCHANGED call

LookupFound ==
    /\ pc' = IF GuardOnly THEN "execute" ELSE "build"
    /\ call' = [op |-> OpOf(Request0.method), gen |-> Host.gen, seen |-> Host.tags]
    /\ UNCHANGED <<attempt, result>>

\* Mutant: the protection marks of the host found are not looked at.
LookupUnguarded ==
    /\ pc = "lookup"
    /\ \/ IF Found THEN LookupFound ELSE LookupNotFound
       \/ (Finish("error") \/ Throw) /\ UNCHANGED call
    /\ UNCHANGED <<input, zabbix, delivery, http, published, applied, shield, mishaps>>

(* host.get: the API refuses it, the call fails, or it is answered, and    *)
(* then a host with a protection mark is not touched.                      *)
Lookup ==
    /\ pc = "lookup"
    /\ \/ IF ~ Found THEN LookupNotFound
          ELSE IF Protected(Request0.name)
          THEN Finish("rejected") /\ UNCHANGED call
          ELSE LookupFound
       \/ (Finish("error") \/ Throw) /\ UNCHANGED call
    /\ UNCHANGED <<input, zabbix, delivery, http, published, applied, shield, mishaps>>

(* The request built from the lookup goes through the same resolution and  *)
(* validation; its payload may be missing from the metadata.               *)
Build ==
    /\ pc = "build"
    /\ \/ Finish("rejected")
       \/ Throw
       \/ /\ ~ RefusedCreate(call.op)
          /\ pc' = "execute"
          /\ UNCHANGED <<attempt, result>>
    /\ UNCHANGED <<input, zabbix, delivery, http, call, published, applied, shield,
                   mishaps>>

-----------------------------------------------------------------------------
\* Zabbix accepts a write of the host it names, and only one host per name.
Accepted ==
    IF call.op = "create" THEN ~ Host.present
    ELSE Host.present /\ Host.gen = call.gen

\* WriteMergedTags of the update: the tags the lookup saw go along.
MergedTags == call.seen

\* The host after the write; host.update replaces the tags.
Written ==
    CASE call.op = "create" -> [gen |-> Host.gen + 1, present |-> TRUE, tags |-> {}]
      [] call.op = "update" -> [Host EXCEPT !.tags = MergedTags]
      [] call.op = "plain"  -> Host
      [] call.op = "delete" -> Absent(Host.gen)

\* The write reaches Zabbix.
Reach ==
    IF Accepted
    THEN /\ zabbix' = [zabbix EXCEPT ![Request0.name] = Written]
         /\ applied' = applied \union
              {[msg |-> cursor, op |-> call.op, gen |-> Written.gen]}
    ELSE UNCHANGED <<zabbix, applied>>

\* Mutant: a JSON-RPC error is not told from a result.
AnsweredUnchecked ==
    /\ pc = "execute"
    /\ Reach
    /\ Finish("ok")
    /\ http' = 1
    /\ UNCHANGED <<input, delivery, call, published, shield, mishaps>>

(* ExecuteAsync is answered: a result or a JSON-RPC error, neither retried.*)
Answered ==
    /\ pc = "execute"
    /\ Reach
    /\ Finish(IF Accepted THEN "ok" ELSE "error")
    /\ http' = 1
    /\ UNCHANGED <<input, delivery, call, published, shield, mishaps>>

\* HttpClientResilienceHandler sends the call again, or gives up with `last`.
HttpRetryOr(last) ==
    \/ /\ http < HttpAttempts
       /\ http' = http + 1
       /\ UNCHANGED <<pc, attempt, result>>
    \/ http = HttpAttempts /\ last /\ http' = 1

(* The answer is lost after Zabbix received the call: the connection       *)
(* breaks, or the call times out, which HttpClientResilienceHandler does   *)
(* not retry.                                                              *)
AnswerLost ==
    /\ pc = "execute"
    /\ Reach
    /\ HttpRetryOr(Throw) \/ (Throw /\ http' = 1)
    /\ UNCHANGED <<input, delivery, call, published, shield, mishaps>>

(* The call does not get through, is turned away with a transient HTTP     *)
(* status, or finds the circuit open. The status after the last attempt is *)
(* an API error when its body is JSON, and an exception (of                *)
(* ReadZabbixHostId) when it is not.                                       *)
NotReached ==
    /\ pc = "execute"
    /\ HttpRetryOr(Finish("error")) \/ (Throw /\ http' = 1)
    /\ UNCHANGED <<input, zabbix, delivery, call, published, applied, shield,
                   mishaps>>

-----------------------------------------------------------------------------
(* An exception leaves ProcessMessageAsync: the loop moves on.             *)
Skip ==
    /\ Mishap
    /\ skipped' = skipped \union {cursor}
    /\ cursor' = cursor + 1
    /\ Leave
    /\ UNCHANGED <<recorded>>

\* PublishDeadLetterAsync, for bad JSON and exhausted attempts only.
DeadLetter ==
    /\ pc = "deadletter"
    /\ \/ /\ dead' = dead \union {cursor} /\ pc' = "respond"
          /\ UNCHANGED <<delivery, locals, mishaps>>
       \/ Skip /\ UNCHANGED dead
    /\ UNCHANGED <<input, zabbix, outcome, answered, bindings, applied>>

\* responsePublisher.PublishAsync.
Respond ==
    /\ pc = "respond"
    /\ \/ /\ outcome' = [outcome EXCEPT ![cursor] = result]
          /\ answered' = answered \union {cursor}
          /\ pc' = "bind"
          /\ UNCHANGED <<delivery, locals, mishaps>>
       \/ Skip /\ UNCHANGED <<outcome, answered>>
    /\ UNCHANGED <<input, zabbix, dead, bindings, applied>>

(* bindingEventPublisher.PublishAsync, for a write that succeeded; its     *)
(* exceptions are logged and swallowed.                                    *)
Bind ==
    /\ pc = "bind"
    /\ pc' = "record"
    /\ \/ /\ bindings' = IF result # "ok" THEN bindings
             ELSE bindings \union {[msg |-> cursor, op |-> call.op,
                    gen |-> IF call.op = "create" THEN Host.gen ELSE call.gen]}
          /\ UNCHANGED mishaps
       \/ /\ result = "ok" /\ Mishap /\ UNCHANGED bindings
    /\ UNCHANGED <<input, zabbix, delivery, attempt, http, call, result, outcome,
                   answered, dead, applied, shield>>

\* stateStore.WriteAsync.
Record ==
    /\ pc = "record"
    /\ \/ recorded' = cursor /\ pc' = "commit"
          /\ UNCHANGED <<cursor, skipped, locals, mishaps>>
       \/ Skip
    /\ UNCHANGED <<input, zabbix, published, applied>>

\* consumer.Commit(consumed), and the loop's next message.
Commit ==
    /\ pc = "commit"
    /\ \/ cursor' = cursor + 1 /\ Leave /\ UNCHANGED <<recorded, skipped, mishaps>>
       \/ Skip
    /\ UNCHANGED <<input, zabbix, published, applied>>

-----------------------------------------------------------------------------

(* The process dies or is shut down, and restarts after the message of its *)
(* state file.                                                             *)
Crash ==
    /\ Mishap
    /\ Leave
    /\ cursor' = recorded + 1
    /\ UNCHANGED <<input, zabbix, recorded, skipped, published, applied>>

(* Cancelled during its last attempt, the request becomes FromException    *)
(* and is handed to the dead-letter producer before the cancellation is    *)
(* noticed there.                                                          *)
CancelledLastAttempt ==
    /\ pc \in {"prepare", "lookup", "build", "execute"}
    /\ attempt = MaxAttempts
    /\ Mishap
    /\ dead' = dead \union {cursor}
    /\ Leave
    /\ cursor' = recorded + 1
    /\ UNCHANGED <<input, zabbix, recorded, skipped, outcome, answered, bindings,
                   applied>>

\* An administrator tags a host in Zabbix.
AdminTag(n, t) ==
    /\ Mishap
    /\ zabbix[n].present /\ t \notin zabbix[n].tags
    /\ zabbix' = [zabbix EXCEPT ![n].tags = @ \union {t}]
    /\ UNCHANGED <<input, delivery, pc, locals, published, applied>>

Next ==
    \/ Receive \/ Prepare \/ Lookup \/ Build
    \/ Answered \/ AnswerLost \/ NotReached
    \/ DeadLetter \/ Respond \/ Bind \/ Record \/ Commit
    \/ Crash \/ CancelledLastAttempt
    \/ \E n \in Names, t \in Tags : AdminTag(n, t)

Spec == Init /\ [][Next]_vars

(* The worker keeps taking its steps; an API call ends, one way or another *)
(* (HttpClient times out). No outcome of a call is promised.               *)
FairSpec ==
    /\ Spec
    /\ WF_vars(Receive) /\ WF_vars(Prepare) /\ WF_vars(Lookup) /\ WF_vars(Build)
    /\ WF_vars(Answered \/ AnswerLost \/ NotReached)
    /\ WF_vars(DeadLetter) /\ WF_vars(Respond) /\ WF_vars(Bind)
    /\ WF_vars(Record) /\ WF_vars(Commit)

-----------------------------------------------------------------------------
(* Type correctness of the worker and of the server.                       *)
TypeOK ==
    /\ input \in Inputs
    /\ zabbix \in [Names -> [gen : Nat, present : BOOLEAN, tags : SUBSET Tags]]
    /\ cursor \in 1 .. Length + 1
    /\ recorded \in 0 .. Length
    /\ pc \in {"idle", "prepare", "lookup", "build", "execute", "deadletter",
               "respond", "bind", "record", "commit"}
    /\ attempt \in 1 .. MaxAttempts
    /\ http \in 1 .. HttpAttempts
    /\ call \in [op : {"none", "create", "update", "plain", "delete"},
                 gen : Nat, seen : SUBSET Tags]
    /\ outcome \in [Messages -> Outcomes]
    /\ result \in Outcomes
    /\ dead \subseteq Messages /\ skipped \subseteq Messages
    /\ answered \subseteq Messages
    /\ shield \subseteq Names
    /\ mishaps \in 0 .. MaxMishaps

(* Retries, fallbacks and lost answers never make the worker claim more    *)
(* than it did: a response "success" and a binding event stand for a write *)
(* of that request that Zabbix carried out, on the host id it names.       *)
SuccessIsReal ==
    /\ \A i \in Messages : outcome[i] = "ok" => \E a \in applied : a.msg = i
    /\ bindings \subseteq applied

(* However a request reaches its host, by name, by id, by the create of an *)
(* upsert or after a retry, no write is under way that Zabbix would carry  *)
(* out on a host that was protected when the attempt began.                *)
ProtectedUntouched ==
    pc = "execute" /\ Accepted => Request0.name \notin shield

(* Restarts never resume past a message that has no published answer and   *)
(* was not given up with an exception.                                     *)
NothingRecordedUnanswered ==
    \A i \in Messages :
        i <= recorded => (i \in answered /\ outcome[i] # "none") \/ i \in skipped

(* Whatever was run twice or in vain, in the end Zabbix is where the       *)
(* messages say: with all of them processed, the answer "success" of the   *)
(* last message about a host describes the host Zabbix has. The exception  *)
(* is a message that was run again and whose new answer could not be       *)
(* published: its old answer stays, and may be a success that a replay of  *)
(* earlier messages has undone.                                            *)
LastAnswerHolds ==
    (pc = "idle" /\ cursor > Length) =>
        \A i \in Messages :
            (/\ outcome[i] = "ok" /\ i \in answered
             /\ \A j \in Messages : input[j].name = input[i].name => j <= i)
            => (zabbix[input[i].name].present <=>
                  input[i].method \notin {"delete", "get_delete"})

(* An update never removes a tag its own lookup saw.                       *)
SeenTagsKept ==
    [][(pc = "execute" /\ call.op = "update" /\ zabbix' # zabbix)
         => call.seen \subseteq zabbix'[Request0.name].tags]_vars

(* The retries end: with API calls free to fail without end, the attempt   *)
(* counters of the request and of its HTTP calls alone bring the worker    *)
(* through the topic, and every request is answered or was given up with a *)
(* logged exception, wherever the process was interrupted.                 *)
EveryRequestEnds ==
    <>[](/\ pc = "idle" /\ cursor > Length
         /\ \A i \in Messages : i \in answered \/ i \in skipped)

=============================================================================
