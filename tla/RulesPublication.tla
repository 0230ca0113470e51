-------------------------- MODULE RulesPublication --------------------------
(***************************************************************************)
(* The active rules file between its editors and the converter that runs   *)
(* by it: publishActiveRules and retryActiveRulesReload of monitoring-ui-  *)
(* api with their serial executor, and GitConversionRulesProvider of       *)
(* cmdbkafka2zabbix with its cache, its lock and its reload endpoint.      *)
(*                                                                         *)
(* A revision is the hash of a content, so a document is its own revision. *)
(* Replacing the file is one step: AtomicFile shows that it is. The file   *)
(* is read from disk (ConversionRules:ReadFromGit is off by default).      *)
(***************************************************************************)
EXTENDS Integers, SequencesExt

CONSTANTS
    Docs,            \* contents of the rules file
    First,           \* the one the system starts with
    Json,            \* contents that are JSON
    BffValid,        \* contents validateRulesObject accepts
    ConverterValid,  \* contents the converter loads
    Requests,        \* publish and retry requests of the editors
    Plans,           \* what they may ask: a kind and a content for each
    Callers,         \* other uses of the converter's provider
    Forced,          \* those of them that are reloads
    None,            \* no rules: cachedRules = null; no loader
    CoarseClock,     \* can two writes leave the same modification time?
    MaxEdits,        \* bound: replacements of the file by other programs
    MaxCalls,        \* bound: loads by Callers
    MaxFaults        \* bound: failed writes, unanswered reloads, restarts

ASSUME RulesAssumption ==
    /\ First \in ConverterValid
    /\ BffValid \subseteq Json /\ ConverterValid \subseteq Json
    /\ Json \subseteq Docs
    /\ Forced \subseteq Callers
    /\ Requests \cap Callers = {}
    /\ Plans \subseteq [Requests -> [kind : {"publish", "retry"}, doc : Docs]]
    /\ None \notin Docs \union Requests \union Callers
    /\ CoarseClock \in BOOLEAN
    /\ MaxEdits \in Nat /\ MaxCalls \in Nat /\ MaxFaults \in Nat

Loaders == Callers \union Requests \* a request loads through the reload endpoint

VARIABLES
    file,     \* the rules file: content, modification time and who wrote it
    request,  \* per request: what it asks and how far it is
    queue,    \* runActiveRulesOperation: requests waiting for their turn
    load,     \* per loader: its call of LoadRulesAsync
    lock,     \* the loader that holds reloadLock
    cached,   \* cachedRules and cachedLastWriteTime
    held,     \* history: contents the file had since a request's own
    during,   \* history: contents the file had during a load
    tied,     \* history: two writes left the same modification time
    edits, calls, faults

counters == <<edits, calls, faults>>
bff == <<request, queue>>
converter == <<load, lock, cached>>
history == <<held, during, tied>>
vars == <<file, bff, converter, history, counters>>

Answers == {"invalid", "conflict", "failed", "saved", "applied", "lost"}
Stages == {"new", "open", "queued", "write", "save", "reload"} \union Answers

TypeOK ==
    /\ file \in [doc : Docs, time : Nat, by : {"bff", "other"}]
    /\ request \in [Requests -> [kind : {"publish", "retry"}, doc : Docs,
                                 base : Docs \union {None}, stage : Stages]]
    /\ queue \in Seq(Requests) /\ IsInjective(queue)
    /\ load \in [Loaders -> [stage : {"idle", "waiting", "reading"}, time : Nat,
                             result : Docs \union {None}]]
    /\ lock \in Loaders \union {None}
    /\ cached \in [doc : ConverterValid \union {None}, time : Nat]
    /\ held \in [Requests -> SUBSET Docs] /\ during \in [Loaders -> SUBSET Docs]
    /\ tied \in BOOLEAN
    /\ edits \in 0 .. MaxEdits /\ calls \in 0 .. MaxCalls
    /\ faults \in 0 .. MaxFaults

Init ==
    /\ file = [doc |-> First, time |-> 1, by |-> "other"]
    /\ \E plan \in Plans :
         request = [r \in Requests |-> [kind |-> plan[r].kind, doc |-> plan[r].doc,
                                       base |-> None, stage |-> "new"]]
    /\ queue = <<>>
    /\ load = [l \in Loaders |-> [stage |-> "idle", time |-> 0, result |-> None]]
    /\ lock = None
    /\ cached = [doc |-> None, time |-> 0]
    /\ held = [r \in Requests |-> {}]
    /\ during = [l \in Loaders |-> {}]
    /\ tied = FALSE
    /\ edits = 0 /\ calls = 0 /\ faults = 0

Stage(r, s) == request' = [request EXCEPT ![r].stage = s]

\* The file gets a new content: everyone in the middle of something sees it.
Replace(d, who) ==
    /\ \E t \in {file.time + 1} \union (IF CoarseClock THEN {file.time} ELSE {}) :
         /\ file' = [doc |-> d, time |-> t, by |-> who]
         /\ tied' = (tied \/ t = file.time)
    /\ during' = [l \in Loaders |-> IF load[l].stage = "idle" THEN during[l]
                                    ELSE during[l] \union {d}]

\* Another program replaces the rules file: a deployment, an administrator.
Edit(d) ==
    /\ edits < MaxEdits
    /\ edits' = edits + 1
    /\ Replace(d, "other")
    /\ held' = [r \in Requests |-> IF request[r].stage \in {"save", "reload"}
                                   THEN held[r] \union {d} ELSE held[r]]
    /\ UNCHANGED <<bff, converter, calls, faults>>

-----------------------------------------------------------------------------
(* The BFF. *)

\* GET /api/rules/current: the editor's draft starts from the file's content.
Open(r) ==
    /\ request[r].kind = "publish" /\ request[r].stage = "new"
    /\ file.doc \in Json
    /\ request' = [request EXCEPT ![r].stage = "open", ![r].base = file.doc]
    /\ UNCHANGED <<file, queue, converter, history, counters>>

(* POST /api/rules/publish validates the draft, then queues the operation; *)
(* POST /api/rules/retry-reload only queues its own.                       *)
Submit(r) ==
    /\ request[r].stage = IF request[r].kind = "publish" THEN "open" ELSE "new"
    /\ IF request[r].kind = "publish" /\ request[r].doc \notin BffValid
       THEN Stage(r, "invalid") /\ UNCHANGED queue
       ELSE Stage(r, "queued") /\ queue' = Append(queue, r)
    /\ UNCHANGED <<file, converter, history, counters>>

\* Mutant: the operations of the editors are not serialised.
RunningAtOnce(r) == Contains(queue, r)

Running(r) == queue # <<>> /\ Head(queue) = r

\* Mutant: an operation that ends with an error never leaves the queue.
FinishOnSuccess(r, s) ==
    /\ Stage(r, s)
    /\ queue' = IF s \in {"applied", "saved"} THEN Tail(queue) ELSE queue

\* The operation ends with an answer, and the next one of the queue starts.
Finish(r, s) == Stage(r, s) /\ queue' = Tail(queue)

(* publishActiveRules reads the file again and compares it with the        *)
(* revision the draft was made from.                                       *)
Compare(r) ==
    /\ Running(r) /\ request[r].stage = "queued"
    /\ request[r].kind = "publish"
    /\ \/ /\ file.doc = request[r].base
          /\ Stage(r, "write") /\ UNCHANGED queue
       \/ /\ file.doc \in Json \ {request[r].base}
          /\ Finish(r, "conflict")
       \/ /\ file.doc \notin Json
          /\ Finish(r, "failed")
    /\ UNCHANGED <<file, converter, history, counters>>

(* writeRulesAtomically, and the call of the reload endpoint that follows: *)
(* from here on the file is the editor's.                                  *)
Write(r) ==
    /\ Running(r) /\ request[r].stage = "write"
    /\ Replace(request[r].doc, "bff")
    /\ Stage(r, "save")
    /\ held' = [held EXCEPT ![r] = {request[r].doc}]
    /\ UNCHANGED <<queue, converter, counters>>

\* writeRulesAtomically throws before its rename: the file stays as it was.
WriteFails(r) ==
    /\ Running(r) /\ request[r].stage = "write"
    /\ faults < MaxFaults
    /\ faults' = faults + 1
    /\ Finish(r, "failed")
    /\ UNCHANGED <<file, converter, history, edits, calls>>

\* retryActiveRulesReload reads the file whose revision it will answer with.
Reread(r) ==
    /\ Running(r) /\ request[r].stage = "queued"
    /\ request[r].kind = "retry"
    /\ IF file.doc \in Json
       THEN /\ request' = [request EXCEPT ![r].stage = "save", ![r].base = file.doc]
            /\ held' = [held EXCEPT ![r] = {file.doc}]
            /\ UNCHANGED queue
       ELSE Finish(r, "failed") /\ UNCHANGED held
    /\ UNCHANGED <<file, converter, during, tied, counters>>

\* The load of l begins at the provider.
Begin(l) ==
    /\ load' = [load EXCEPT ![l] = [stage |-> "waiting", time |-> 0, result |-> None]]
    /\ during' = [during EXCEPT ![l] = {file.doc}]

\* reloadServiceRules sends the request to the converter.
CallReload(r) ==
    /\ request[r].stage = "save"
    /\ Stage(r, "reload")
    /\ Begin(r)
    /\ UNCHANGED <<file, queue, lock, cached, held, tied, counters>>

Unapplied(r) == IF request[r].kind = "publish" THEN "saved" ELSE "failed"

\* The reload endpoint answers: rules loaded, or an exception.
ReloadAnswered(r) ==
    /\ request[r].stage = "reload" /\ load[r].stage = "idle"
    /\ Finish(r, IF load[r].result = None THEN Unapplied(r) ELSE "applied")
    /\ UNCHANGED <<file, converter, history, counters>>

\* No answer: the connection failed, or the ten seconds are over.
ReloadUnanswered(r) ==
    /\ request[r].stage \in {"save", "reload"}
    /\ faults < MaxFaults
    /\ faults' = faults + 1
    /\ Finish(r, Unapplied(r))
    /\ UNCHANGED <<file, converter, history, edits, calls>>

\* The BFF restarts: the operations waiting or running get no answer.
RestartBff ==
    /\ queue # <<>>
    /\ faults < MaxFaults
    /\ faults' = faults + 1
    /\ queue' = <<>>
    /\ request' = [r \in Requests |->
                     IF Contains(queue, r) THEN [request[r] EXCEPT !.stage = "lost"]
                     ELSE request[r]]
    /\ UNCHANGED <<file, converter, history, edits, calls>>

-----------------------------------------------------------------------------
(* The converter. *)

\* The worker, a status request or an operator's reload asks for the rules.
Call(c) ==
    /\ load[c].stage = "idle"
    /\ calls < MaxCalls
    /\ calls' = calls + 1
    /\ Begin(c)
    /\ UNCHANGED <<file, bff, lock, cached, held, tied, edits, faults>>

Reload(l) == l \in Forced \union Requests

Return(l, d) ==
    /\ load' = [load EXCEPT ![l] = [stage |-> "idle", time |-> 0, result |-> d]]
    /\ lock' = None

\* Mutant: a reload is answered from the cache as well.
EnterUnforced(l) ==
    /\ load[l].stage = "waiting" /\ lock = None
    /\ IF cached.doc # None /\ cached.time = file.time
       THEN Return(l, cached.doc)
       ELSE /\ lock' = l
            /\ load' = [load EXCEPT ![l].stage = "reading", ![l].time = file.time]
    /\ UNCHANGED <<file, bff, cached, history, counters>>

(* reloadLock is taken and the modification time read. A load that is not  *)
(* forced returns the cached rules if they have that time.                 *)
Enter(l) ==
    /\ load[l].stage = "waiting" /\ lock = None
    /\ IF ~Reload(l) /\ cached.doc # None /\ cached.time = file.time
       THEN Return(l, cached.doc)
       ELSE /\ lock' = l
            /\ load' = [load EXCEPT ![l].stage = "reading", ![l].time = file.time]
    /\ UNCHANGED <<file, bff, cached, history, counters>>

\* Mutant: the modification time is taken after the content was read.
ReadThenStat(l) ==
    /\ load[l].stage = "reading"
    /\ \E d \in during[l] :
         IF d \in ConverterValid
         THEN Return(l, d) /\ cached' = [doc |-> d, time |-> file.time]
         ELSE Return(l, None) /\ UNCHANGED cached
    /\ UNCHANGED <<file, bff, history, counters>>

(* The content is read, parsed, validated and cached under the time read   *)
(* before it, or an exception leaves the cache as it was.                  *)
Read(l) ==
    /\ load[l].stage = "reading"
    /\ IF file.doc \in ConverterValid
       THEN /\ Return(l, file.doc)
            /\ cached' = [doc |-> file.doc, time |-> load[l].time]
       ELSE Return(l, None) /\ UNCHANGED cached
    /\ UNCHANGED <<file, bff, history, counters>>

\* The caller of the reload endpoint is gone: its load is cancelled.
Abandon(r) ==
    /\ request[r].stage \in Answers
    /\ load[r].stage # "idle"
    /\ load' = [load EXCEPT ![r] = [stage |-> "idle", time |-> 0, result |-> None]]
    /\ lock' = IF lock = r THEN None ELSE lock
    /\ UNCHANGED <<file, bff, cached, history, counters>>

\* The converter restarts without its cache.
RestartConverter ==
    /\ faults < MaxFaults
    /\ faults' = faults + 1
    /\ load' = [l \in Loaders |->
                  IF load[l].stage = "idle" THEN load[l]
                  ELSE [stage |-> "idle", time |-> 0, result |-> None]]
    /\ lock' = None
    /\ cached' = [doc |-> None, time |-> 0]
    /\ UNCHANGED <<file, bff, history, edits, calls>>

Next ==
    \/ \E d \in Docs : Edit(d)
    \/ \E r \in Requests :
         \/ Open(r) \/ Submit(r) \/ Compare(r) \/ Write(r) \/ WriteFails(r)
         \/ Reread(r) \/ CallReload(r) \/ ReloadAnswered(r) \/ ReloadUnanswered(r)
         \/ Abandon(r)
    \/ \E c \in Callers : Call(c)
    \/ \E l \in Loaders : Enter(l) \/ Read(l)
    \/ RestartBff \/ RestartConverter

Spec == Init /\ [][Next]_vars

(* The operation whose turn it is goes on, and so does some load that can: *)
(* promises are settled and the lock is passed on. Editors, other programs *)
(* and failures do as they like.                                           *)
Operate(r) == Compare(r) \/ Write(r) \/ Reread(r) \/ CallReload(r) \/ ReloadAnswered(r)

Fairness ==
    /\ WF_vars(\E r \in Requests : Operate(r))
    /\ WF_vars(\E l \in Loaders : Enter(l) \/ Read(l))

FairSpec == Spec /\ Fairness

-----------------------------------------------------------------------------
(* GetRulesAsync never runs the converter by stale rules: what a load      *)
(* returns was the content of the file at some moment during that load.    *)
(* The two reads of the file and the cache together are as good as one     *)
(* read, as long as no two writes left the same modification time.         *)
LoadsAreCurrent ==
    ~tied => \A l \in Loaders :
        load[l].stage = "idle" => load[l].result \in during[l] \union {None}

(* An editor who is told "applied" has the converter on the file he wrote  *)
(* or, for a retry, on the file whose revision he is told, or on a file    *)
(* that replaced it meanwhile: whatever the clock and the cache did.       *)
AppliedIsLoaded ==
    \A r \in Requests :
        request[r].stage = "applied" => load[r].result \in held[r]

(* PROJECT_DOCUMENTATION.en.md:260: no editor writes over the work of      *)
(* another. What a publication replaces is the very content its draft was  *)
(* made from, unless another program placed the file.                      *)
PublishesOverRead ==
    [][\A r \in Requests : Write(r) =>
           file.by = "other" \/ file.doc = request[r].base]_vars

(* Every operation given to the serial executor is answered, or its        *)
(* connection lost in a restart: one that fails does not stop the queue.   *)
EveryOperationEnds ==
    \A r \in Requests :
        request[r].stage = "queued" ~> request[r].stage \in Answers
=============================================================================
