------------------------ MODULE ZabbixRequests_proofs ------------------------
(***************************************************************************)
(* What the worker says of Zabbix is so, and what was protected stays      *)
(* untouched, for any requests, hosts, tags, numbers of attempts and       *)
(* numbers of mishaps. The inductive invariant follows one request through *)
(* its attempt: what its lookup knew, what its write may meet, and what is *)
(* left to publish. Then the circuit breaker of HttpResilience, and the    *)
(* merge of HostUpdateMerge, whose states are apart from that of the       *)
(* requests.                                                               *)
(***************************************************************************)
EXTENDS ZabbixRequests, HttpResilience, HostUpdateMerge, FiniteSetTheorems, TLAPS

Hosts == [gen : Nat, present : BOOLEAN, tags : SUBSET Tags]
Calls == [op : {"none", "create", "update", "plain", "delete"},
          gen : Nat, seen : SUBSET Tags]

\* A step of the program counter needs a message, and a write its kind.
StageInv ==
    /\ pc # "idle" => cursor \in Messages
    /\ pc \in {"prepare", "lookup", "build", "execute"} =>
         Request0.method # "malformed"
    /\ pc = "lookup" => Request0.method # "create"
    /\ pc \in {"build", "execute"} => call.op # "none"
    /\ pc = "deadletter" => result \in {"exhausted", "invalid"}
    /\ pc \in {"respond", "bind"} => result # "none"

\* The fields of a host.
LEMMA HostFields ==
  ASSUME NEW h \in Hosts
  PROVE  h.gen \in Nat /\ h.present \in BOOLEAN /\ h.tags \subseteq Tags
  BY DEF Hosts

\* The fields of an API write.
LEMMA CallFields ==
  ASSUME NEW c \in Calls
  PROVE  /\ c.op \in {"none", "create", "update", "plain", "delete"}
         /\ c.gen \in Nat /\ c.seen \subseteq Tags
  BY DEF Calls

\* A record of these fields is an API write.
LEMMA CallIntro ==
  ASSUME NEW o \in {"none", "create", "update", "plain", "delete"},
         NEW g \in Nat, NEW s \in SUBSET Tags
  PROVE  [op |-> o, gen |-> g, seen |-> s] \in Calls
  BY DEF Calls

\* A record of these fields is a host.
LEMMA HostIntro ==
  ASSUME NEW g \in Nat, NEW p \in BOOLEAN, NEW s \in SUBSET Tags
  PROVE  [gen |-> g, present |-> p, tags |-> s] \in Hosts
  BY DEF Hosts

\* A request of the topic has a method and a host.
LEMMA RequestFields ==
  ASSUME NEW q \in Inputs, NEW i \in Messages
  PROVE  q[i].method \in AllMethods /\ q[i].name \in Names
  BY RequestAssumption DEF Request

-----------------------------------------------------------------------------
\* Initially nothing is under way, and Zabbix has any hosts and tags.
LEMMA InitType == Init => TypeOK /\ StageInv
<1> SUFFICES ASSUME Init PROVE TypeOK /\ StageInv
  OBVIOUS
<1> USE RequestAssumption
<1>1. zabbix \in [Names -> Hosts]
  <2>1. Absent(0) \in Hosts
    BY HostIntro DEF Absent
  <2>2. \A T \in SUBSET Tags : [gen |-> 1, present |-> TRUE, tags |-> T] \in Hosts
    BY HostIntro
  <2>3. {Absent(0)} \union {[gen |-> 1, present |-> TRUE, tags |-> T] : T \in SUBSET Tags}
          \subseteq Hosts
    BY <2>1, <2>2
  <2> HIDE DEF Hosts
  <2>4. QED
    BY <2>3 DEF Init
<1>2. call \in Calls
  BY CallIntro DEF Init, NoCall
<1>3. QED
  BY <1>1, <1>2 DEF Init, TypeOK, StageInv, Hosts, Calls, Outcomes, Messages

\* What a step finds at the message being processed.
LEMMA AtMessage ==
  ASSUME TypeOK, cursor \in Messages
  PROVE  /\ Request0.method \in AllMethods /\ Request0.name \in Names
         /\ Host \in Hosts /\ call \in Calls
         /\ zabbix \in [Names -> Hosts]
  BY RequestFields DEF TypeOK, Request0, Host, Hosts, Calls

\* The host after an API write is a host.
LEMMA WrittenHost ==
  ASSUME TypeOK, cursor \in Messages, call.op # "none"
  PROVE  Written \in Hosts
<1>1. call.seen \subseteq Tags /\ call.op \in {"create", "update", "plain", "delete"}
  BY AtMessage, CallFields
<1>2. Host.gen \in Nat /\ Host.present \in BOOLEAN /\ Host.tags \subseteq Tags
  BY AtMessage, HostFields
<1>3. Host \in Hosts
  BY AtMessage
<1>4. CASE call.op = "create"
  <2>1. Host.gen + 1 \in Nat
    BY <1>2
  <2>2. [gen |-> Host.gen + 1, present |-> TRUE, tags |-> {}] \in Hosts
    BY <2>1, HostIntro
  <2>3. QED
    BY <2>2, <1>4 DEF Written
<1>5. CASE call.op = "update"
  <2>1. [Host EXCEPT !.tags = MergedTags] \in Hosts
    BY <1>1, <1>3 DEF Hosts, MergedTags
  <2>2. QED
    BY <2>1, <1>5 DEF Written
<1>6. CASE call.op = "plain"
  BY <1>6, <1>3 DEF Written
<1>7. CASE call.op = "delete"
  BY <1>7, <1>2, HostIntro DEF Written, Absent
<1>8. QED
  BY <1>1, <1>4, <1>5, <1>6, <1>7

\* Zabbix holds hosts after a write, whether it accepts it or not.
LEMMA ReachType ==
  ASSUME TypeOK, cursor \in Messages, call.op # "none", Reach
  PROVE  zabbix' \in [Names -> Hosts]
<1> HIDE DEF Hosts
<1>1. QED
  BY WrittenHost, AtMessage DEF Reach

\* Every step keeps the types of the server and of the call.
LEMMA ServerType ==
  TypeOK /\ StageInv /\ [Next]_vars => zabbix' \in [Names -> Hosts] /\ call' \in Calls
<1> SUFFICES ASSUME TypeOK, StageInv, [Next]_vars
             PROVE  zabbix' \in [Names -> Hosts] /\ call' \in Calls
  OBVIOUS
<1>0. zabbix \in [Names -> Hosts] /\ call \in Calls /\ NoCall \in Calls
  BY CallIntro DEF TypeOK, Hosts, Calls, NoCall
<1>a. ASSUME NEW o \in {"none", "create", "update", "plain", "delete"}
      PROVE  [NoCall EXCEPT !.op = o] \in Calls
  BY DEF Calls, NoCall
<1>1. CASE UNCHANGED <<zabbix, call>>
  BY <1>1, <1>0
<1>2. CASE UNCHANGED zabbix /\ call' \in {NoCall, [NoCall EXCEPT !.op = "create"]}
  BY <1>2, <1>0, <1>a
<1>3. CASE Lookup
  <2>1. cursor \in Messages /\ Request0.method \in AllMethods \ {"create", "malformed"}
    BY <1>3, AtMessage DEF Lookup, StageInv
  <2>2. Host.gen \in Nat /\ Host.tags \subseteq Tags
    BY <2>1, AtMessage, HostFields
  <2>3. OpOf(Request0.method) \in {"update", "plain", "delete"}
    BY <2>1 DEF OpOf, AllMethods
  <2>4. CASE LookupFound
    BY <2>4, <2>2, <2>3, CallIntro, <1>3, <1>0 DEF LookupFound, Lookup
  <2>5. CASE LookupNotFound
    BY <2>5, <2>3, CallIntro, <1>3, <1>0, <1>a DEF LookupNotFound, Lookup
  <2>6. QED
    BY <1>3, <2>4, <2>5, <1>0 DEF Lookup, Throw
<1>4. CASE Answered \/ AnswerLost
  BY <1>4, <1>0, ReachType DEF Answered, AnswerLost, StageInv
<1>5. ASSUME NEW n \in Names, NEW t \in Tags, AdminTag(n, t)
      PROVE  zabbix' \in [Names -> Hosts] /\ call' \in Calls
  <2>1. [zabbix[n] EXCEPT !.tags = @ \union {t}] \in Hosts
    BY <1>0, HostFields DEF Hosts
  <2>2. QED
    BY <1>5, <2>1, <1>0 DEF AdminTag, locals
<1>6. QED
  BY <1>1, <1>2, <1>3, <1>4, <1>5
     DEF Next, vars, Receive, Prepare, Build, NotReached, DeadLetter, Respond, Bind,
         Record, Commit, Crash, CancelledLastAttempt, Skip, Leave, locals, delivery,
         published

-----------------------------------------------------------------------------
\* What TypeOK says of the rest of the worker.
WorkerType ==
    /\ input \in Inputs
    /\ cursor \in 1 .. Length + 1
    /\ recorded \in 0 .. Length
    /\ pc \in {"idle", "prepare", "lookup", "build", "execute", "deadletter",
               "respond", "bind", "record", "commit"}
    /\ attempt \in 1 .. MaxAttempts
    /\ http \in 1 .. HttpAttempts
    /\ outcome \in [Messages -> Outcomes]
    /\ result \in Outcomes
    /\ dead \subseteq Messages /\ skipped \subseteq Messages
    /\ answered \subseteq Messages
    /\ shield \subseteq Names
    /\ mishaps \in 0 .. MaxMishaps

\* The type invariant, with the records apart.
LEMMA TypeParts == TypeOK <=> /\ zabbix \in [Names -> Hosts] /\ call \in Calls
                              /\ WorkerType
  BY DEF TypeOK, WorkerType, Hosts, Calls

\* A step of the processing before its result is published.
LEMMA AttemptType ==
  WorkerType /\ StageInv
    /\ (Receive \/ Prepare \/ Lookup \/ Build \/ Answered \/ AnswerLost \/ NotReached)
  => WorkerType'
<1> SUFFICES ASSUME WorkerType, StageInv,
                    Receive \/ Prepare \/ Lookup \/ Build \/ Answered \/ AnswerLost
                      \/ NotReached
             PROVE  WorkerType'
  OBVIOUS
<1> USE RequestAssumption DEF WorkerType, Outcomes
<1>1. CASE Receive
  BY <1>1 DEF Receive, Finish, delivery, Messages
<1>2. CASE Prepare
  BY <1>2 DEF Prepare, Finish, Throw, delivery, published
<1>3. CASE Lookup
  BY <1>3 DEF Lookup, LookupFound, LookupNotFound, Finish, Throw, delivery,
              published
<1>4. CASE Build
  BY <1>4 DEF Build, Finish, Throw, delivery, published
<1>5. CASE Answered
  BY <1>5 DEF Answered, Finish, delivery, published
<1>6. CASE AnswerLost
  BY <1>6 DEF AnswerLost, HttpRetryOr, Finish, Throw, delivery, published
<1>7. CASE NotReached
  BY <1>7 DEF NotReached, HttpRetryOr, Finish, Throw, delivery, published
<1>8. QED
  BY <1>1, <1>2, <1>3, <1>4, <1>5, <1>6, <1>7

\* A step of the publication, an interruption, or a step of an administrator.
LEMMA DeliveryType ==
  WorkerType /\ StageInv
    /\ (DeadLetter \/ Respond \/ Bind \/ Record \/ Commit \/ Crash
          \/ CancelledLastAttempt \/ (\E n \in Names, t \in Tags : AdminTag(n, t))
          \/ UNCHANGED vars)
  => WorkerType'
<1> SUFFICES ASSUME WorkerType, StageInv,
                    DeadLetter \/ Respond \/ Bind \/ Record \/ Commit \/ Crash
                      \/ CancelledLastAttempt
                      \/ (\E n \in Names, t \in Tags : AdminTag(n, t))
                      \/ UNCHANGED vars
             PROVE  WorkerType'
  OBVIOUS
<1>a. pc # "idle" => /\ cursor \in Messages /\ cursor + 1 \in 1 .. Length + 1
                     /\ cursor \in 0 .. Length
  BY RequestAssumption DEF WorkerType, StageInv, Messages
<1>b. recorded + 1 \in 1 .. Length + 1
  BY RequestAssumption DEF WorkerType
<1>c. 1 \in 1 .. MaxAttempts /\ 1 \in 1 .. HttpAttempts
  BY RequestAssumption
<1>d. Mishap => mishaps' \in 0 .. MaxMishaps
  BY RequestAssumption DEF WorkerType, Mishap
<1> USE <1>a, <1>b, <1>c, <1>d DEF WorkerType
<1>1. CASE DeadLetter
  BY <1>1 DEF DeadLetter, Skip, Leave, delivery, locals, Outcomes
<1>2. CASE Respond
  BY <1>2 DEF Respond, Skip, Leave, delivery, locals, Outcomes
<1>3. CASE Bind
  BY <1>3 DEF Bind, delivery
<1>4. CASE Record
  BY <1>4 DEF Record, Skip, Leave, published, locals, Outcomes
<1>5. CASE Commit
  BY <1>5 DEF Commit, Skip, Leave, published, Outcomes
<1>6. CASE Crash \/ CancelledLastAttempt
  BY <1>6 DEF Crash, CancelledLastAttempt, Leave, published, Outcomes
<1>7. CASE (\E n \in Names, t \in Tags : AdminTag(n, t)) \/ UNCHANGED vars
  BY <1>7 DEF AdminTag, vars, delivery, locals, published
<1>8. QED
  BY <1>1, <1>2, <1>3, <1>4, <1>5, <1>6, <1>7

\* Every step keeps the types.
LEMMA NextType == TypeOK /\ StageInv /\ [Next]_vars => TypeOK'
<1> SUFFICES ASSUME TypeOK, StageInv, [Next]_vars PROVE TypeOK'
  OBVIOUS
<1>1. WorkerType'
  BY TypeParts, AttemptType, DeliveryType DEF Next
<1>2. zabbix' \in [Names -> Hosts] /\ call' \in Calls
  BY ServerType
<1>3. QED
  BY <1>1, <1>2 DEF TypeOK, WorkerType, Hosts, Calls

\* Every step goes to a stage that its message and its call allow.
LEMMA NextStage == TypeOK /\ StageInv /\ [Next]_vars => StageInv'
<1> SUFFICES ASSUME TypeOK, StageInv, [Next]_vars PROVE StageInv'
  OBVIOUS
<1> USE RequestAssumption DEF TypeOK, StageInv
<1>1. CASE Receive
  BY <1>1 DEF Receive, Finish, delivery, Messages, Request0
<1>2. CASE Prepare
  BY <1>2 DEF Prepare, Finish, Throw, delivery, NoCall, Request0
<1>3. CASE Lookup
  <2>1. Request0.method \in AllMethods \ {"create", "malformed"}
    BY <1>3, AtMessage DEF Lookup
  <2>2. OpOf(Request0.method) # "none"
    BY <2>1 DEF OpOf, AllMethods
  <2>3. QED
    BY <1>3, <2>1, <2>2 DEF Lookup, LookupFound, LookupNotFound, Finish, Throw,
       delivery, NoCall, Request0
<1>4. CASE Build
  BY <1>4 DEF Build, Finish, Throw, delivery, Request0
<1>5. CASE Answered
  BY <1>5 DEF Answered, Finish, delivery, Request0
<1>6. CASE AnswerLost \/ NotReached
  BY <1>6 DEF AnswerLost, NotReached, HttpRetryOr, Finish, Throw, delivery,
              Request0
<1>7. CASE DeadLetter \/ Respond \/ Bind \/ Record \/ Commit
  BY <1>7 DEF DeadLetter, Respond, Bind, Record, Commit, Skip, Leave, delivery,
              locals, Request0
<1>8. CASE Crash \/ CancelledLastAttempt
  BY <1>8 DEF Crash, CancelledLastAttempt, Leave
<1>9. CASE (\E n \in Names, t \in Tags : AdminTag(n, t)) \/ UNCHANGED vars
  BY <1>9 DEF AdminTag, vars, delivery, locals, Request0
<1>10. QED
  BY <1>1, <1>2, <1>3, <1>4, <1>5, <1>6, <1>7, <1>8, <1>9 DEF Next

-----------------------------------------------------------------------------
\* What is known of a shielded host at each stage: the lookup still sees its
\* mark, and a write of it is refused by the validation or by Zabbix.
ShieldInv ==
    /\ \A n \in Names : zabbix[n].present \/ zabbix[n].tags = {}
    /\ pc = "lookup" => \A n \in shield : Protected(n)
    /\ pc = "build" /\ Request0.name \in shield => RefusedCreate(call.op)
    /\ pc = "execute" /\ Request0.name \in shield => ~ Accepted

\* A step that leaves the request and its host alone.
LEMMA ShieldQuiet ==
  ShieldInv /\ UNCHANGED <<input, zabbix, cursor, shield, call, pc>> => ShieldInv'
  BY DEF ShieldInv, Protected, Request0, RefusedCreate, Accepted, Host

\* A step that leaves the attempt, and Zabbix alone.
LEMMA ShieldLeft ==
  ShieldInv /\ UNCHANGED zabbix /\ pc' \notin {"lookup", "build", "execute"}
  => ShieldInv'
  BY DEF ShieldInv

\* An API write leaves a host with tags only where it leaves a host.
LEMMA ReachShield ==
  ASSUME TypeOK, StageInv, ShieldInv, pc = "execute", Reach
  PROVE  \A n \in Names : zabbix'[n].present \/ zabbix'[n].tags = {}
<1>1. cursor \in Messages /\ Request0.name \in Names
  BY AtMessage DEF StageInv
<1>2. call.op \in {"create", "update", "plain", "delete"}
  BY <1>1, AtMessage, CallFields DEF StageInv
<1>3. Accepted => Written.present \/ Written.tags = {}
  BY <1>2, <1>1, AtMessage DEF Written, Accepted, Absent, Hosts
<1>4. QED
  BY <1>1, <1>3, AtMessage DEF Reach, ShieldInv

\* Every step keeps protected hosts out of the writes under way.
LEMMA NextShield == TypeOK /\ StageInv /\ ShieldInv /\ [Next]_vars => ShieldInv'
<1> SUFFICES ASSUME TypeOK, StageInv, ShieldInv, [Next]_vars PROVE ShieldInv'
  OBVIOUS
<1>1. CASE Receive
  BY <1>1, ShieldLeft DEF Receive, Finish
<1>2. CASE Prepare
  <2>1. CASE pc' \notin {"lookup", "build", "execute"}
    BY <1>2, <2>1, ShieldLeft DEF Prepare
  <2>2. CASE pc' = "lookup"
    BY <1>2, <2>2 DEF Prepare, ShieldInv, Protected
  <2>3. CASE pc' \in {"build", "execute"}
    <3>1. /\ pc' = "execute" /\ call'.op = "create" /\ UNCHANGED <<zabbix, input, cursor>>
          /\ ~ RefusedCreate(call'.op) /\ shield' = {n \in Names : Protected(n)}
      BY <1>2, <2>3 DEF Prepare, Finish, Throw, delivery
    <3>2. Request0.name \in shield' => Host.present
      BY <3>1 DEF RefusedCreate, Protected, ShieldInv, Host
    <3>3. QED
      BY <3>1, <3>2 DEF ShieldInv, Accepted, Host, Request0
  <2>4. QED
    BY <2>1, <2>2, <2>3
<1>3. CASE Lookup
  <2>1. UNCHANGED <<zabbix, input, cursor, shield>> /\ pc = "lookup"
    BY <1>3 DEF Lookup, delivery
  <2>2. CASE pc' \notin {"build", "execute"}
    <3>1. pc' # "lookup"
      BY <1>3, <2>2 DEF Lookup, LookupFound, LookupNotFound, Finish, Throw
    <3>2. QED
      BY <2>1, <2>2, <3>1, ShieldLeft
  <2>3. CASE Found /\ ~ Protected(Request0.name)
    <3>1. Request0.name \notin shield
      BY <2>1, <2>3 DEF ShieldInv
    <3>2. pc' # "lookup"
      BY <1>3, <2>3 DEF Lookup, LookupFound, Finish, Throw
    <3>3. QED
      BY <2>1, <3>1, <3>2 DEF ShieldInv, Request0
  <2>4. CASE ~ Found /\ LookupNotFound /\ pc' = "build"
    <3>1. /\ Request0.method = "get_upsert" /\ ~ Host.present
          /\ call'.op = "create"
      BY <2>4 DEF LookupNotFound, GuardOnly, Finish, Found, NoCall
    <3>2. Request0.name \in shield => Request0.name \in ProtectedNames
      BY <2>1, <3>1, AtMessage DEF ShieldInv, Protected, Host, StageInv
    <3>3. QED
      BY <2>1, <2>4, <3>1, <3>2 DEF ShieldInv, RefusedCreate, Request0
  <2>5. CASE ~ Found /\ LookupNotFound /\ pc' = "execute"
    <3>1. /\ ~ (Host.present /\ Host.gen = 1)
          /\ call'.gen = 1 /\ call'.op = OpOf(Request0.method)
          /\ Request0.method \in {"plain", "delete"}
      BY <2>5 DEF LookupNotFound, GuardOnly, Finish, Found
    <3>2. call'.op # "create"
      BY <3>1 DEF OpOf
    <3>3. QED
      BY <2>1, <2>5, <3>1, <3>2 DEF ShieldInv, Accepted, Host, Request0
  <2>6. QED
    BY <1>3, <2>2, <2>3, <2>4, <2>5
       DEF Lookup, LookupNotFound, GuardOnly, Finish, Throw
<1>4. CASE Build
  <2>1. /\ UNCHANGED <<zabbix, input, cursor, shield, call>> /\ pc = "build"
        /\ pc' \in {"build", "lookup", "execute"} =>
             pc' = "execute" /\ ~ RefusedCreate(call.op)
    BY <1>4 DEF Build, Finish, Throw, delivery
  <2>2. QED
    BY <2>1, ShieldLeft DEF ShieldInv, Request0
<1>5. CASE Answered
  BY <1>5, ReachShield DEF Answered, Finish, ShieldInv
<1>6. CASE AnswerLost
  <2>1. /\ UNCHANGED <<input, cursor, shield, call>> /\ pc = "execute" /\ Reach
        /\ pc' \in {"build", "lookup", "execute"} => pc' = "execute"
    BY <1>6 DEF AnswerLost, HttpRetryOr, Throw, Finish, delivery
  <2>2. Request0.name \in shield => UNCHANGED zabbix
    BY <2>1 DEF ShieldInv, Reach
  <2>3. \A n \in Names : zabbix'[n].present \/ zabbix'[n].tags = {}
    BY <2>1, ReachShield
  <2>4. CASE Request0.name \in shield
    BY <2>1, <2>2, <2>4 DEF ShieldInv, Accepted, Host, Request0
  <2>5. CASE Request0.name \notin shield
    BY <2>1, <2>3, <2>5 DEF ShieldInv, Request0
  <2>6. QED
    BY <2>4, <2>5
<1>7. CASE NotReached
  <2>1. /\ UNCHANGED <<input, zabbix, cursor, shield, call>>
        /\ pc = "execute"
        /\ pc' \in {"build", "lookup", "execute"} => pc' = pc
    BY <1>7 DEF NotReached, HttpRetryOr, Throw, Finish, delivery
  <2>2. CASE pc' = pc
    BY <2>1, <2>2, ShieldQuiet
  <2>3. CASE pc' \notin {"build", "lookup", "execute"}
    BY <2>1, <2>3, ShieldLeft
  <2>4. QED
    BY <2>1, <2>2, <2>3
<1>8. CASE DeadLetter \/ Respond \/ Bind \/ Record \/ Commit
  BY <1>8, ShieldLeft DEF DeadLetter, Respond, Bind, Record, Commit, Skip, Leave
<1>9. CASE Crash \/ CancelledLastAttempt
  BY <1>9, ShieldLeft DEF Crash, CancelledLastAttempt, Leave
<1>10. ASSUME NEW n \in Names, NEW t \in Tags, AdminTag(n, t) PROVE ShieldInv'
  <2>1. /\ UNCHANGED <<input, cursor, shield, call, pc>>
        /\ zabbix[n].present
        /\ zabbix' = [zabbix EXCEPT ![n].tags = @ \union {t}]
    BY <1>10 DEF AdminTag, delivery, locals
  <2>2. \A m \in Names : /\ zabbix'[m].present <=> zabbix[m].present
                         /\ zabbix'[m].gen = zabbix[m].gen
                         /\ zabbix[m].tags \subseteq zabbix'[m].tags
                         /\ zabbix'[m].present \/ zabbix'[m].tags = zabbix[m].tags
    BY <2>1 DEF TypeOK
  <2>3. pc \in {"build", "execute"} => Request0.name \in Names
    BY AtMessage DEF StageInv
  <2>4. shield \subseteq Names
    BY DEF TypeOK
  <2>5. QED
    BY <2>1, <2>2, <2>3, <2>4
       DEF ShieldInv, Protected, RefusedCreate, Accepted, Host, Request0
<1>11. CASE UNCHANGED vars
  BY <1>11, ShieldQuiet DEF vars, locals, delivery
<1>12. QED
  BY <1>1, <1>2, <1>3, <1>4, <1>5, <1>6, <1>7, <1>8, <1>9, <1>10, <1>11 DEF Next

-----------------------------------------------------------------------------
\* The write that answers the message being processed.
Evidence ==
    [msg |-> cursor, op |-> call.op,
     gen |-> IF call.op = "create" THEN Host.gen ELSE call.gen]

\* A success not yet published is in evidence, as those published are.
SuccessInv ==
    /\ pc \in {"respond", "bind"} /\ result = "ok" => Evidence \in applied
    /\ SuccessIsReal

\* A step that publishes nothing keeps what was claimed.
LEMMA SuccessQuiet ==
  /\ SuccessInv
  /\ pc' \in {"respond", "bind"} /\ result' = "ok" => Evidence' \in applied'
  /\ UNCHANGED <<outcome, bindings>> /\ applied \subseteq applied'
  => SuccessInv'
  BY DEF SuccessInv, SuccessIsReal

\* A write that Zabbix accepts is the evidence of its success.
LEMMA ReachEvidence ==
  ASSUME TypeOK, StageInv, pc = "execute", Reach, Accepted,
         UNCHANGED <<input, cursor, call>>
  PROVE  Evidence' \in applied'
<1>1. cursor \in Messages /\ Request0.name \in Names
  BY AtMessage DEF StageInv
<1>2. call.op \in {"create", "update", "plain", "delete"}
  BY <1>1, AtMessage, CallFields DEF StageInv
<1>3. Host' = Written
  BY <1>1, AtMessage DEF Reach, Host, Request0
<1>4. Written.gen = IF call.op = "create" THEN Written.gen ELSE call.gen
  <2>1. CASE call.op = "create"
    BY <2>1
  <2>2. CASE call.op = "update"
    BY <2>2, <1>1, AtMessage DEF Written, Accepted, Hosts
  <2>3. CASE call.op = "plain"
    BY <2>3 DEF Written, Accepted
  <2>4. CASE call.op = "delete"
    BY <2>4 DEF Written, Accepted, Absent
  <2>5. QED
    BY <1>2, <2>1, <2>2, <2>3, <2>4
<1>5. Evidence' = [msg |-> cursor, op |-> call.op, gen |-> Written.gen]
  BY <1>3, <1>4 DEF Evidence
<1>6. QED
  BY <1>5 DEF Reach

\* Every step keeps successes backed by writes.
LEMMA NextSuccess == TypeOK /\ StageInv /\ SuccessInv /\ [Next]_vars => SuccessInv'
<1> SUFFICES ASSUME TypeOK, StageInv, SuccessInv, [Next]_vars PROVE SuccessInv'
  OBVIOUS
<1>1. CASE Receive
  <2>1. UNCHANGED <<outcome, bindings, applied>> /\ pc' \notin {"respond", "bind"}
    BY <1>1 DEF Receive, Finish
  <2>2. QED
    BY <2>1, SuccessQuiet
<1>2. CASE Prepare \/ Build \/ NotReached
  <2>1. UNCHANGED <<outcome, bindings, applied>> /\ (pc' = "respond" => result' # "ok")
        /\ pc' # "bind"
    BY <1>2 DEF Prepare, Build, NotReached, HttpRetryOr, Finish, Throw, published
  <2>2. QED
    BY <2>1, SuccessQuiet
<1>3. CASE Lookup
  <2>1. UNCHANGED <<outcome, bindings, applied>> /\ (pc' = "respond" => result' # "ok")
        /\ pc' # "bind"
    BY <1>3 DEF Lookup, LookupFound, LookupNotFound, Finish, Throw, published
  <2>2. QED
    BY <2>1, SuccessQuiet
<1>4. CASE Answered
  <2>1. /\ UNCHANGED <<outcome, bindings, input, cursor, call>>
        /\ pc = "execute" /\ Reach /\ pc' # "bind"
        /\ result' = "ok" => Accepted
    BY <1>4 DEF Answered, Finish, published, delivery
  <2>2. applied \subseteq applied'
    BY <2>1 DEF Reach
  <2>3. result' = "ok" => Evidence' \in applied'
    BY <2>1, ReachEvidence
  <2>4. QED
    BY <2>1, <2>2, <2>3, SuccessQuiet
<1>5. CASE AnswerLost
  <2>1. /\ UNCHANGED <<outcome, bindings>> /\ Reach
        /\ pc' \notin {"respond", "bind"}
    BY <1>5 DEF AnswerLost, HttpRetryOr, Throw, Finish, published
  <2>2. applied \subseteq applied'
    BY <2>1 DEF Reach
  <2>3. QED
    BY <2>1, <2>2, SuccessQuiet
<1>6. CASE DeadLetter
  <2>1. /\ UNCHANGED <<outcome, bindings, applied>> /\ pc' # "bind"
        /\ pc' = "respond" => result' # "ok"
    BY <1>6 DEF DeadLetter, Skip, Leave, locals, StageInv
  <2>2. QED
    BY <2>1, SuccessQuiet
<1>7. CASE Respond
  <2>1. UNCHANGED <<input, zabbix, bindings, applied>> /\ pc' # "respond"
    BY <1>7 DEF Respond, Skip, Leave
  <2>2. CASE pc' = "bind"
    <3>1. /\ UNCHANGED <<input, zabbix, cursor, call, result>>
          /\ pc = "respond" /\ outcome' = [outcome EXCEPT ![cursor] = result]
      BY <1>7, <2>2 DEF Respond, Skip, Leave, delivery, locals
    <3>2. result = "ok" => Evidence \in applied /\ Evidence.msg = cursor
      BY <3>1 DEF SuccessInv, Evidence
    <3>3. result' = "ok" => Evidence' \in applied'
      BY <3>1, <3>2, <2>1 DEF Evidence, Host, Request0
    <3>4. QED
      BY <2>1, <3>1, <3>2, <3>3 DEF SuccessInv, SuccessIsReal, TypeOK
  <2>3. CASE pc' # "bind"
    BY <1>7, <2>1, <2>3, SuccessQuiet DEF Respond, Skip
  <2>4. QED
    BY <2>2, <2>3
<1>8. CASE Bind
  <2>1. UNCHANGED <<outcome, applied>> /\ pc' = "record" /\ pc = "bind"
        /\ (bindings' = bindings \/ (result = "ok" /\ bindings' = bindings \union {Evidence}))
    BY <1>8 DEF Bind, Evidence
  <2>2. bindings' \subseteq applied
    BY <2>1 DEF SuccessInv, SuccessIsReal
  <2>3. QED
    BY <2>1, <2>2 DEF SuccessInv, SuccessIsReal
<1>9. CASE Record \/ Commit \/ Crash \/ CancelledLastAttempt
  <2>1. UNCHANGED <<outcome, bindings, applied>> /\ pc' \notin {"respond", "bind"}
    BY <1>9 DEF Record, Commit, Crash, CancelledLastAttempt, Skip, Leave, published
  <2>2. QED
    BY <2>1, SuccessQuiet
<1>10. ASSUME NEW n \in Names, NEW t \in Tags, AdminTag(n, t) PROVE SuccessInv'
  <2>1. /\ UNCHANGED <<input, cursor, call, pc, result, outcome, bindings, applied>>
        /\ zabbix' = [zabbix EXCEPT ![n].tags = @ \union {t}]
    BY <1>10 DEF AdminTag, delivery, locals, published
  <2>2. pc \in {"respond", "bind"} => Host'.gen = Host.gen
    BY <2>1, AtMessage DEF Host, Request0, StageInv, Hosts
  <2>3. pc \in {"respond", "bind"} => Evidence' = Evidence
    BY <2>1, <2>2 DEF Evidence
  <2>4. QED
    BY <2>1, <2>3, SuccessQuiet DEF SuccessInv
<1>11. CASE UNCHANGED vars
  BY <1>11 DEF vars, SuccessInv, SuccessIsReal, Evidence, Host, Request0, locals,
               delivery, published
<1>12. QED
  BY <1>1, <1>2, <1>3, <1>4, <1>5, <1>6, <1>7, <1>8, <1>9, <1>10, <1>11 DEF Next

-----------------------------------------------------------------------------
\* The latest run of message i has published its answer.
Replied(i) == i \in answered /\ outcome[i] # "none"

\* What is behind the cursor was answered or given up, and the file of the
\* processing state is not ahead of it.
AnswerInv ==
    /\ recorded < cursor \/ (pc = "commit" /\ recorded = cursor)
    /\ \A i \in Messages : i < cursor => Replied(i) \/ i \in skipped
    /\ pc \in {"bind", "record", "commit"} => Replied(cursor)

\* Within the attempt nothing is published.
LEMMA AnswerQuiet ==
  AnswerInv /\ UNCHANGED <<cursor, recorded, skipped, outcome, answered>>
    /\ pc # "commit" /\ pc' \notin {"bind", "record", "commit"}
  => AnswerInv'
  BY DEF AnswerInv, Replied

\* A message left by an exception is behind the cursor.
LEMMA AnswerSkip ==
  TypeOK /\ StageInv /\ AnswerInv /\ pc # "idle" /\ Skip /\ UNCHANGED <<outcome, answered>>
  => AnswerInv'
<1> SUFFICES ASSUME TypeOK, StageInv, AnswerInv, pc # "idle", Skip, UNCHANGED <<outcome, answered>>
             PROVE  AnswerInv'
  OBVIOUS
<1>1. cursor \in Int /\ recorded \in Int /\ Messages \subseteq Int
  BY RequestAssumption DEF TypeOK, Messages
<1>2. /\ cursor' = cursor + 1 /\ recorded' = recorded /\ pc' = "idle"
      /\ skipped' = skipped \union {cursor}
  BY DEF Skip, Leave
<1>3. QED
  BY <1>1, <1>2 DEF AnswerInv, Replied

\* Every step keeps what was passed answered or given up.
LEMMA NextAnswer == TypeOK /\ StageInv /\ AnswerInv /\ [Next]_vars => AnswerInv'
<1> SUFFICES ASSUME TypeOK, StageInv, AnswerInv, [Next]_vars PROVE AnswerInv'
  OBVIOUS
<1>a. cursor \in Int /\ recorded \in Int /\ Messages \subseteq Int
  BY RequestAssumption DEF TypeOK, Messages
<1>1. CASE Receive
  <2>1. /\ answered' = answered \ {cursor}
        /\ UNCHANGED <<cursor, recorded, skipped, outcome>>
        /\ pc = "idle" /\ pc' \notin {"bind", "record", "commit"}
    BY <1>1 DEF Receive, Finish, delivery
  <2>2. QED
    BY <2>1, <1>a DEF AnswerInv, Replied, TypeOK
<1>2. CASE Prepare \/ Lookup \/ Build
  BY <1>2, AnswerQuiet
     DEF Prepare, Lookup, LookupFound, LookupNotFound, Build, Finish, Throw,
         delivery, published
<1>3. CASE Answered \/ AnswerLost \/ NotReached
  BY <1>3, AnswerQuiet
     DEF Answered, AnswerLost, NotReached, HttpRetryOr, Finish, Throw,
         delivery, published
<1>4. CASE DeadLetter
  <2>1. pc = "deadletter" /\ UNCHANGED <<outcome, answered>>
    BY <1>4 DEF DeadLetter
  <2>2. CASE Skip
    BY <2>1, <2>2, AnswerSkip
  <2>3. CASE ~ Skip
    BY <2>1, <2>3, <1>4, AnswerQuiet DEF DeadLetter, delivery
  <2>4. QED
    BY <2>2, <2>3
<1>5. CASE Respond
  <2>1. pc = "respond"
    BY <1>5 DEF Respond
  <2>2. CASE Skip /\ UNCHANGED <<outcome, answered>>
    BY <2>1, <2>2, AnswerSkip
  <2>3. CASE ~ (Skip /\ UNCHANGED <<outcome, answered>>)
    <3>1. /\ outcome' = [outcome EXCEPT ![cursor] = result] /\ pc' = "bind"
          /\ answered' = answered \union {cursor}
          /\ UNCHANGED <<cursor, recorded, skipped>>
      BY <1>5, <2>3 DEF Respond, delivery
    <3>2. result # "none" /\ cursor \in Messages
      BY <2>1 DEF StageInv
    <3>3. QED
      BY <2>1, <3>1, <3>2, <1>a DEF AnswerInv, Replied, TypeOK
  <2>4. QED
    BY <2>2, <2>3
<1>6. CASE Bind
  <2>1. /\ UNCHANGED <<cursor, recorded, skipped, outcome, answered>>
        /\ pc = "bind" /\ pc' = "record"
    BY <1>6 DEF Bind, delivery
  <2>2. QED
    BY <2>1 DEF AnswerInv, Replied
<1>7. CASE Record
  <2>1. pc = "record" /\ UNCHANGED <<outcome, answered>>
    BY <1>7 DEF Record, published
  <2>2. CASE Skip
    BY <2>1, <2>2, AnswerSkip
  <2>3. CASE ~ Skip
    BY <2>1, <2>3, <1>7 DEF Record, AnswerInv, Replied
  <2>4. QED
    BY <2>2, <2>3
<1>8. CASE Commit
  <2>1. pc = "commit" /\ UNCHANGED <<outcome, answered>>
    BY <1>8 DEF Commit, published
  <2>2. CASE Skip
    BY <2>1, <2>2, AnswerSkip
  <2>3. CASE ~ Skip
    <3>1. cursor' = cursor + 1 /\ pc' = "idle" /\ UNCHANGED <<recorded, skipped>>
      BY <1>8, <2>3 DEF Commit, Leave
    <3>2. QED
      BY <2>1, <3>1, <1>a DEF AnswerInv, Replied
  <2>4. QED
    BY <2>2, <2>3
<1>9. CASE Crash \/ CancelledLastAttempt
  <2>1. /\ cursor' = recorded + 1 /\ pc' = "idle"
        /\ UNCHANGED <<recorded, skipped, outcome, answered>>
    BY <1>9 DEF Crash, CancelledLastAttempt, Leave, published
  <2>2. QED
    BY <2>1, <1>a DEF AnswerInv, Replied
<1>10. CASE (\E n \in Names, t \in Tags : AdminTag(n, t)) \/ UNCHANGED vars
  <2>1. UNCHANGED <<cursor, recorded, skipped, outcome, answered, pc>>
    BY <1>10 DEF AdminTag, vars, delivery, published
  <2>2. QED
    BY <2>1 DEF AnswerInv, Replied
<1>11. QED
  BY <1>1, <1>2, <1>3, <1>4, <1>5, <1>6, <1>7, <1>8, <1>9, <1>10 DEF Next

-----------------------------------------------------------------------------
\* The tags an update carries are still on its host.
SeenInv ==
    pc \in {"build", "execute"} /\ call.op = "update" => call.seen \subseteq Host.tags

\* An update under way either leaves its host alone or writes what was seen.
LEMMA ReachSeen ==
  ASSUME TypeOK, StageInv, pc = "execute", call.op = "update", Reach,
         UNCHANGED <<input, cursor>>
  PROVE  zabbix' # zabbix => call.seen \subseteq zabbix'[Request0.name].tags
<1>1. Request0.name \in Names /\ Host \in Hosts /\ zabbix \in [Names -> Hosts]
  BY AtMessage DEF StageInv
<1>2. Written = [Host EXCEPT !.tags = call.seen]
  BY DEF Written, MergedTags
<1>3. Written.tags = call.seen
  BY <1>1, <1>2 DEF Hosts
<1>4. QED
  BY <1>1, <1>3 DEF Reach

\* Every step keeps the tags of the updates under way on their hosts.
LEMMA NextSeen == TypeOK /\ StageInv /\ SeenInv /\ [Next]_vars => SeenInv'
<1> SUFFICES ASSUME TypeOK, StageInv, SeenInv, [Next]_vars PROVE SeenInv'
  OBVIOUS
<1>1. CASE Receive \/ DeadLetter \/ Respond \/ Bind \/ Record \/ Commit
             \/ Crash \/ CancelledLastAttempt
  BY <1>1 DEF Receive, DeadLetter, Respond, Bind, Record, Commit, Crash,
              CancelledLastAttempt, Skip, Leave, Finish, SeenInv
<1>2. CASE Prepare
  BY <1>2 DEF Prepare, Finish, Throw, NoCall, SeenInv
<1>3. CASE Lookup
  <2>1. UNCHANGED <<input, cursor, zabbix>> /\ pc = "lookup"
    BY <1>3 DEF Lookup, delivery
  <2>2. CASE LookupFound
    BY <2>1, <2>2 DEF LookupFound, SeenInv, Host, Request0
  <2>3. CASE LookupNotFound
    <3>1. pc' \in {"build", "execute"} => call'.op # "update"
      BY <2>3 DEF LookupNotFound, Finish, GuardOnly, OpOf, NoCall
    <3>2. QED
      BY <3>1 DEF SeenInv
  <2>4. CASE pc' \notin {"build", "execute"}
    BY <2>4 DEF SeenInv
  <2>5. QED
    BY <1>3, <2>2, <2>3, <2>4 DEF Lookup, Finish, Throw
<1>4. CASE Build \/ NotReached
  <2>1. /\ UNCHANGED <<input, cursor, zabbix, call>>
        /\ pc \in {"build", "execute"}
    BY <1>4 DEF Build, NotReached, delivery
  <2>2. QED
    BY <2>1 DEF SeenInv, Host, Request0
<1>5. CASE Answered \/ AnswerLost
  <2>1. UNCHANGED <<input, cursor, call>> /\ pc = "execute" /\ Reach
    BY <1>5 DEF Answered, AnswerLost, delivery
  <2>2. CASE call.op = "update"
    BY <2>1, <2>2, ReachSeen DEF SeenInv, Host, Request0
  <2>3. CASE call.op # "update"
    BY <2>1, <2>3 DEF SeenInv
  <2>4. QED
    BY <2>2, <2>3
<1>6. ASSUME NEW n \in Names, NEW t \in Tags, AdminTag(n, t) PROVE SeenInv'
  <2>1. /\ UNCHANGED <<input, cursor, call, pc>>
        /\ zabbix' = [zabbix EXCEPT ![n].tags = @ \union {t}]
    BY <1>6 DEF AdminTag, delivery, locals
  <2>2. \A m \in Names : zabbix[m].tags \subseteq zabbix'[m].tags
    BY <2>1 DEF TypeOK
  <2>3. pc \in {"build", "execute"} => Request0.name \in Names
    BY AtMessage DEF StageInv
  <2>4. QED
    BY <2>1, <2>2, <2>3 DEF SeenInv, Host, Request0
<1>7. CASE UNCHANGED vars
  BY <1>7 DEF vars, locals, delivery, SeenInv, Host, Request0
<1>8. QED
  BY <1>1, <1>2, <1>3, <1>4, <1>5, <1>6, <1>7 DEF Next

\* Only a write of the worker, or a tag added, changes Zabbix meanwhile.
LEMMA SeenStep ==
  TypeOK /\ StageInv /\ SeenInv /\ [Next]_vars
    /\ pc = "execute" /\ call.op = "update" /\ zabbix' # zabbix
  => call.seen \subseteq zabbix'[Request0.name].tags
<1> SUFFICES ASSUME TypeOK, StageInv, SeenInv, [Next]_vars,
                    pc = "execute", call.op = "update", zabbix' # zabbix
             PROVE  call.seen \subseteq zabbix'[Request0.name].tags
  OBVIOUS
<1>1. CASE Answered \/ AnswerLost
  BY <1>1, ReachSeen DEF Answered, AnswerLost, delivery
<1>2. ASSUME NEW n \in Names, NEW t \in Tags, AdminTag(n, t)
      PROVE  call.seen \subseteq zabbix'[Request0.name].tags
  <2>1. Request0.name \in Names /\ call.seen \subseteq zabbix[Request0.name].tags
    BY AtMessage DEF StageInv, SeenInv, Host
  <2>2. zabbix[Request0.name].tags \subseteq zabbix'[Request0.name].tags
    BY <1>2, <2>1 DEF AdminTag, TypeOK
  <2>3. QED
    BY <2>1, <2>2
<1>3. QED
  BY <1>1, <1>2
     DEF Next, vars, Receive, Prepare, Lookup, Build, NotReached, DeadLetter, Respond,
         Bind, Record, Commit, Crash, CancelledLastAttempt

-----------------------------------------------------------------------------
\* What Zabbix holds of the host of message i is what that message asked for.
Fits(i) == zabbix[input[i].name].present <=> input[i].method \notin {"delete", "get_delete"}

LastAbout(i) == \A j \in Messages : input[j].name = input[i].name => j <= i

\* The answer to message i is published, and it will not be taken again but by
\* a restart.
Settled(i) == i < cursor \/ (i = cursor /\ pc \in {"bind", "record", "commit"})

\* The latest run of message i has published the answer "success".
SaysOk(i) == i \in answered /\ outcome[i] = "ok"

\* What the cursor is past and nothing later is about is as the answer of its
\* latest run says; the message under way has none before its own.
FitInv ==
    /\ pc \in {"build", "execute"} =>
         (call.op = "delete" <=> Request0.method \in {"delete", "get_delete"})
    /\ pc \in {"prepare", "lookup", "build", "execute", "deadletter", "respond"} =>
         cursor \notin answered
    /\ pc = "respond" /\ result = "ok" => Fits(cursor)
    /\ \A i \in Messages : Settled(i) /\ LastAbout(i) /\ SaysOk(i) => Fits(i)

\* The hosts in Zabbix are the same, whatever their tags.
SameHosts == \A n \in Names : zabbix'[n].present <=> zabbix[n].present

\* A step that changes no host keeps what answers say of it.
LEMMA SameFits ==
  ASSUME TypeOK, SameHosts, UNCHANGED input, NEW i \in Messages
  PROVE  Fits(i)' <=> Fits(i)
<1>1. input[i].name \in Names
  BY RequestFields DEF TypeOK
<1>2. QED
  BY <1>1 DEF SameHosts, Fits

\* A step that publishes nothing and passes no message.
LEMMA FitQuiet ==
  TypeOK /\ StageInv /\ FitInv /\ SameHosts /\ UNCHANGED <<input, cursor, outcome, answered>>
    /\ (pc' \in {"build", "execute"} =>
          (call'.op = "delete" <=> Request0.method \in {"delete", "get_delete"}))
    /\ pc \notin {"idle", "bind", "record", "commit"}
    /\ pc' \notin {"bind", "record", "commit"}
    /\ (pc' = "respond" => result' # "ok")
  => FitInv'
<1> SUFFICES ASSUME TypeOK, StageInv, FitInv, SameHosts, UNCHANGED <<input, cursor, outcome, answered>>,
                    pc' \in {"build", "execute"} =>
                      (call'.op = "delete" <=> Request0.method \in {"delete", "get_delete"}),
                    pc \notin {"idle", "bind", "record", "commit"},
                    pc' \notin {"bind", "record", "commit"},
                    pc' = "respond" => result' # "ok"
             PROVE  FitInv'
  OBVIOUS
<1>1. cursor \notin answered
  BY DEF FitInv, TypeOK, SaysOk
<1>2. \A i \in Messages : Fits(i)' <=> Fits(i)
  BY SameFits
<1>3. \A i \in Messages : LastAbout(i)' = LastAbout(i) /\ (Settled(i)' => Settled(i))
  BY DEF LastAbout, Settled
<1>4. Request0' = Request0
  BY DEF Request0
<1>5. QED
  BY <1>1, <1>2, <1>3, <1>4 DEF FitInv, SaysOk

\* A message left by an exception is answered as it was before.
LEMMA FitLeave ==
  TypeOK /\ FitInv /\ UNCHANGED <<input, zabbix, outcome, answered>> /\ pc' = "idle"
    /\ (\A i \in Messages : i < cursor' /\ SaysOk(i) => Settled(i))
  => FitInv'
<1> SUFFICES ASSUME TypeOK, FitInv, UNCHANGED <<input, zabbix, outcome, answered>>, pc' = "idle",
                    \A i \in Messages : i < cursor' /\ SaysOk(i) => Settled(i)
             PROVE  FitInv'
  OBVIOUS
<1>1. \A i \in Messages : (Fits(i)' <=> Fits(i)) /\ LastAbout(i)' = LastAbout(i)
  BY DEF Fits, LastAbout
<1>2. QED
  BY <1>1 DEF FitInv, SaysOk, Settled

\* Skip passes the message under way, unanswered or with its answer published.
LEMMA FitSkip ==
  TypeOK /\ StageInv /\ FitInv /\ pc \in {"deadletter", "respond", "record", "commit"}
    /\ Skip /\ UNCHANGED <<input, zabbix, outcome, answered>>
  => FitInv'
<1> SUFFICES ASSUME TypeOK, StageInv, FitInv,
                    pc \in {"deadletter", "respond", "record", "commit"}, Skip,
                    UNCHANGED <<input, zabbix, outcome, answered>>
             PROVE  FitInv'
  OBVIOUS
<1>1. cursor \in Int /\ Messages \subseteq Int
  BY RequestAssumption DEF TypeOK, Messages
<1>2. pc' = "idle" /\ cursor' = cursor + 1
  BY DEF Skip, Leave
<1>3. \A i \in Messages : i < cursor' /\ SaysOk(i) => Settled(i)
  BY <1>1, <1>2 DEF FitInv, SaysOk, Settled
<1>4. QED
  BY <1>2, <1>3, FitLeave

\* A write changes what is known of its own host only, and makes it what its
\* message asks for.
LEMMA ReachFit ==
  ASSUME TypeOK, StageInv, FitInv, pc = "execute", Reach, UNCHANGED <<input, cursor>>
  PROVE  /\ Accepted => Fits(cursor)'
         /\ \A i \in Messages : i < cursor /\ LastAbout(i) => (Fits(i)' <=> Fits(i))
<1>1. cursor \in Messages /\ Request0.name \in Names /\ cursor \in Int /\ Messages \subseteq Int
  BY AtMessage, RequestAssumption DEF StageInv, Messages
<1>2. call.op \in {"create", "update", "plain", "delete"}
  BY <1>1, AtMessage, CallFields DEF StageInv
<1>3. zabbix \in [Names -> Hosts] /\ Host \in Hosts
  BY <1>1, AtMessage
<1>4. Accepted => (Written.present <=> call.op # "delete")
  <2>1. CASE call.op = "create"
    BY <2>1 DEF Written
  <2>2. CASE call.op = "update"
    BY <2>2, <1>3 DEF Written, Accepted, Hosts
  <2>3. CASE call.op = "plain"
    BY <2>3 DEF Written, Accepted
  <2>4. CASE call.op = "delete"
    BY <2>4 DEF Written, Absent
  <2>5. QED
    BY <1>2, <2>1, <2>2, <2>3, <2>4
<1>5. Accepted => zabbix'[Request0.name] = Written
  BY <1>1, <1>3 DEF Reach
<1>6. \A n \in Names : n # Request0.name => zabbix'[n] = zabbix[n]
  BY <1>1, <1>3 DEF Reach
<1>7. Accepted => Fits(cursor)'
  BY <1>4, <1>5 DEF FitInv, SaysOk, Fits, Request0
<1>8. ASSUME NEW i \in Messages, i < cursor, LastAbout(i) PROVE Fits(i)' <=> Fits(i)
  <2>1. input[i].name # Request0.name
    BY <1>1, <1>8 DEF LastAbout, Request0
  <2>2. input[i].name \in Names
    BY RequestFields DEF TypeOK
  <2>3. QED
    BY <2>1, <2>2, <1>6 DEF Fits
<1>9. QED
  BY <1>7, <1>8

\* Every step keeps the last answers true.
LEMMA NextFit ==
  TypeOK /\ StageInv /\ AnswerInv /\ FitInv /\ [Next]_vars => FitInv'
<1> SUFFICES ASSUME TypeOK, StageInv, AnswerInv, FitInv, [Next]_vars PROVE FitInv'
  OBVIOUS
<1>a. /\ cursor \in Int /\ recorded \in Int /\ Messages \subseteq Int
      /\ outcome \in [Messages -> Outcomes] /\ answered \subseteq Messages
  BY RequestAssumption DEF TypeOK, Messages
<1>1. CASE Receive
  <2>1. /\ cursor \in Messages /\ UNCHANGED <<input, zabbix, cursor>> /\ pc = "idle"
        /\ answered' = answered \ {cursor} /\ UNCHANGED outcome
        /\ pc' \in {"prepare", "deadletter"}
    BY <1>1, <1>a, RequestAssumption DEF Receive, Finish, delivery, Messages, TypeOK
  <2>2. \A i \in Messages : (Fits(i)' <=> Fits(i)) /\ LastAbout(i)' = LastAbout(i)
    BY <2>1 DEF Fits, LastAbout
  <2>3. \A i \in Messages : Settled(i)' => Settled(i) /\ (SaysOk(i)' <=> SaysOk(i))
    BY <2>1, <1>a DEF Settled, SaysOk
  <2>4. cursor \notin answered'
    BY <2>1
  <2>5. QED
    BY <2>1, <2>2, <2>3, <2>4 DEF FitInv, SaysOk
<1>2. CASE Prepare
  <2>1. UNCHANGED <<input, cursor, outcome, answered, zabbix>> /\ pc = "prepare"
    BY <1>2 DEF Prepare, delivery, published
  <2>2. /\ pc' \notin {"build", "bind", "record", "commit"}
        /\ pc' = "respond" => result' # "ok"
        /\ pc' = "execute" => Request0.method = "create" /\ call'.op = "create"
    BY <1>2 DEF Prepare, Finish, Throw, NoCall
  <2>3. SameHosts
    BY <2>1 DEF SameHosts
  <2>4. QED
    BY <2>1, <2>2, <2>3, FitQuiet
<1>3. CASE Lookup
  <2>1. /\ UNCHANGED <<input, cursor, outcome, answered, zabbix>> /\ pc = "lookup"
        /\ Request0.method \in AllMethods \ {"create", "malformed"}
    BY <1>3, AtMessage DEF Lookup, delivery, published, StageInv
  <2>2. OpOf(Request0.method) = "delete" <=> Request0.method \in {"delete", "get_delete"}
    BY <2>1 DEF OpOf, AllMethods
  <2>3. /\ pc' \notin {"bind", "record", "commit"}
        /\ pc' = "respond" => result' # "ok"
    BY <1>3 DEF Lookup, LookupFound, LookupNotFound, Finish, Throw
  <2>4. pc' \in {"build", "execute"} =>
          (call'.op = "delete" <=> Request0.method \in {"delete", "get_delete"})
    <3>1. CASE LookupFound
      BY <3>1, <2>2 DEF LookupFound
    <3>2. CASE LookupNotFound
      BY <3>2, <2>1, <2>2 DEF LookupNotFound, Finish, GuardOnly, NoCall
    <3>3. CASE pc' \notin {"build", "execute"}
      BY <3>3
    <3>4. QED
      BY <1>3, <3>1, <3>2, <3>3 DEF Lookup, Finish, Throw
  <2>5. SameHosts
    BY <2>1 DEF SameHosts
  <2>6. QED
    BY <2>1, <2>3, <2>4, <2>5, FitQuiet
<1>4. CASE Build \/ NotReached
  <2>1. /\ UNCHANGED <<input, cursor, outcome, answered, zabbix, call>> /\ pc \in {"build", "execute"}
        /\ pc' \notin {"bind", "record", "commit"}
        /\ pc' = "respond" => result' # "ok"
    BY <1>4 DEF Build, NotReached, HttpRetryOr, Finish, Throw, delivery, published
  <2>2. SameHosts
    BY <2>1 DEF SameHosts
  <2>3. QED
    BY <2>1, <2>2, FitQuiet DEF FitInv, SaysOk
<1>5. CASE Answered \/ AnswerLost
  <2>1. /\ UNCHANGED <<input, cursor, outcome, answered, call>> /\ pc = "execute" /\ Reach
        /\ pc' \notin {"build", "bind", "record", "commit"}
        /\ pc' = "respond" /\ result' = "ok" => Accepted
    BY <1>5 DEF Answered, AnswerLost, HttpRetryOr, Finish, Throw, delivery, published
  <2>2. /\ Accepted => Fits(cursor)'
        /\ \A i \in Messages : i < cursor /\ LastAbout(i) => (Fits(i)' <=> Fits(i))
    BY <2>1, ReachFit
  <2>3. \A i \in Messages : /\ LastAbout(i)' = LastAbout(i)
                            /\ Settled(i)' => Settled(i) /\ i < cursor
    BY <2>1 DEF LastAbout, Settled
  <2>4. cursor \notin answered /\ Request0' = Request0
    BY <2>1 DEF FitInv, SaysOk, Request0
  <2>5. QED
    BY <2>1, <2>2, <2>3, <2>4 DEF FitInv, SaysOk
<1>6. CASE DeadLetter
  <2>1. pc = "deadletter" /\ UNCHANGED <<input, zabbix, outcome, answered>>
    BY <1>6 DEF DeadLetter
  <2>2. CASE Skip
    BY <2>1, <2>2, FitSkip
  <2>3. CASE ~ Skip
    <3>1. UNCHANGED <<cursor, result>> /\ pc' = "respond" /\ result # "ok"
      BY <1>6, <2>3 DEF DeadLetter, delivery, locals, StageInv
    <3>2. SameHosts
      BY <2>1 DEF SameHosts
    <3>3. QED
      BY <2>1, <3>1, <3>2, FitQuiet
  <2>4. QED
    BY <2>2, <2>3
<1>7. CASE Respond
  <2>1. pc = "respond" /\ UNCHANGED <<input, zabbix>> /\ cursor \in Messages
    BY <1>7 DEF Respond, StageInv
  <2>2. CASE Skip /\ UNCHANGED <<outcome, answered>>
    BY <2>1, <2>2, FitSkip
  <2>3. CASE ~ (Skip /\ UNCHANGED <<outcome, answered>>)
    <3>1. /\ outcome' = [outcome EXCEPT ![cursor] = result] /\ pc' = "bind"
          /\ answered' = answered \union {cursor} /\ UNCHANGED cursor
      BY <1>7, <2>3 DEF Respond, delivery
    <3>2. \A i \in Messages : (Fits(i)' <=> Fits(i)) /\ LastAbout(i)' = LastAbout(i)
      BY <2>1 DEF Fits, LastAbout
    <3>3. \A i \in Messages : i # cursor => (SaysOk(i)' <=> SaysOk(i))
      BY <3>1, <1>a DEF SaysOk
    <3>4. outcome'[cursor] = result
      BY <3>1, <2>1, <1>a
    <3>5. QED
      BY <2>1, <3>1, <3>2, <3>3, <3>4 DEF FitInv, SaysOk, Settled
  <2>4. QED
    BY <2>2, <2>3
<1>8. CASE Bind
  <2>1. /\ UNCHANGED <<input, zabbix, cursor, outcome, answered>>
        /\ pc = "bind" /\ pc' = "record"
    BY <1>8 DEF Bind, delivery
  <2>2. QED
    BY <2>1 DEF FitInv, SaysOk, Settled, Fits, LastAbout
<1>9. CASE Record \/ Commit
  <2>1. /\ UNCHANGED <<input, zabbix, outcome, answered>> /\ pc \in {"record", "commit"}
    BY <1>9 DEF Record, Commit, published
  <2>2. CASE Skip
    BY <2>1, <2>2, FitSkip
  <2>3. CASE Record /\ ~ Skip
    <3>1. UNCHANGED cursor /\ pc' = "commit"
      BY <2>3 DEF Record
    <3>2. QED
      BY <2>1, <3>1 DEF FitInv, SaysOk, Settled, Fits, LastAbout
  <2>4. CASE Commit /\ ~ Skip
    <3>1. pc' = "idle" /\ cursor' = cursor + 1
      BY <2>4 DEF Commit, Leave
    <3>2. \A i \in Messages : i < cursor' => Settled(i)
      BY <3>1, <2>1, <1>a DEF Settled
    <3>3. QED
      BY <2>1, <3>1, <3>2, FitLeave
  <2>5. QED
    BY <1>9, <2>2, <2>3, <2>4
<1>10. CASE Crash \/ CancelledLastAttempt
  <2>1. /\ cursor' = recorded + 1 /\ pc' = "idle"
        /\ UNCHANGED <<input, zabbix, outcome, answered>>
    BY <1>10 DEF Crash, CancelledLastAttempt, Leave, published
  <2>2. \A i \in Messages : i < cursor' => Settled(i)
    BY <2>1, <1>a DEF AnswerInv, Settled
  <2>3. QED
    BY <2>1, <2>2, FitLeave
<1>11. ASSUME NEW n \in Names, NEW t \in Tags, AdminTag(n, t) PROVE FitInv'
  <2>1. /\ UNCHANGED <<input, cursor, call, pc, result, outcome, answered>>
        /\ zabbix' = [zabbix EXCEPT ![n].tags = @ \union {t}]
    BY <1>11 DEF AdminTag, delivery, locals, published
  <2>2. SameHosts
    BY <2>1 DEF SameHosts, TypeOK
  <2>3. \A i \in Messages : Fits(i)' <=> Fits(i)
    BY <2>1, <2>2, SameFits
  <2>4. \A i \in Messages : LastAbout(i)' = LastAbout(i) /\ Settled(i)' = Settled(i)
    BY <2>1 DEF LastAbout, Settled
  <2>5. Request0' = Request0 /\ (pc = "respond" => (Fits(cursor)' <=> Fits(cursor)))
    <3>1. pc = "respond" => Request0.name \in Names
      BY AtMessage DEF StageInv
    <3>2. QED
      BY <2>1, <2>2, <3>1 DEF Request0, Fits, SameHosts
  <2>6. QED
    BY <2>1, <2>3, <2>4, <2>5 DEF FitInv, SaysOk
<1>12. CASE UNCHANGED vars
  BY <1>12 DEF vars, locals, delivery, published, FitInv, SaysOk, Fits, LastAbout, Settled, Request0
<1>13. QED
  BY <1>1, <1>2, <1>3, <1>4, <1>5, <1>6, <1>7, <1>8, <1>9, <1>10, <1>11, <1>12 DEF Next

-----------------------------------------------------------------------------
\* The inductive invariant.
IInv == TypeOK /\ StageInv /\ ShieldInv /\ SuccessInv /\ AnswerInv /\ SeenInv /\ FitInv

\* Before the first message nothing is shielded, answered or written.
LEMMA InitIInv == Init => IInv
<1> SUFFICES ASSUME Init PROVE IInv
  OBVIOUS
<1>1. TypeOK /\ StageInv
  BY InitType
<1>2. ShieldInv
  BY DEF Init, ShieldInv, Absent
<1>3. SuccessInv /\ SeenInv
  BY DEF Init, SuccessInv, SuccessIsReal, SeenInv
<1>4. AnswerInv
  BY DEF Init, AnswerInv, Messages
<1>5. FitInv
  BY DEF Init, FitInv, Settled, Messages
<1>6. QED
  BY <1>1, <1>2, <1>3, <1>4, <1>5 DEF IInv

\* The inductive invariant holds throughout.
LEMMA Invariance == Spec => []IInv
<1>1. IInv /\ [Next]_vars => IInv'
  BY NextType, NextStage, NextShield, NextSuccess, NextAnswer, NextSeen,
     NextFit DEF IInv
<1>2. QED
  BY InitIInv, <1>1, PTL DEF Spec

\* The worker and the server keep their types, whatever calls fail.
THEOREM TypeCorrect == Spec => []TypeOK
<1>1. IInv => TypeOK
  BY DEF IInv
<1>2. QED
  BY Invariance, <1>1, PTL

\* An answer "success" and a binding event stand for writes Zabbix made.
THEOREM SuccessBacked == Spec => []SuccessIsReal
<1>1. IInv => SuccessIsReal
  BY DEF IInv, SuccessInv
<1>2. QED
  BY Invariance, <1>1, PTL

\* No write under way meets a host protected when its attempt began.
THEOREM ShieldHolds == Spec => []ProtectedUntouched
<1>1. IInv => ProtectedUntouched
  BY DEF IInv, ShieldInv, ProtectedUntouched
<1>2. QED
  BY Invariance, <1>1, PTL

\* Restarts resume past answered or abandoned messages only.
THEOREM RecordedAnswered == Spec => []NothingRecordedUnanswered
<1>1. IInv => NothingRecordedUnanswered
  <2> SUFFICES ASSUME IInv, NEW i \in Messages, i <= recorded
               PROVE  Replied(i) \/ i \in skipped
    BY DEF Replied, NothingRecordedUnanswered
  <2>1. cursor \in Int /\ recorded \in Int /\ i \in Int
    BY RequestAssumption DEF IInv, TypeOK, Messages
  <2>2. i < cursor \/ (pc = "commit" /\ i = cursor)
    BY <2>1 DEF IInv, AnswerInv
  <2>3. QED
    BY <2>2 DEF IInv, AnswerInv
<1>2. QED
  BY Invariance, <1>1, PTL

\* With every message processed, the answer "success" that the latest run of the
\* last one about a host published describes the host Zabbix has.
THEOREM LastAnswerTrue == Spec => []LastAnswerHolds
<1>1. IInv => LastAnswerHolds
  <2> SUFFICES ASSUME IInv, cursor > Length, NEW i \in Messages, SaysOk(i),
                      LastAbout(i)
               PROVE  Fits(i)
    BY DEF LastAnswerHolds, LastAbout, Fits, SaysOk
  <2>1. i < cursor
    BY RequestAssumption DEF IInv, TypeOK, Messages
  <2>2. QED
    BY <2>1 DEF IInv, FitInv, Settled
<1>2. QED
  BY Invariance, <1>1, PTL

\* An update never removes a tag that its own lookup saw.
THEOREM TagsKept == Spec => SeenTagsKept
<1>1. IInv /\ [Next]_vars =>
        [(pc = "execute" /\ call.op = "update" /\ zabbix' # zabbix)
           => call.seen \subseteq zabbix'[Request0.name].tags]_vars
  BY SeenStep DEF IInv
<1>2. QED
  BY Invariance, <1>1, PTL DEF Spec, SeenTagsKept

-----------------------------------------------------------------------------
(* HttpResilience, the handler every call of this worker goes through: the *)
(* circuit breaker for any number of callers, attempts and failures. A     *)
(* failure is seen during the outage only, so that no break reaches beyond *)
(* one break time after it: the type invariant says so and is inductive.   *)

\* The breaker's own variables, which are numbers.
BreakerType ==
    /\ now \in 1 .. OutageEnd + BreakTime
    /\ consecutiveFailures \in 0 .. Threshold - 1
    /\ circuitOpenUntil \in 0 .. OutageEnd + BreakTime - 1

\* Initially the circuit is closed and no call is under way.
LEMMA CallsInit == HttpInit => CallsTypeOK
<1> SUFFICES ASSUME HttpInit PROVE CallsTypeOK
  OBVIOUS
<1>1. BreakerType
  BY ResilienceAssumption DEF HttpInit, BreakerType
<1>2. /\ callPc \in [Callers -> {"idle", "check", "sending"}]
      /\ callAttempt \in [Callers -> 1 .. MaxRetryAttempts]
  BY ResilienceAssumption DEF HttpInit
<1>3. responded \in BOOLEAN
  BY DEF HttpInit
<1>4. QED
  BY <1>1, <1>2, <1>3 DEF CallsTypeOK, BreakerType

\* A failure counted during the outage sets a break that the outage bounds.
LEMMA GiveUpBounds ==
  ASSUME CallsTypeOK, NEW c \in Callers, GiveUp(c)
  PROVE  BreakerType'
<1>1. now \in Nat /\ now < OutageEnd
  BY ResilienceAssumption DEF GiveUp, Outage, CallsTypeOK
<1>2. BreakEnd \in 0 .. OutageEnd + BreakTime - 1
  BY <1>1, ResilienceAssumption DEF BreakEnd
<1>3. CASE ThresholdReached
  BY <1>2, <1>3, ResilienceAssumption DEF GiveUp, CallsTypeOK, BreakerType
<1>4. CASE ~ ThresholdReached
  BY <1>4, ResilienceAssumption DEF GiveUp, ThresholdReached, CallsTypeOK, BreakerType
<1>5. QED
  BY <1>3, <1>4

\* Every step keeps the types, and the break within its bound.
LEMMA CallsStep == CallsTypeOK /\ [HttpNext]_httpVars => CallsTypeOK'
<1> SUFFICES ASSUME CallsTypeOK, [HttpNext]_httpVars PROVE CallsTypeOK'
  OBVIOUS
<1> USE ResilienceAssumption
<1>1. CASE Tick
  BY <1>1 DEF Tick, CallsTypeOK
<1>2. ASSUME NEW c \in Callers, Call(c) PROVE CallsTypeOK'
  BY <1>2 DEF Call, Goto, CallsTypeOK
<1>3. ASSUME NEW c \in Callers, Check(c) PROVE CallsTypeOK'
  BY <1>3 DEF Check, Pass, Expire, FailFast, Goto, CallsTypeOK
<1>4. ASSUME NEW c \in Callers, ResetCircuit(c) PROVE CallsTypeOK'
  BY <1>4 DEF ResetCircuit, Goto, CallsTypeOK
<1>5. ASSUME NEW c \in Callers, Retry(c) PROVE CallsTypeOK'
  BY <1>5 DEF Retry, Goto, CallsTypeOK
<1>6. ASSUME NEW c \in Callers, GiveUp(c) PROVE CallsTypeOK'
  BY <1>6, GiveUpBounds DEF GiveUp, Goto, CallsTypeOK, BreakerType
<1>7. ASSUME NEW c \in Callers, TimeOut(c) PROVE CallsTypeOK'
  BY <1>7 DEF TimeOut, Goto, CallsTypeOK
<1>8. CASE UNCHANGED httpVars
  BY <1>8 DEF httpVars, CallsTypeOK
<1>9. QED
  BY <1>1, <1>2, <1>3, <1>4, <1>5, <1>6, <1>7, <1>8 DEF HttpNext

\* The breaker and the calls keep their types and bounds.
THEOREM CallsTypeCorrect == HttpSpec => []CallsTypeOK
  BY CallsInit, CallsStep, PTL DEF HttpSpec

\* One break time after the recovery no circuit is open.
THEOREM BreakEnds == HttpSpec => []OneBreakAfterOutage
<1>1. CallsTypeOK => OneBreakAfterOutage
  BY ResilienceAssumption DEF CallsTypeOK, OneBreakAfterOutage
<1>2. QED
  BY CallsTypeCorrect, <1>1, PTL

\* A failure never closes the circuit: it sets a break that lies ahead.
LEMMA ClosedByResponse ==
  CallsTypeOK /\ [HttpNext]_httpVars /\ circuitOpenUntil > now /\ circuitOpenUntil' = 0
  => responded'
<1> SUFFICES ASSUME CallsTypeOK, [HttpNext]_httpVars, circuitOpenUntil > now, circuitOpenUntil' = 0
             PROVE  responded'
  OBVIOUS
<1>0. now \in Nat /\ circuitOpenUntil \in Nat /\ circuitOpenUntil # 0
  BY ResilienceAssumption DEF CallsTypeOK
<1>1. ASSUME NEW c \in Callers, Check(c) PROVE FALSE
  BY <1>0, <1>1 DEF Check, Pass, Expire, FailFast
<1>2. ASSUME NEW c \in Callers, GiveUp(c) PROVE FALSE
  <2>1. BreakEnd # 0
    BY <1>0, ResilienceAssumption DEF BreakEnd
  <2>2. QED
    BY <1>0, <1>2, <2>1 DEF GiveUp
<1>3. ASSUME NEW c \in Callers, ResetCircuit(c) PROVE responded'
  BY <1>3 DEF ResetCircuit
<1>4. QED
  BY <1>0, <1>1, <1>2, <1>3 DEF HttpNext, httpVars, Tick, Call, Retry, TimeOut

\* An open circuit is closed by time or by a response, never by failures.
THEOREM BreakKept == HttpSpec => BreakIsKept
<1>1. CallsTypeOK /\ [HttpNext]_httpVars =>
        [(circuitOpenUntil > now /\ circuitOpenUntil' = 0) => responded']_httpVars
  BY ClosedByResponse
<1>2. QED
  BY CallsTypeCorrect, <1>1, PTL DEF HttpSpec, BreakIsKept

-----------------------------------------------------------------------------
(* The merge of host.update, for any payloads, interfaces and edits.       *)

\* Where some interface is found, so is a first one.
LEMMA FirstIsFound ==
  ASSUME NEW S \in SUBSET (Nat \ {0})
  PROVE  /\ S = {} => First(S) = 0
         /\ S # {} => First(S) \in S
<1>1. CASE S = {}
  BY <1>1 DEF First
<1>2. ASSUME S # {} PROVE Min(S) \in S
  <2> DEFINE R == {x \in Nat \X Nat : x[1] < x[2]}
  <2>1. PICK x \in S : \A y \in S : ~(<<y, x>> \in R)
    <3>1. IsWellFoundedOn(R, Nat)
      BY NatLessThanWellFounded DEF OpToRel
    <3> HIDE DEF R
    <3> QED BY <1>2, <3>1, WFMin
  <2>2. ASSUME NEW y \in S PROVE x <= y
    <3>1. <<y, x>> \in Nat \X Nat /\ ~(<<y, x>> \in R)
      BY <2>1
    <3> QED BY <3>1
  <2> QED BY <2>2 DEF Min
<1> QED BY <1>1, <1>2 DEF First

Below(s, n) == \A i \in DOMAIN s : s[i].id \in 1 .. n - 1
IdsDiffer(s) == \A i, j \in DOMAIN s : s[i].id = s[j].id => i = j

(* A list by ids is a permutation of the list it is made of.               *)
LEMMA ListedTogether ==
  ASSUME NEW n \in Nat, NEW s, DOMAIN s = 1 .. n, IdsDiffer(s),
         \A i \in 1 .. n : s[i].id \in Nat
  PROVE  /\ DOMAIN ListedById(s) = 1 .. n
         /\ \A k \in 1 .. n : \E i \in 1 .. n : ListedById(s)[k] = s[i]
         /\ \A i \in 1 .. n : \E k \in 1 .. n : ListedById(s)[k] = s[i]
         /\ IdsDiffer(ListedById(s))
<1> DEFINE NotAbove(e) == {j \in 1 .. n : s[j].id <= e.id}
           rank == [i \in 1 .. n |-> Cardinality(NotAbove(s[i]))]
<1>1. IsFiniteSet(1 .. n) /\ Cardinality(1 .. n) = n
  BY FS_Interval
<1>2. ASSUME NEW i \in 1 .. n
      PROVE  /\ IsFiniteSet(NotAbove(s[i]))
             /\ Cardinality(NotAbove(s[i])) \in 1 .. n
  <2>1. NotAbove(s[i]) \in SUBSET (1 .. n) /\ i \in NotAbove(s[i])
    OBVIOUS
  <2> HIDE DEF NotAbove
  <2>2. IsFiniteSet(NotAbove(s[i])) /\ Cardinality(NotAbove(s[i])) <= n
    BY <2>1, <1>1, FS_Subset
  <2>3. Cardinality(NotAbove(s[i])) \in Nat /\ Cardinality(NotAbove(s[i])) # 0
    BY <2>1, <2>2, FS_CardinalityType, FS_EmptySet
  <2> QED BY <2>2, <2>3
<1>3. ASSUME NEW i \in 1 .. n, NEW j \in 1 .. n, s[i].id < s[j].id
      PROVE  rank[i] # rank[j]
  <2>1. NotAbove(s[i]) \in SUBSET NotAbove(s[j]) /\ NotAbove(s[i]) # NotAbove(s[j])
    BY <1>3
  <2>2. IsFiniteSet(NotAbove(s[j]))
    BY <1>2
  <2> HIDE DEF NotAbove
  <2>3. Cardinality(NotAbove(s[i])) # Cardinality(NotAbove(s[j]))
    BY <2>1, <2>2, FS_Subset
  <2> QED BY <2>3
<1>4. rank \in [1 .. n -> 1 .. n]
  BY <1>2
<1>5. \A i, j \in 1 .. n : rank[i] = rank[j] => i = j
  <2> SUFFICES ASSUME NEW i \in 1 .. n, NEW j \in 1 .. n, rank[i] = rank[j], i # j
               PROVE  FALSE
    OBVIOUS
  <2>1. s[i].id < s[j].id \/ s[j].id < s[i].id
    BY DEF IdsDiffer
  <2> HIDE DEF rank
  <2> QED BY <2>1, <1>3
<1>6. \A k \in 1 .. n : \E i \in 1 .. n : rank[i] = k
  <2> HIDE DEF rank
  <2>1. rank \in Injection(1 .. n, 1 .. n)
    BY <1>4, <1>5 DEF Injection, IsInjective
  <2>2. rank \in Surjection(1 .. n, 1 .. n)
    BY <2>1, <1>1, FS_Injection
  <2> QED BY <2>2 DEF Surjection
<1>7. ListedById(s) =
        [k \in 1 .. n |-> CHOOSE e \in {s[i] : i \in 1 .. n} : Cardinality(NotAbove(e)) = k]
  BY DEF ListedById
<1>8. ASSUME NEW i \in 1 .. n PROVE ListedById(s)[rank[i]] = s[i]
  <2> DEFINE e == CHOOSE f \in {s[j] : j \in 1 .. n} : Cardinality(NotAbove(f)) = rank[i]
  <2>1. ListedById(s)[rank[i]] = e
    BY <1>7, <1>4
  <2>2. s[i] \in {s[j] : j \in 1 .. n} /\ Cardinality(NotAbove(s[i])) = rank[i]
    OBVIOUS
  <2>3. e \in {s[j] : j \in 1 .. n} /\ Cardinality(NotAbove(e)) = rank[i]
    <3> HIDE DEF NotAbove, rank
    <3> QED BY <2>2
  <2>4. PICK j \in 1 .. n : e = s[j]
    BY <2>3
  <2>5. rank[j] = rank[i]
    BY <2>3, <2>4
  <2> QED BY <2>1, <2>4, <2>5, <1>5
<1> HIDE DEF rank
<1>9. DOMAIN ListedById(s) = 1 .. n
  BY <1>7
<1>10. \A k \in 1 .. n : \E i \in 1 .. n : rank[i] = k /\ ListedById(s)[k] = s[i]
  BY <1>6, <1>8
<1>11. IdsDiffer(ListedById(s))
  <2> DEFINE t == ListedById(s)
  <2> SUFFICES ASSUME NEW k \in 1 .. n, NEW l \in 1 .. n, t[k].id = t[l].id PROVE k = l
    BY <1>9 DEF IdsDiffer
  <2>1. PICK i \in 1 .. n : rank[i] = k /\ t[k] = s[i]
    BY <1>10
  <2>2. PICK j \in 1 .. n : rank[j] = l /\ t[l] = s[j]
    BY <1>10
  <2> QED BY <2>1, <2>2 DEF IdsDiffer
<1> QED BY <1>4, <1>8, <1>9, <1>10, <1>11

\* Ids are numbers, however many more there may be.
LEMMA BelowMore ==
  ASSUME NEW s, NEW n \in Nat, NEW k \in Nat, Below(s, n)
  PROVE  Below(s, n + 1 + k)
  BY DEF Below

Numbered(s) == \A i \in DOMAIN s : s[i].id \in Nat \ {0}

\* Ids below some bound are ids.
LEMMA BelowNumbers ==
  ASSUME NEW s, NEW n, Below(s, n)
  PROVE  Numbered(s)
  BY DEF Below, Numbered

\* Sorted, interfaces stay interfaces with ids of their own.
LEMMA ListedTyped ==
  ASSUME NEW s \in Seq(Interface), IdsDiffer(s)
  PROVE  /\ ListedById(s) \in Seq(Interface) /\ IdsDiffer(ListedById(s))
         /\ \A n : Below(s, n) => Below(ListedById(s), n)
<1> DEFINE n == Len(s)
           t == ListedById(s)
<1>1. n \in Nat /\ DOMAIN s = 1 .. n /\ \A i \in 1 .. n : s[i].id \in Nat /\ s[i] \in Interface
  <2>1. n \in Nat /\ DOMAIN s = 1 .. n /\ \A i \in 1 .. n : s[i] \in Interface
    OBVIOUS
  <2> QED BY <2>1 DEF Interface
<1>2. /\ DOMAIN t = 1 .. n /\ IdsDiffer(t)
      /\ \A k \in 1 .. n : \E i \in 1 .. n : t[k] = s[i]
  <2> HIDE DEF n
  <2> QED BY <1>1, ListedTogether
<1>3. t = [k \in 1 .. n |-> t[k]]
  <2> DEFINE f(k) == CHOOSE e \in {s[i] : i \in DOMAIN s} :
                        Cardinality({i \in DOMAIN s : s[i].id <= e.id}) = k
  <2>1. t = [k \in DOMAIN s |-> f(k)]
    BY DEF ListedById
  <2> HIDE DEF f, t, n
  <2> QED BY <1>1, <2>1
<1> HIDE DEF t, n
<1>4. t \in Seq(Interface)
  <2>1. \A k \in 1 .. n : t[k] \in Interface
    BY <1>1, <1>2
  <2> QED BY <1>1, <1>3, <2>1
<1>5. \A m : Below(s, m) => Below(t, m)
  BY <1>1, <1>2 DEF Below
<1> QED BY <1>2, <1>4, <1>5 DEF t

\* A list of n entries is a sequence.
LEMMA ListIsSeq ==
  ASSUME NEW n \in Nat, NEW T, NEW s \in [1 .. n -> T]
  PROVE  s \in Seq(T) /\ Len(s) = n /\ DOMAIN s = 1 .. n
  OBVIOUS

\* A function from some of the keys is partial.
LEMMA SomeIsPartial ==
  ASSUME NEW K, NEW V, NEW f, DOMAIN f \subseteq K, f \in [DOMAIN f -> V]
  PROVE  f \in Partial(K, V)
  BY DEF Partial

\* Merged macros are macros.
LEMMA MacrosTyped ==
  ASSUME NEW d \in Partial(Macros, Values), NEW e \in Partial(Macros, Values)
  PROVE  MergedMacros(d, e) \in Partial(Macros, Values)
<1>1. /\ DOMAIN d \in SUBSET Macros /\ d \in [DOMAIN d -> Values]
      /\ DOMAIN e \in SUBSET Macros /\ e \in [DOMAIN e -> Values]
  BY DEF Partial
<1>2. MergedMacros(d, e) \in [DOMAIN d \union DOMAIN e -> Values]
  BY <1>1 DEF MergedMacros
<1> QED BY <1>1, <1>2 DEF Partial

\* Macros merged twice are macros merged once.
LEMMA MacrosAgain ==
  ASSUME NEW d \in Partial(Macros, Values), NEW e \in Partial(Macros, Values)
  PROVE  MergedMacros(d, MergedMacros(d, e)) = MergedMacros(d, e)
  BY DEF MergedMacros

-----------------------------------------------------------------------------
(* Which interface of the host one of the payload is. *)

\* One of the host's, or none.
LEMMA MatchIsListed ==
  ASSUME NEW s \in Seq(Interface), NEW a, NEW k
  PROVE  \/ FindMatchingInterfaceId(a, s, k) = 0
         \/ \E i \in DOMAIN s : FindMatchingInterfaceId(a, s, k) = s[i].id
<1>1. DOMAIN s \in SUBSET (Nat \ {0})
  OBVIOUS
<1> DEFINE exact == {i \in DOMAIN s : s[i].address = a}
           same == {i \in DOMAIN s : SameAddress(a, s[i].address)}
<1>2. exact \in SUBSET (Nat \ {0}) /\ same \in SUBSET (Nat \ {0})
  BY <1>1
<1>3. /\ First(exact) = 0 \/ First(exact) \in DOMAIN s
      /\ First(same) = 0 \/ First(same) \in DOMAIN s
  <2>1. exact \subseteq DOMAIN s /\ same \subseteq DOMAIN s
    OBVIOUS
  <2> HIDE DEF exact, same
  <2> QED BY <1>2, <2>1, FirstIsFound
<1>4. s # <<>> => 1 \in DOMAIN s
  OBVIOUS
<1>5. FindMatchingInterfaceId(a, s, k) =
        IF First(exact) # 0 THEN s[First(exact)].id
        ELSE IF First(same) # 0 THEN s[First(same)].id
        ELSE IF k = 1 /\ s # <<>> THEN s[1].id ELSE 0
  BY DEF FindMatchingInterfaceId
<1> HIDE DEF exact, same
<1> QED BY <1>3, <1>4, <1>5

\* Those of s that are equal to a have the id.
MeansId(s, a, id) ==
    /\ \E i \in DOMAIN s : s[i].address = a
    /\ \A i \in DOMAIN s : s[i].address = a => s[i].id = id

\* The interface that is equal, where there is one.
LEMMA EqualIsMatched ==
  ASSUME NEW s \in Seq(Interface), NEW a, NEW id, MeansId(s, a, id)
  PROVE  \A k : FindMatchingInterfaceId(a, s, k) = id
<1> DEFINE exact == {i \in DOMAIN s : s[i].address = a}
<1>1. exact \in SUBSET (Nat \ {0}) /\ exact # {}
  BY DEF MeansId
<1>2. First(exact) \in exact
  <2> HIDE DEF exact
  <2> QED BY <1>1, FirstIsFound
<1>3. First(exact) # 0 /\ s[First(exact)].id = id
  BY <1>2, <1>1 DEF MeansId
<1> QED BY <1>3 DEF FindMatchingInterfaceId

-----------------------------------------------------------------------------
(* The interfaces an update leaves. *)

\* Those of request r, the new ones with new ids, before they are listed.
Stored(r, fresh) ==
    [i \in DOMAIN r.interfaces |->
        IF r.interfaces[i].id # 0 THEN r.interfaces[i]
        ELSE [r.interfaces[i] EXCEPT !.id = fresh + i]]

\* They have ids of their own, the old ones where they are the host's.
LEMMA StoredWell ==
  ASSUME NEW p \in Payload, NEW h \in HostRecords, NEW fresh \in Nat,
         Below(h.interfaces, fresh), "interfaces" \in p.fields,
         Valid(BuildHostUpdate(p, h))
  PROVE  LET q == Stored(BuildHostUpdate(p, h), fresh) IN
         /\ q \in Seq(Interface) /\ Len(q) = Len(p.interfaces)
         /\ \A i \in DOMAIN q : q[i].address = p.interfaces[i]
         /\ Below(q, fresh + 1 + Len(p.interfaces))
         /\ IdsDiffer(q)
<1> DEFINE d == p.interfaces
           s == InterfacesWithIds(d, h.interfaces)
           q == Stored(BuildHostUpdate(p, h), fresh)
<1>1. d \in Seq(Addresses) /\ h.interfaces \in Seq(Interface)
  BY DEF Payload, HostRecords
<1>2. /\ BuildHostUpdate(p, h).interfaces = s
      /\ BuildHostUpdate(p, h).fields = p.fields
  BY DEF BuildHostUpdate
<1>3. \A i, j \in DOMAIN d : s[i].id = s[j].id => i = j \/ s[i].id = 0
  BY <1>2 DEF Valid, InterfacesWithIds
<1>4. ASSUME NEW i \in DOMAIN d
      PROVE  /\ s[i] \in Interface /\ s[i].address = d[i]
             /\ s[i].id \in 0 .. fresh - 1 \/ s[i].id = 0
  <2>1. s[i] = [id |-> FindMatchingInterfaceId(d[i], h.interfaces, i), address |-> d[i]]
    BY DEF InterfacesWithIds
  <2>2. \/ FindMatchingInterfaceId(d[i], h.interfaces, i) = 0
        \/ \E k \in DOMAIN h.interfaces :
              FindMatchingInterfaceId(d[i], h.interfaces, i) = h.interfaces[k].id
    BY <1>1, MatchIsListed
  <2>3. FindMatchingInterfaceId(d[i], h.interfaces, i) \in 0 .. fresh - 1
        \/ FindMatchingInterfaceId(d[i], h.interfaces, i) = 0
    BY <2>2 DEF Below
  <2>4. d[i] \in Addresses
    BY <1>1
  <2> QED BY <2>1, <2>3, <2>4 DEF Interface
<1>5. q = [i \in DOMAIN d |-> IF s[i].id # 0 THEN s[i] ELSE [s[i] EXCEPT !.id = fresh + i]]
  BY <1>2 DEF Stored, InterfacesWithIds
<1>6. DOMAIN d = 1 .. Len(d) /\ Len(d) \in Nat
  BY <1>1
<1> HIDE DEF d, s, q
<1>7. ASSUME NEW i \in DOMAIN d
      PROVE  /\ q[i] \in Interface /\ q[i].address = d[i]
             /\ q[i].id \in 1 .. fresh + Len(d)
             /\ q[i].id = IF s[i].id # 0 THEN s[i].id ELSE fresh + i
  <2>1. i \in 1 .. Len(d)
    BY <1>6
  <2>2. CASE s[i].id # 0
    <3>1. q[i] = s[i]
      BY <2>2, <1>5
    <3> QED BY <3>1, <2>2, <1>4, <1>6
  <2>3. CASE s[i].id = 0
    <3>1. q[i] = [s[i] EXCEPT !.id = fresh + i]
      BY <2>3, <1>5
    <3>2. q[i].id = fresh + i /\ q[i].address = s[i].address /\ q[i] \in Interface
      BY <3>1, <1>4, <2>1 DEF Interface
    <3> QED BY <3>2, <2>1, <2>3, <1>4, <1>6
  <2> QED BY <2>2, <2>3
<1>8. DOMAIN q = DOMAIN d /\ q \in Seq(Interface) /\ Len(q) = Len(d)
  <2>1. DOMAIN q = 1 .. Len(d)
    BY <1>5, <1>6
  <2>2. q = [i \in 1 .. Len(d) |-> q[i]]
    BY <1>5, <1>6
  <2> QED BY <2>1, <2>2, <1>6, <1>7
<1>9. IdsDiffer(q)
  <2> SUFFICES ASSUME NEW i \in DOMAIN d, NEW j \in DOMAIN d, q[i].id = q[j].id PROVE i = j
    BY <1>8 DEF IdsDiffer
  <2>1. i \in Nat \ {0} /\ j \in Nat \ {0}
    BY <1>6
  <2>2. CASE s[i].id # 0 /\ s[j].id # 0
    BY <2>2, <1>3, <1>7
  <2>3. CASE s[i].id = 0 \/ s[j].id = 0
    BY <2>1, <2>3, <1>4, <1>7
  <2> QED BY <2>2, <2>3
<1>10. Below(q, fresh + 1 + Len(d))
  BY <1>6, <1>7, <1>8 DEF Below
<1> QED BY <1>7, <1>8, <1>9, <1>10 DEF d, q

\* What an update leaves is a host, whose interfaces have ids of their own.
LEMMA UpdateTyped ==
  ASSUME NEW p \in Payload, NEW h \in HostRecords, NEW fresh \in Nat,
         Below(h.interfaces, fresh), IdsDiffer(h.interfaces), Valid(BuildHostUpdate(p, h))
  PROVE  LET g == Apply(BuildHostUpdate(p, h), h, fresh) IN
         /\ g \in HostRecords
         /\ Below(g.interfaces, fresh + 1 + Len(p.interfaces))
         /\ IdsDiffer(g.interfaces)
<1> DEFINE r == BuildHostUpdate(p, h)
           q == Stored(r, fresh)
           g == Apply(r, h, fresh)
<1>1. /\ p.groups \subseteq GroupIds /\ p.templates \subseteq TemplateIds
      /\ p.tags \subseteq HostTags /\ p.macros \in Partial(Macros, Values)
      /\ Len(p.interfaces) \in Nat
  BY DEF Payload
<1>2. /\ h.groups \subseteq GroupIds /\ h.templates \subseteq TemplateIds
      /\ h.tags \subseteq HostTags /\ h.macros \in Partial(Macros, Values)
      /\ h.interfaces \in Seq(Interface)
  BY DEF HostRecords
<1>3. /\ g.groups = IF "groups" \in p.fields THEN p.groups \union h.groups ELSE h.groups
      /\ g.templates = IF "templates" \in p.fields THEN (h.templates \ p.clear) \union (p.templates \ p.clear)
                       ELSE h.templates \ (h.templates \intersect p.clear)
      /\ g.tags = IF "tags" \in p.fields THEN MergedTagObjects(p.tags, h.tags) ELSE h.tags
      /\ g.macros = IF "macros" \in p.fields THEN MergedMacros(p.macros, h.macros) ELSE h.macros
      /\ g.interfaces = IF "interfaces" \in p.fields THEN ListedById(q) ELSE h.interfaces
      /\ g = [groups |-> g.groups, templates |-> g.templates, tags |-> g.tags, macros |-> g.macros,
              interfaces |-> g.interfaces]
  BY DEF Apply, BuildHostUpdate, MergedGroups, MergedTemplates, TemplatesToClear, Stored
<1>4. MergedTagObjects(p.tags, h.tags) \subseteq HostTags
  BY <1>1, <1>2 DEF MergedTagObjects
<1>5. MergedMacros(p.macros, h.macros) \in Partial(Macros, Values)
  BY <1>1, <1>2, MacrosTyped
<1>6. /\ g.interfaces \in Seq(Interface)
      /\ Below(g.interfaces, fresh + 1 + Len(p.interfaces)) /\ IdsDiffer(g.interfaces)
  <2>1. CASE "interfaces" \in p.fields
    <3>1. /\ q \in Seq(Interface) /\ Len(q) = Len(p.interfaces)
          /\ Below(q, fresh + 1 + Len(p.interfaces)) /\ IdsDiffer(q)
      BY <2>1, StoredWell
    <3> HIDE DEF q
    <3>2. g.interfaces = ListedById(q)
      BY <1>3, <2>1
    <3> HIDE DEF g
    <3> QED BY <3>1, <3>2, ListedTyped
  <2>2. CASE "interfaces" \notin p.fields
    <3>1. g.interfaces = h.interfaces
      BY <1>3, <2>2
    <3> HIDE DEF g
    <3>2. Below(g.interfaces, fresh + 1 + Len(p.interfaces))
      BY <1>1, <3>1, BelowMore
    <3> QED BY <1>2, <3>1, <3>2
  <2> QED BY <2>1, <2>2
<1> HIDE DEF g, r, q
<1>7. g \in HostRecords
  <2>1. g.groups \in SUBSET GroupIds /\ g.templates \in SUBSET TemplateIds /\ g.tags \in SUBSET HostTags
    BY <1>1, <1>2, <1>3, <1>4
  <2>2. g.macros \in Partial(Macros, Values)
    BY <1>2, <1>3, <1>5
  <2> QED BY <1>3, <1>6, <2>1, <2>2 DEF HostRecords
<1> QED BY <1>6, <1>7 DEF g, r

-----------------------------------------------------------------------------
(* An update that is repeated. *)

\* The interfaces of the payload are found again as what they became.
LEMMA StoredAgain ==
  ASSUME NEW p \in Payload, \A i, j \in DOMAIN p.interfaces : p.interfaces[i] = p.interfaces[j] => i = j,
         NEW q \in Seq(Interface), Len(q) = Len(p.interfaces), Numbered(q), IdsDiffer(q),
         \A i \in DOMAIN q : q[i].address = p.interfaces[i]
  PROVE  InterfacesWithIds(p.interfaces, ListedById(q)) = q
<1> DEFINE d == p.interfaces
           t == ListedById(q)
           n == Len(q)
<1>1. d \in Seq(Addresses) /\ n \in Nat /\ DOMAIN d = 1 .. n /\ DOMAIN q = 1 .. n
  BY DEF Payload
<1>2. \A i \in 1 .. n : q[i].id \in Nat /\ q[i] \in Interface /\ q[i].address = d[i]
  BY <1>1 DEF Numbered
<1>3. /\ \A k \in 1 .. n : \E i \in 1 .. n : t[k] = q[i]
      /\ \A i \in 1 .. n : \E k \in 1 .. n : t[k] = q[i]
      /\ DOMAIN t = 1 .. n
  <2> HIDE DEF n
  <2> QED BY <1>1, <1>2, ListedTogether
<1>4. t \in Seq(Interface)
  BY <1>1, <1>2, ListedTyped
<1> HIDE DEF t, n, d
<1>5. ASSUME NEW i \in 1 .. n PROVE FindMatchingInterfaceId(d[i], t, i) = q[i].id
  <2>1. \E k \in DOMAIN t : t[k].address = d[i]
    <3>1. PICK k \in 1 .. n : t[k] = q[i]
      BY <1>3
    <3>2. q[i].address = d[i] /\ k \in DOMAIN t
      BY <1>2, <1>3
    <3> QED BY <3>1, <3>2
  <2>2. ASSUME NEW k \in DOMAIN t, t[k].address = d[i] PROVE t[k].id = q[i].id
    <3>1. PICK j \in 1 .. n : t[k] = q[j]
      BY <1>3
    <3>2. d[j] = d[i]
      BY <2>2, <3>1, <1>2
    <3>3. j = i
      BY <3>2, <1>1 DEF d
    <3> QED BY <3>1, <3>3
  <2>3. \A k \in DOMAIN t : t[k].address = d[i] => t[k].id = q[i].id
    BY <2>2
  <2>4. MeansId(t, d[i], q[i].id)
    BY <2>1, <2>3 DEF MeansId
  <2> QED BY <1>4, <2>4, EqualIsMatched
<1>6. ASSUME NEW i \in 1 .. n PROVE [id |-> q[i].id, address |-> d[i]] = q[i]
  <2>1. q[i] \in Interface /\ q[i].address = d[i]
    BY <1>1, <1>2 DEF d
  <2> QED BY <2>1 DEF Interface
<1>7. InterfacesWithIds(d, t) = [i \in 1 .. n |-> q[i]]
  BY <1>1, <1>5, <1>6 DEF InterfacesWithIds
<1>8. q = [i \in 1 .. n |-> q[i]]
  BY <1>1 DEF n
<1> QED BY <1>7, <1>8 DEF d, t

(* Applied to what it left, a payload is accepted and changes nothing.     *)
LEMMA RepeatedIsNoop ==
  ASSUME NEW p \in Payload, \A i, j \in DOMAIN p.interfaces : p.interfaces[i] = p.interfaces[j] => i = j,
         NEW h \in HostRecords, NEW fresh \in Nat, NEW later,
         Below(h.interfaces, fresh), IdsDiffer(h.interfaces), Valid(BuildHostUpdate(p, h))
  PROVE  LET g == Apply(BuildHostUpdate(p, h), h, fresh)
             r == BuildHostUpdate(p, g)
         IN  Valid(r) /\ Apply(r, g, later) = g
<1> DEFINE q == Stored(BuildHostUpdate(p, h), fresh)
           g == Apply(BuildHostUpdate(p, h), h, fresh)
           r == BuildHostUpdate(p, g)
<1>1. /\ g.groups = IF "groups" \in p.fields THEN p.groups \union h.groups ELSE h.groups
      /\ g.templates = IF "templates" \in p.fields THEN (h.templates \ p.clear) \union (p.templates \ p.clear)
                       ELSE h.templates \ (h.templates \intersect p.clear)
      /\ g.tags = IF "tags" \in p.fields THEN MergedTagObjects(p.tags, h.tags) ELSE h.tags
      /\ g.macros = IF "macros" \in p.fields THEN MergedMacros(p.macros, h.macros) ELSE h.macros
      /\ g.interfaces = IF "interfaces" \in p.fields THEN ListedById(q) ELSE h.interfaces
      /\ g = [groups |-> g.groups, templates |-> g.templates, tags |-> g.tags, macros |-> g.macros,
              interfaces |-> g.interfaces]
  BY DEF Apply, BuildHostUpdate, MergedGroups, MergedTemplates, TemplatesToClear, Stored
<1>2. h.macros \in Partial(Macros, Values) /\ p.macros \in Partial(Macros, Values)
  BY DEF HostRecords, Payload
<1> HIDE DEF g
<1>3. /\ r.fields = p.fields
      /\ r.groups = g.groups \union p.groups
      /\ r.templates = (g.templates \ p.clear) \union (p.templates \ p.clear)
      /\ r.clear = g.templates \intersect p.clear
      /\ r.tags = MergedTagObjects(p.tags, g.tags)
      /\ r.macros = MergedMacros(p.macros, g.macros)
      /\ r.interfaces = InterfacesWithIds(p.interfaces, g.interfaces)
  BY DEF BuildHostUpdate, MergedGroups, MergedTemplates, TemplatesToClear
<1> HIDE DEF r
<1>4. r.clear = {}
  BY <1>1, <1>3
<1>5. "interfaces" \in p.fields =>
        /\ r.interfaces = q /\ Stored(r, later) = q /\ g.interfaces = ListedById(q) /\ IdsDiffer(q)
  <2> SUFFICES ASSUME "interfaces" \in p.fields
               PROVE  r.interfaces = q /\ Stored(r, later) = q /\ g.interfaces = ListedById(q) /\ IdsDiffer(q)
    OBVIOUS
  <2>1. /\ q \in Seq(Interface) /\ Len(q) = Len(p.interfaces)
        /\ \A i \in DOMAIN q : q[i].address = p.interfaces[i]
        /\ Below(q, fresh + 1 + Len(p.interfaces)) /\ IdsDiffer(q)
    BY StoredWell
  <2>2. g.interfaces = ListedById(q)
    BY <1>1
  <2> HIDE DEF q
  <2>3. Numbered(q)
    BY <2>1, BelowNumbers
  <2>4. r.interfaces = q
    BY <2>1, <2>2, <2>3, <1>3, StoredAgain
  <2>5. Stored(r, later) = [i \in DOMAIN q |-> q[i]]
    BY <2>3, <2>4 DEF Stored, Numbered
  <2>6. q = [i \in DOMAIN q |-> q[i]]
    BY <2>1
  <2> QED BY <2>1, <2>2, <2>4, <2>5, <2>6
<1>6. Valid(r)
  <2>1. r.templates \intersect r.clear = {}
    BY <1>4
  <2> HIDE DEF q
  <2> QED BY <2>1, <1>3, <1>5 DEF Valid, IdsDiffer
<1>7. Apply(r, g, later) =
        [groups |-> IF "groups" \in p.fields THEN r.groups ELSE g.groups,
         templates |-> IF "templates" \in p.fields THEN r.templates ELSE g.templates \ r.clear,
         tags |-> IF "tags" \in p.fields THEN r.tags ELSE g.tags,
         macros |-> IF "macros" \in p.fields THEN r.macros ELSE g.macros,
         interfaces |-> IF "interfaces" \in p.fields THEN ListedById(Stored(r, later)) ELSE g.interfaces]
  BY <1>3 DEF Apply, Stored
<1>8. "groups" \in p.fields => r.groups = g.groups
  BY <1>1, <1>3
<1>9. "templates" \in p.fields => r.templates = g.templates
  BY <1>1, <1>3
<1>10. "tags" \in p.fields => r.tags = g.tags
  BY <1>1, <1>3 DEF MergedTagObjects
<1>11. "macros" \in p.fields => r.macros = g.macros
  BY <1>1, <1>2, <1>3, MacrosAgain
<1>12. "interfaces" \in p.fields => ListedById(Stored(r, later)) = g.interfaces
  <2> HIDE DEF q
  <2> QED BY <1>5
<1>13. Apply(r, g, later) = g
  <2> HIDE DEF q
  <2> QED BY <1>1, <1>4, <1>7, <1>8, <1>9, <1>10, <1>11, <1>12
<1> QED BY <1>6, <1>13 DEF g, r

-----------------------------------------------------------------------------
(* What an administrator set is kept.                                      *)

Kept(f, h) ==
    /\ f.groups \subseteq h.groups
    /\ f.templates \subseteq h.templates
    /\ \A m \in DOMAIN f.macros : m \in DOMAIN h.macros /\ h.macros[m] = f.macros[m]
    /\ \A t \in f.tags : \E u \in h.tags : u.key = t.key

\* By an update, where the payload does not name it.
LEMMA UpdateKeeps ==
  ASSUME NEW p \in Payload, NEW h, NEW fresh, Kept(foreign, h)
  PROVE  Kept(StillForeign(p), Apply(BuildHostUpdate(p, h), h, fresh))
<1> DEFINE g == Apply(BuildHostUpdate(p, h), h, fresh)
           f == StillForeign(p)
<1>1. f.groups \subseteq g.groups
  BY DEF Kept, StillForeign, Apply, BuildHostUpdate, MergedGroups
<1>2. f.templates \subseteq g.templates
  BY DEF Kept, StillForeign, Apply, BuildHostUpdate, MergedTemplates, TemplatesToClear
<1>3. \A m \in DOMAIN f.macros : m \in DOMAIN g.macros /\ g.macros[m] = f.macros[m]
  BY DEF Kept, StillForeign, Apply, BuildHostUpdate, MergedMacros
<1>4. ASSUME NEW t \in f.tags PROVE \E u \in g.tags : u.key = t.key
  <2>1. CASE "tags" \in p.fields
    <3>1. g.tags = MergedTagObjects(p.tags, h.tags) /\ t \in foreign.tags
      BY <2>1 DEF Apply, BuildHostUpdate, StillForeign
    <3>2. PICK u \in h.tags : u.key = t.key
      BY <3>1 DEF Kept
    <3>3. CASE \A d \in p.tags : d.key # u.key
      BY <3>1, <3>2, <3>3 DEF MergedTagObjects
    <3>4. CASE \E d \in p.tags : d.key = u.key
      BY <3>1, <3>2, <3>4 DEF MergedTagObjects
    <3> QED BY <3>3, <3>4
  <2>2. CASE "tags" \notin p.fields
    <3>1. g.tags = h.tags /\ t \in foreign.tags
      BY <2>2 DEF Apply, BuildHostUpdate, StillForeign
    <3> QED BY <3>1 DEF Kept
  <2> QED BY <2>1, <2>2
<1> QED BY <1>1, <1>2, <1>3, <1>4 DEF Kept

\* What no payload has named stays of its type.
LEMMA ForeignTyped ==
  ASSUME NEW p \in Payload, foreign \in ForeignRecords
  PROVE  StillForeign(p) \in ForeignRecords
<1> DEFINE f == StillForeign(p)
<1>1. foreign.macros \in Partial(Macros, Values)
  BY DEF ForeignRecords
<1>2. DOMAIN foreign.macros \in SUBSET Macros /\ foreign.macros \in [DOMAIN foreign.macros -> Values]
  BY <1>1 DEF Partial
<1> DEFINE rest == [m \in DOMAIN foreign.macros \ DOMAIN p.macros |-> foreign.macros[m]]
<1>3. rest \in Partial(Macros, Values)
  <2>1. DOMAIN rest \subseteq Macros /\ rest \in [DOMAIN rest -> Values]
    BY <1>2
  <2> HIDE DEF rest
  <2> QED BY <2>1, SomeIsPartial
<1>4. f.macros \in Partial(Macros, Values)
  BY <1>1, <1>3 DEF StillForeign
<1>5. /\ f.groups \in SUBSET GroupIds /\ f.templates \in SUBSET TemplateIds
      /\ f.tags \in SUBSET HostTags
  BY DEF StillForeign, ForeignRecords
<1>6. f = [groups |-> f.groups, templates |-> f.templates, tags |-> f.tags, macros |-> f.macros]
  BY DEF StillForeign
<1> HIDE DEF f
<1> QED BY <1>4, <1>5, <1>6 DEF ForeignRecords, f

(* The interfaces of a host have ids of their own, what administrators set *)
(* is kept, and the last update would change nothing if repeated.          *)
MergeInv == MergeTypeOK /\ Kept(foreign, host) /\ SecondUpdateIsNoop

\* It holds of a host the rules created.
LEMMA MergeInitially == MergeInit => MergeInv
<1> SUFFICES ASSUME MergeInit PROVE MergeInv
  OBVIOUS
<1>1. PICK p \in Payloads : host = Created(p) /\ nextId = Len(p.interfaces) + 1
  BY DEF MergeInit
<1>2. p \in Payload /\ MaxSteps \in Nat
  BY MergeAssumption
<1>3. p.interfaces \in Seq(Addresses) /\ Len(p.interfaces) \in Nat
      /\ DOMAIN p.interfaces = 1 .. Len(p.interfaces)
  BY <1>2 DEF Payload
<1> DEFINE s == [i \in DOMAIN p.interfaces |-> [id |-> i, address |-> p.interfaces[i]]]
<1>4. s \in Seq(Interface) /\ DOMAIN s = 1 .. Len(p.interfaces)
  <2>1. \A i \in 1 .. Len(p.interfaces) : s[i] \in Interface
    BY <1>3 DEF Interface
  <2>2. s \in [1 .. Len(p.interfaces) -> Interface]
    BY <1>3, <2>1
  <2> HIDE DEF s
  <2> QED BY <1>3, <2>2, ListIsSeq
<1>5. \A i \in DOMAIN s : s[i].id = i
  OBVIOUS
<1>6. host = [groups |-> p.groups, templates |-> p.templates, tags |-> p.tags,
              macros |-> p.macros, interfaces |-> s]
  BY <1>1 DEF Created
<1> HIDE DEF s
<1>7. host \in HostRecords
  BY <1>2, <1>4, <1>6 DEF Payload, HostRecords
<1>8. \A i \in DOMAIN host.interfaces : host.interfaces[i].id \in 1 .. nextId - 1
  BY <1>1, <1>3, <1>4, <1>5, <1>6
<1>9. foreign \in ForeignRecords
  <2>1. << >> \in Partial(Macros, Values)
    BY DEF Partial
  <2> QED BY <2>1 DEF MergeInit, ForeignRecords
<1>10. MergeTypeOK
  BY <1>1, <1>2, <1>3, <1>4, <1>5, <1>6, <1>7, <1>8, <1>9 DEF MergeInit, MergeTypeOK
<1>11. Kept(foreign, host)
  BY DEF Kept, MergeInit
<1> QED BY <1>10, <1>11 DEF MergeInv, SecondUpdateIsNoop, MergeInit

\* An update keeps it.
LEMMA UpdateStep ==
  ASSUME MergeInv, NEW p \in Payloads, Update(p)
  PROVE  MergeInv'
<1>1. p \in Payload /\ (\A i, j \in DOMAIN p.interfaces : p.interfaces[i] = p.interfaces[j] => i = j)
      /\ MaxSteps \in Nat /\ Len(p.interfaces) \in Nat
  BY MergeAssumption DEF Payload
<1>2. /\ host \in HostRecords /\ nextId \in Nat /\ foreign \in ForeignRecords
      /\ steps \in 0 .. MaxSteps /\ Below(host.interfaces, nextId) /\ IdsDiffer(host.interfaces)
      /\ Kept(foreign, host)
  BY DEF MergeInv, MergeTypeOK, Below, IdsDiffer
<1>3. steps' \in 0 .. MaxSteps
  BY <1>1, <1>2 DEF Update, Step
<1>4. CASE Valid(BuildHostUpdate(p, host))
  <2> DEFINE g == Apply(BuildHostUpdate(p, host), host, nextId)
  <2>1. /\ host' = g /\ nextId' = nextId + 1 + Len(p.interfaces)
        /\ last' = p /\ foreign' = StillForeign(p)
    <3>1. Len(BuildHostUpdate(p, host).interfaces) = Len(p.interfaces)
      BY <1>1 DEF BuildHostUpdate, InterfacesWithIds, Payload
    <3> QED BY <1>4, <3>1 DEF Update
  <2>2. /\ g \in HostRecords /\ IdsDiffer(g.interfaces)
        /\ Below(g.interfaces, nextId + 1 + Len(p.interfaces))
    BY <1>1, <1>2, <1>4, UpdateTyped
  <2>3. Kept(StillForeign(p), g) /\ StillForeign(p) \in ForeignRecords
    BY <1>1, <1>2, UpdateKeeps, ForeignTyped
  <2>4. \A n : LET r == BuildHostUpdate(p, g) IN Valid(r) /\ Apply(r, g, n) = g
    BY <1>1, <1>2, <1>4, RepeatedIsNoop
  <2> HIDE DEF g
  <2>5. MergeTypeOK'
    <3>1. host' \in HostRecords /\ foreign' \in ForeignRecords /\ last' \in Payloads
      BY <2>1, <2>2, <2>3
    <3>4. nextId' \in Nat
      <4>1. nextId' = nextId + 1 + Len(p.interfaces) /\ nextId \in Nat /\ Len(p.interfaces) \in Nat
        BY <1>1, <1>2, <2>1
      <4>2. \A a, b \in Nat : a + 1 + b \in Nat
        OBVIOUS
      <4> QED BY <4>1, <4>2
    <3>2. \A i \in DOMAIN host'.interfaces : host'.interfaces[i].id \in 1 .. nextId' - 1
      BY <2>1, <2>2 DEF Below
    <3>3. \A i, j \in DOMAIN host'.interfaces : host'.interfaces[i].id = host'.interfaces[j].id => i = j
      BY <2>1, <2>2 DEF IdsDiffer
    <3> QED BY <1>3, <3>1, <3>2, <3>3, <3>4 DEF MergeTypeOK
  <2>6. SecondUpdateIsNoop'
    BY <2>1, <2>4 DEF SecondUpdateIsNoop
  <2>7. Kept(foreign, host)'
    BY <2>1, <2>3
  <2> QED BY <2>5, <2>6, <2>7 DEF MergeInv
<1>5. CASE ~Valid(BuildHostUpdate(p, host))
  <2>1. last' = <<>> /\ UNCHANGED <<host, nextId, foreign>>
    BY <1>5 DEF Update
  <2>2. MergeTypeOK'
    BY <1>3, <2>1 DEF MergeInv, MergeTypeOK
  <2>3. Kept(foreign, host)'
    BY <1>2, <2>1
  <2> QED BY <2>1, <2>2, <2>3 DEF MergeInv, SecondUpdateIsNoop
<1> QED BY <1>4, <1>5

\* So does an edit that keeps what was set before.
LEMMA EditStep ==
  ASSUME MergeInv, NEW h \in HostRecords, NEW f \in ForeignRecords, Edit(h, f),
         h.interfaces = host.interfaces, Kept(f, h)
  PROVE  MergeInv'
<1>1. host' = h /\ foreign' = f /\ last' = <<>> /\ nextId' = nextId /\ steps' = steps + 1 /\ steps < MaxSteps
  BY DEF Edit, Step
<1>2. MergeTypeOK'
  <2>1. steps' \in 0 .. MaxSteps
    BY <1>1, MergeAssumption DEF MergeInv, MergeTypeOK
  <2> QED BY <1>1, <2>1 DEF MergeInv, MergeTypeOK
<1>3. Kept(foreign, host)'
  BY <1>1
<1> QED BY <1>1, <1>2, <1>3 DEF MergeInv, SecondUpdateIsNoop

\* Nothing else happens.
LEMMA MergeStep == MergeInv /\ [MergeNext]_mergeVars => MergeInv'
<1> SUFFICES ASSUME MergeInv, [MergeNext]_mergeVars PROVE MergeInv'
  OBVIOUS
<1>1. host \in HostRecords /\ foreign \in ForeignRecords /\ Kept(foreign, host)
  BY DEF MergeInv, MergeTypeOK
<1>2. ASSUME NEW p \in Payloads, Update(p) PROVE MergeInv'
  BY <1>2, UpdateStep
<1>3. ASSUME NEW g \in GroupIds, AddGroup(g) PROVE MergeInv'
  <2> DEFINE h == [host EXCEPT !.groups = @ \union {g}]
             f == [foreign EXCEPT !.groups = @ \union {g}]
  <2>1. h \in HostRecords /\ f \in ForeignRecords /\ h.interfaces = host.interfaces /\ Kept(f, h)
    BY <1>1 DEF HostRecords, ForeignRecords, Kept
  <2>2. Edit(h, f)
    BY <1>3 DEF AddGroup
  <2> HIDE DEF h, f
  <2> QED BY <2>1, <2>2, EditStep
<1>4. ASSUME NEW t \in TemplateIds, LinkTemplate(t) PROVE MergeInv'
  <2> DEFINE h == [host EXCEPT !.templates = @ \union {t}]
             f == [foreign EXCEPT !.templates = @ \union {t}]
  <2>1. h \in HostRecords /\ f \in ForeignRecords /\ h.interfaces = host.interfaces /\ Kept(f, h)
    BY <1>1 DEF HostRecords, ForeignRecords, Kept
  <2>2. Edit(h, f)
    BY <1>4 DEF LinkTemplate
  <2> HIDE DEF h, f
  <2> QED BY <2>1, <2>2, EditStep
<1>5. ASSUME NEW t \in HostTags, AddTag(t) PROVE MergeInv'
  <2> DEFINE h == [host EXCEPT !.tags = @ \union {t}]
             f == [foreign EXCEPT !.tags = @ \union {t}]
  <2>1. h \in HostRecords /\ f \in ForeignRecords /\ h.interfaces = host.interfaces /\ Kept(f, h)
    BY <1>1 DEF HostRecords, ForeignRecords, Kept
  <2>2. Edit(h, f)
    BY <1>5 DEF AddTag
  <2> HIDE DEF h, f
  <2> QED BY <2>1, <2>2, EditStep
<1>6. ASSUME NEW m \in Macros, NEW v \in Values, SetMacro(m, v) PROVE MergeInv'
  <2> DEFINE d == [k \in {m} |-> v]
             h == [host EXCEPT !.macros = MergedMacros(d, host.macros)]
             f == [foreign EXCEPT !.macros = MergedMacros(d, foreign.macros)]
  <2>1. d \in Partial(Macros, Values)
    <3>1. DOMAIN d \subseteq Macros /\ d \in [DOMAIN d -> Values]
      OBVIOUS
    <3> HIDE DEF d
    <3> QED BY <3>1, SomeIsPartial
  <2>2. host.macros \in Partial(Macros, Values) /\ foreign.macros \in Partial(Macros, Values)
    BY <1>1 DEF HostRecords, ForeignRecords
  <2>3. Edit(h, f)
    BY <1>6 DEF SetMacro
  <2> HIDE DEF d
  <2>4. /\ MergedMacros(d, host.macros) \in Partial(Macros, Values)
        /\ MergedMacros(d, foreign.macros) \in Partial(Macros, Values)
    BY <2>1, <2>2, MacrosTyped
  <2>5. h \in HostRecords /\ f \in ForeignRecords /\ h.interfaces = host.interfaces
    BY <1>1, <2>4 DEF HostRecords, ForeignRecords
  <2>6. /\ h.macros = MergedMacros(d, host.macros) /\ f.macros = MergedMacros(d, foreign.macros)
        /\ h.groups = host.groups /\ h.templates = host.templates /\ h.tags = host.tags
        /\ f.groups = foreign.groups /\ f.templates = foreign.templates /\ f.tags = foreign.tags
    BY <1>1 DEF HostRecords, ForeignRecords
  <2> HIDE DEF h, f
  <2>7. Kept(f, h)
    BY <1>1, <2>6 DEF Kept, MergedMacros
  <2> QED BY <2>3, <2>5, <2>7, EditStep
<1>7. CASE UNCHANGED mergeVars
  BY <1>7 DEF MergeInv, MergeTypeOK, Kept, SecondUpdateIsNoop, mergeVars
<1> QED BY <1>2, <1>3, <1>4, <1>5, <1>6, <1>7 DEF MergeNext

\* The invariant holds of every host.
LEMMA MergeAlways == MergeSpec => []MergeInv
  BY MergeInitially, MergeStep, PTL DEF MergeSpec

(* What an administrator set in Zabbix is still there after any number of  *)
(* updates, unless a payload named it.                                     *)
THEOREM ForeignKept == MergeSpec => []ExternalKept
<1>1. MergeInv => ExternalKept
  BY DEF MergeInv, Kept, ExternalKept
<1> QED BY <1>1, MergeAlways, PTL

\* An update that is repeated is accepted and changes nothing.
THEOREM RepetitionHarmless == MergeSpec => []SecondUpdateIsNoop
<1>1. MergeInv => SecondUpdateIsNoop
  BY DEF MergeInv
<1> QED BY <1>1, MergeAlways, PTL
=============================================================================
