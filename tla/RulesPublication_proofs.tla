------------------------ MODULE RulesPublication_proofs ------------------------
(***************************************************************************)
(* Proofs about RulesPublication, for any contents, editors, other users   *)
(* of the converter and bounds: no editor writes over another's work, an   *)
(* editor who is told "applied" has his rules in the converter, and the    *)
(* converter never loads stale rules.                                      *)
(*                                                                         *)
(* Three facts carry them.  Only the head of the queue is past its first   *)
(* read, so from there on the file is the editor's (QueueInv, BaseInv).    *)
(* What the file holds since is what the load of the reload endpoint can   *)
(* find (HeldInv).  The cache is never newer than the file, and as long as *)
(* no two writes left the same time, equal times mean equal contents       *)
(* (CacheInv).                                                             *)
(***************************************************************************)
EXTENDS RulesPublication, TLAPS

Work == {"write", "save", "reload"}

\* Every waiting operation waits once; the head alone is at work.
QueueInv ==
    /\ \A i \in DOMAIN queue : request[queue[i]].stage \in {"queued"} \union Work
    /\ \A r \in Requests : request[r].stage \in Work => Running(r)

\* Between its comparison and its write an editor's draft is one of the file.
BaseInv ==
    \A r \in Requests : request[r].stage = "write" =>
        file.by = "other" \/ file.doc = request[r].base

\* What the reload of a request can find and has found.
HeldInv ==
    \A r \in Requests :
        /\ request[r].stage \in {"save", "reload"} => file.doc \in held[r]
        /\ request[r].stage = "reload" /\ load[r].stage = "idle"
               => load[r].result \in held[r] \union {None}
        /\ request[r].stage = "applied"
               => load[r].stage = "idle" /\ load[r].result \in held[r]

CacheInv ==
    /\ cached.time <= file.time
    /\ \A l \in Loaders : load[l].time <= file.time
    /\ ~tied /\ cached.doc # None /\ cached.time = file.time => cached.doc = file.doc

DuringInv ==
    \A l \in Loaders : load[l].stage # "idle" => file.doc \in during[l]

IInv == /\ TypeOK
        /\ QueueInv
        /\ BaseInv
        /\ HeldInv
        /\ CacheInv
        /\ DuringInv
        /\ LoadsAreCurrent

-----------------------------------------------------------------------------
(* Types. *)

RequestType == [kind : {"publish", "retry"}, doc : Docs, base : Docs \union {None}, stage : Stages]
LoadType == [stage : {"idle", "waiting", "reading"}, time : Nat, result : Docs \union {None}]

\* Initially the types hold.
LEMMA InitType == Init => TypeOK
  <1> SUFFICES ASSUME Init PROVE TypeOK
    OBVIOUS
  <1>1. PICK plan \in Plans :
          request = [r \in Requests |-> [kind |-> plan[r].kind, doc |-> plan[r].doc,
                                         base |-> None, stage |-> "new"]]
    BY DEF Init
  <1>2. \A r \in Requests : plan[r].kind \in {"publish", "retry"} /\ plan[r].doc \in Docs
    BY RulesAssumption
  <1>3. request \in [Requests -> RequestType]
    BY <1>1, <1>2 DEF RequestType, Stages
  <1>4. file \in [doc : Docs, time : Nat, by : {"bff", "other"}]
    BY RulesAssumption DEF Init
  <1>5. queue \in Seq(Requests) /\ IsInjective(queue)
    BY DEF Init, IsInjective
  <1>6. load \in [Loaders -> LoadType] /\ lock \in Loaders \union {None}
    BY DEF Init, LoadType
  <1>7. /\ cached \in [doc : ConverterValid \union {None}, time : Nat]
        /\ held \in [Requests -> SUBSET Docs] /\ during \in [Loaders -> SUBSET Docs]
        /\ tied \in BOOLEAN
    BY DEF Init
  <1>8. edits \in 0 .. MaxEdits /\ calls \in 0 .. MaxCalls /\ faults \in 0 .. MaxFaults
    BY RulesAssumption DEF Init
  <1> QED BY <1>3, <1>4, <1>5, <1>6, <1>7, <1>8 DEF TypeOK, RequestType, LoadType

\* Stage moves one request and nothing else of it.
LEMMA StageType ==
    ASSUME TypeOK, NEW r \in Requests, NEW s \in Stages, Stage(r, s)
    PROVE  /\ request' \in [Requests -> RequestType]
           /\ request'[r].stage = s
           /\ \A q \in Requests : /\ request'[q].kind = request[q].kind
                                  /\ request'[q].doc = request[q].doc
                                  /\ request'[q].base = request[q].base
                                  /\ q # r => request'[q] = request[q]
  BY DEF TypeOK, Stage, RequestType

\* The head leaves the queue, the others stay as they are.
LEMMA QueueTail ==
    ASSUME TypeOK, queue # <<>>
    PROVE  /\ Tail(queue) \in Seq(Requests) /\ IsInjective(Tail(queue))
           /\ Head(queue) \in Requests
           /\ \A i \in DOMAIN Tail(queue) :
                 /\ i + 1 \in DOMAIN queue /\ Tail(queue)[i] = queue[i + 1]
                 /\ Tail(queue)[i] # Head(queue)
  <1>1. queue \in Seq(Requests) /\ IsInjective(queue)
    BY DEF TypeOK
  <1>2. /\ Tail(queue) \in Seq(Requests) /\ Head(queue) = queue[1]
        /\ Head(queue) \in Requests /\ 1 \in DOMAIN queue
    BY <1>1
  <1>3. \A i \in DOMAIN Tail(queue) : /\ i \in Nat /\ i # 0 /\ i + 1 \in DOMAIN queue
                                      /\ Tail(queue)[i] = queue[i + 1]
    BY <1>1
  <1>4. \A i, j \in DOMAIN queue : queue[i] = queue[j] => i = j
    BY <1>1 DEF IsInjective
  <1>5. \A i \in DOMAIN Tail(queue) : Tail(queue)[i] # Head(queue)
    BY <1>2, <1>3, <1>4
  <1>6. IsInjective(Tail(queue))
    BY <1>3, <1>4 DEF IsInjective
  <1> QED BY <1>2, <1>3, <1>5, <1>6

\* A request that joins the queue joins it once, behind its head.
LEMMA QueueAppend ==
    ASSUME TypeOK, QueueInv, NEW r \in Requests, request[r].stage \in {"new", "open"}
    PROVE  /\ Append(queue, r) \in Seq(Requests) /\ IsInjective(Append(queue, r))
           /\ DOMAIN Append(queue, r) = DOMAIN queue \union {Len(queue) + 1}
           /\ Append(queue, r)[Len(queue) + 1] = r
           /\ \A i \in DOMAIN queue : Append(queue, r)[i] = queue[i] /\ queue[i] # r
           /\ queue # <<>> => Append(queue, r) # <<>> /\ Head(Append(queue, r)) = Head(queue)
  <1>1. queue \in Seq(Requests) /\ IsInjective(queue)
    BY DEF TypeOK
  <1>2. /\ Append(queue, r) \in Seq(Requests)
        /\ DOMAIN Append(queue, r) = DOMAIN queue \union {Len(queue) + 1}
        /\ Append(queue, r)[Len(queue) + 1] = r
        /\ \A i \in DOMAIN queue : Append(queue, r)[i] = queue[i]
    BY <1>1
  <1>5. queue # <<>> => Append(queue, r) # <<>> /\ Head(Append(queue, r)) = Head(queue)
    <2> SUFFICES ASSUME queue # <<>>
                 PROVE  Append(queue, r) # <<>> /\ Head(Append(queue, r)) = Head(queue)
      OBVIOUS
    <2>1. 1 \in DOMAIN queue /\ Head(queue) = queue[1]
      BY <1>1
    <2>2. Append(queue, r) # <<>> /\ Head(Append(queue, r)) = Append(queue, r)[1]
      BY <1>1
    <2> QED BY <1>2, <2>1, <2>2
  <1>3. \A i \in DOMAIN queue : queue[i] # r
    BY DEF QueueInv, Work
  <1>4. IsInjective(Append(queue, r))
    BY <1>1, <1>2, <1>3 DEF IsInjective
  <1> QED BY <1>2, <1>3, <1>4, <1>5

\* The file's new content, its time and what the loads under way have seen.
LEMMA ReplaceType ==
    ASSUME TypeOK, NEW d \in Docs, NEW who \in {"bff", "other"}, Replace(d, who)
    PROVE  /\ file' \in [doc : Docs, time : Nat, by : {"bff", "other"}]
           /\ file'.doc = d /\ file'.by = who
           /\ file'.time >= file.time
           /\ tied' \in BOOLEAN
           /\ ~tied' => ~tied /\ file'.time > file.time
           /\ during' \in [Loaders -> SUBSET Docs]
           /\ \A l \in Loaders :
                 /\ load[l].stage # "idle" => d \in during'[l]
                 /\ load[l].stage = "idle" => during'[l] = during[l]
  <1>1. PICK t \in {file.time + 1} \union (IF CoarseClock THEN {file.time} ELSE {}) :
              /\ file' = [doc |-> d, time |-> t, by |-> who]
              /\ tied' = (tied \/ t = file.time)
    BY DEF Replace
  <1>2. file.time \in Nat /\ t \in {file.time, file.time + 1}
    BY <1>1 DEF TypeOK
  <1>3. /\ file' \in [doc : Docs, time : Nat, by : {"bff", "other"}]
        /\ file'.doc = d /\ file'.by = who /\ file'.time >= file.time
    BY <1>1, <1>2
  <1>4. tied' \in BOOLEAN /\ (~tied' => ~tied /\ file'.time > file.time)
    <2>1. CASE t = file.time
      <3>1. tied' = TRUE
        BY <1>1, <2>1, Zenon
      <3> QED BY <3>1
    <2>2. CASE t = file.time + 1
      <3>1. t # file.time /\ file'.time > file.time
        BY <1>1, <1>2, <2>2
      <3>2. tied' = tied /\ tied \in BOOLEAN
        BY <1>1, <3>1, Zenon DEF TypeOK
      <3> QED BY <3>1, <3>2
    <2> QED BY <1>2, <2>1, <2>2
  <1>5. during' = [l \in Loaders |-> IF load[l].stage = "idle" THEN during[l]
                                     ELSE during[l] \union {d}]
    BY DEF Replace
  <1>6. during' \in [Loaders -> SUBSET Docs]
    BY <1>5 DEF TypeOK
  <1> QED BY <1>3, <1>4, <1>5, <1>6

CountersOK == edits \in 0 .. MaxEdits /\ calls \in 0 .. MaxCalls /\ faults \in 0 .. MaxFaults

ConverterInv == CacheInv /\ DuringInv /\ LoadsAreCurrent

\* Steps that leave file and converter alone keep what is said of them.
LEMMA ConverterKept ==
    ASSUME IInv, UNCHANGED <<file, load, cached, tied, during>>
    PROVE  ConverterInv'
  BY DEF IInv, ConverterInv, CacheInv, DuringInv, LoadsAreCurrent

\* Initially nobody is at work.
LEMMA InitInv == Init => IInv
  <1> SUFFICES ASSUME Init PROVE IInv
    OBVIOUS
  <1>1. TypeOK
    BY InitType
  <1>2. \A r \in Requests : request[r].stage = "new"
    BY DEF Init
  <1>3. QueueInv /\ BaseInv /\ HeldInv
    BY <1>2 DEF Init, QueueInv, BaseInv, HeldInv, Work
  <1>4. CacheInv /\ DuringInv /\ LoadsAreCurrent
    BY DEF Init, CacheInv, DuringInv, LoadsAreCurrent
  <1> QED BY <1>1, <1>3, <1>4 DEF IInv

-----------------------------------------------------------------------------
(* The steps of the BFF. *)

\* A request moves to a stage outside the queue, or stays waiting in it.
LEMMA OpenInv == ASSUME IInv, NEW r \in Requests, Open(r) PROVE IInv'
  <1>1. /\ request[r].stage = "new"
        /\ request' = [request EXCEPT ![r].stage = "open", ![r].base = file.doc]
        /\ UNCHANGED <<file, queue, load, lock, cached, held, during, tied, edits, calls, faults>>
    BY DEF Open, converter, history, counters
  <1>2. request \in [Requests -> RequestType] /\ file.doc \in Docs
    BY DEF IInv, TypeOK, RequestType
  <1>3. /\ request' \in [Requests -> RequestType]
        /\ request'[r].stage = "open"
        /\ \A q \in Requests : q # r => request'[q] = request[q]
    BY <1>1, <1>2 DEF RequestType, Stages
  <1>4. TypeOK'
    BY <1>1, <1>3 DEF IInv, TypeOK, RequestType
  <1>5. queue \in Seq(Requests)
    BY DEF IInv, TypeOK
  <1>6. QueueInv'
    <2>1. \A i \in DOMAIN queue : queue[i] \in Requests /\ queue[i] # r
      BY <1>1, <1>5 DEF IInv, QueueInv, Work
    <2> QED BY <1>1, <1>3, <2>1 DEF IInv, QueueInv, Work, Running
  <1>7. BaseInv' /\ HeldInv'
    BY <1>1, <1>3 DEF IInv, BaseInv, HeldInv
  <1> QED BY <1>1, <1>4, <1>6, <1>7, ConverterKept DEF IInv, ConverterInv

\* A request joins the serial executor's chain.
LEMMA SubmitInv == ASSUME IInv, NEW r \in Requests, Submit(r) PROVE IInv'
  <1>1. /\ request[r].stage \in {"new", "open"}
        /\ UNCHANGED <<file, load, lock, cached, held, during, tied, edits, calls, faults>>
    BY DEF Submit, converter, history, counters
  <1>2. TypeOK /\ queue \in Seq(Requests)
    BY DEF IInv, TypeOK
  <1>3. \A i \in DOMAIN queue : queue[i] \in Requests /\ queue[i] # r
    BY <1>1, <1>2 DEF IInv, QueueInv, Work
  <1>4. PICK s \in {"invalid", "queued"} :
          /\ Stage(r, s)
          /\ queue' = IF s = "queued" THEN Append(queue, r) ELSE queue
    BY DEF Submit
  <1>5. /\ request' \in [Requests -> RequestType]
        /\ request'[r].stage = s
        /\ \A q \in Requests : q # r => request'[q] = request[q]
    BY <1>2, <1>4, StageType DEF Stages, Answers
  <1>6. queue' \in Seq(Requests) /\ IsInjective(queue')
    BY <1>1, <1>2, <1>4, QueueAppend DEF IInv, TypeOK
  <1>7. TypeOK'
    BY <1>1, <1>5, <1>6 DEF IInv, TypeOK, RequestType
  <1>8. QueueInv'
    <2>1. CASE s = "invalid"
      BY <1>3, <1>4, <1>5, <2>1 DEF IInv, QueueInv, Work, Running
    <2>2. CASE s = "queued"
      <3>1. /\ queue' = Append(queue, r)
            /\ DOMAIN queue' = DOMAIN queue \union {Len(queue) + 1}
            /\ queue'[Len(queue) + 1] = r
            /\ \A i \in DOMAIN queue : queue'[i] = queue[i]
            /\ queue # <<>> => queue' # <<>> /\ Head(queue') = Head(queue)
        BY <1>1, <1>2, <1>4, <2>2, QueueAppend DEF IInv
      <3>2. \A i \in DOMAIN queue' : request'[queue'[i]].stage \in {"queued"} \union Work
        BY <1>3, <1>5, <2>2, <3>1 DEF IInv, QueueInv
      <3>3. \A q \in Requests : request'[q].stage \in Work => Running(q)'
        BY <1>5, <2>2, <3>1 DEF IInv, QueueInv, Work, Running
      <3> QED BY <3>2, <3>3 DEF QueueInv
    <2> QED BY <2>1, <2>2
  <1>9. BaseInv' /\ HeldInv'
    BY <1>1, <1>5 DEF IInv, BaseInv, HeldInv
  <1> QED BY <1>1, <1>7, <1>8, <1>9, ConverterKept DEF IInv, ConverterInv

\* An operation ends with an answer: the head of the queue is the next one.
LEMMA FinishInv ==
    ASSUME IInv, NEW r \in Requests, NEW s \in Answers, Running(r), Finish(r, s),
           UNCHANGED <<file, load, lock, cached, held, during, tied, edits, calls>>,
           faults' \in 0 .. MaxFaults,
           s = "applied" => load[r].stage = "idle" /\ load[r].result \in held[r]
    PROVE  IInv'
  <1>1. TypeOK /\ queue # <<>> /\ Head(queue) = r
    BY DEF IInv, Running
  <1>2. /\ request' \in [Requests -> RequestType]
        /\ request'[r].stage = s
        /\ \A q \in Requests : q # r => request'[q] = request[q]
    BY <1>1, StageType DEF Finish, Stages
  <1>3. /\ queue' = Tail(queue)
        /\ queue' \in Seq(Requests) /\ IsInjective(queue')
        /\ \A i \in DOMAIN queue' : /\ i + 1 \in DOMAIN queue /\ queue'[i] = queue[i + 1]
                                    /\ queue'[i] # r
    BY <1>1, QueueTail DEF Finish
  <1>4. TypeOK'
    BY <1>2, <1>3 DEF IInv, TypeOK, RequestType
  <1>5. \A i \in DOMAIN queue' : queue'[i] \in Requests
    BY <1>3
  <1>6. \A i \in DOMAIN queue' : request'[queue'[i]].stage \in {"queued"} \union Work
    BY <1>2, <1>3, <1>5 DEF IInv, QueueInv
  <1>7. s \notin Work
    BY DEF Answers, Work
  <1>8. \A q \in Requests : request'[q].stage \notin Work
    BY <1>1, <1>2, <1>7 DEF IInv, QueueInv, Running
  <1>9. QueueInv'
    BY <1>6, <1>8 DEF QueueInv
  <1>10. BaseInv'
    BY <1>8 DEF BaseInv, Work
  <1>11. HeldInv'
    BY <1>2, <1>7, <1>8 DEF IInv, HeldInv, Work
  <1> QED BY <1>4, <1>9, <1>10, <1>11, ConverterKept DEF IInv, ConverterInv

\* The head of the queue goes on to its next stage of work.
LEMMA WorkStage ==
    ASSUME IInv, NEW r \in Requests, NEW s \in Work, Running(r), UNCHANGED queue,
           request' \in [Requests -> RequestType],
           request'[r].stage = s,
           \A q \in Requests : q # r => request'[q] = request[q]
    PROVE  QueueInv' /\ \A q \in Requests : q # r => request'[q].stage \notin Work
  <1>1. queue \in Seq(Requests) /\ \A i \in DOMAIN queue : queue[i] \in Requests
    BY DEF IInv, TypeOK
  <1>2. \A q \in Requests : q # r => request'[q].stage \notin Work
    BY DEF IInv, QueueInv, Running
  <1>3. \A i \in DOMAIN queue : request'[queue[i]].stage \in {"queued"} \union Work
    BY <1>1 DEF IInv, QueueInv
  <1>4. QueueInv'
    BY <1>2, <1>3 DEF QueueInv, Running
  <1> QED BY <1>2, <1>4

\* A publication compares the revision it read.
LEMMA CompareInv == ASSUME IInv, NEW r \in Requests, Compare(r) PROVE IInv'
  <1>1. /\ Running(r)
        /\ UNCHANGED <<file, load, lock, cached, held, during, tied, edits, calls, faults>>
    BY DEF Compare, converter, history, counters
  <1>2. faults' \in 0 .. MaxFaults
    BY <1>1 DEF IInv, TypeOK
  <1>3. CASE Finish(r, "conflict") \/ Finish(r, "failed")
    <2>1. PICK s \in {"conflict", "failed"} : Finish(r, s)
      BY <1>3
    <2>2. s \in Answers /\ s # "applied"
      BY DEF Answers
    <2> QED BY <1>1, <1>2, <2>1, <2>2, FinishInv
  <1>4. CASE file.doc = request[r].base /\ Stage(r, "write") /\ UNCHANGED queue
    <2>1. /\ request' \in [Requests -> RequestType]
          /\ request'[r].stage = "write"
          /\ request'[r].base = request[r].base
          /\ \A q \in Requests : q # r => request'[q] = request[q]
      BY <1>4, StageType DEF IInv, Stages
    <2>2. QueueInv' /\ \A q \in Requests : q # r => request'[q].stage \notin Work
      BY <1>1, <1>4, <2>1, WorkStage DEF Work
    <2>3. TypeOK'
      BY <1>1, <1>4, <2>1 DEF IInv, TypeOK, RequestType
    <2>4. BaseInv' /\ HeldInv'
      BY <1>1, <1>4, <2>1, <2>2 DEF IInv, BaseInv, HeldInv, Work
    <2> QED BY <1>1, <2>2, <2>3, <2>4, ConverterKept DEF IInv, ConverterInv
  <1> QED BY <1>3, <1>4 DEF Compare

\* A new content of the file, whoever places it, is seen by the loads under
\* way and is newer than the cache, or else the times are tied.
LEMMA ReplaceConverter ==
    ASSUME IInv, NEW d \in Docs, NEW who \in {"bff", "other"}, Replace(d, who),
           UNCHANGED <<load, cached>>
    PROVE  ConverterInv'
  <1>1. /\ file'.doc = d /\ file'.time >= file.time /\ file'.time \in Nat
        /\ ~tied' => ~tied /\ file'.time > file.time
        /\ \A l \in Loaders :
              /\ load[l].stage # "idle" => d \in during'[l]
              /\ load[l].stage = "idle" => during'[l] = during[l]
    BY ReplaceType DEF IInv
  <1>2. /\ file.time \in Nat /\ cached.time \in Nat
        /\ \A l \in Loaders : load[l].time \in Nat
    BY DEF IInv, TypeOK
  <1>3. CacheInv'
    <2>1. cached'.time <= file'.time /\ \A l \in Loaders : load'[l].time <= file'.time
      BY <1>1, <1>2 DEF IInv, CacheInv
    <2>2. ~tied' => cached'.time # file'.time
      BY <1>1, <1>2 DEF IInv, CacheInv
    <2> QED BY <2>1, <2>2 DEF CacheInv
  <1>4. DuringInv' /\ LoadsAreCurrent'
    BY <1>1 DEF IInv, DuringInv, LoadsAreCurrent
  <1> QED BY <1>3, <1>4 DEF ConverterInv

\* A publication replaces the file.
LEMMA WriteInv == ASSUME IInv, NEW r \in Requests, Write(r) PROVE IInv'
  <1> DEFINE d == request[r].doc
  <1>1. /\ Running(r) /\ request[r].stage = "write"
        /\ Replace(d, "bff") /\ Stage(r, "save")
        /\ held' = [held EXCEPT ![r] = {d}]
        /\ UNCHANGED <<queue, load, lock, cached, edits, calls, faults>>
    BY DEF Write, converter, counters
  <1>2. d \in Docs
    BY DEF IInv, TypeOK
  <1> HIDE DEF d
  <1>3. /\ file' \in [doc : Docs, time : Nat, by : {"bff", "other"}]
        /\ file'.doc = d /\ tied' \in BOOLEAN /\ during' \in [Loaders -> SUBSET Docs]
    BY <1>1, <1>2, ReplaceType DEF IInv
  <1>4. /\ request' \in [Requests -> RequestType]
        /\ request'[r].stage = "save"
        /\ \A q \in Requests : q # r => request'[q] = request[q]
    BY <1>1, StageType DEF IInv, Stages
  <1>5. /\ held' \in [Requests -> SUBSET Docs] /\ held'[r] = {d}
        /\ \A q \in Requests : q # r => held'[q] = held[q]
    BY <1>1, <1>2 DEF IInv, TypeOK
  <1>6. QueueInv' /\ \A q \in Requests : q # r => request'[q].stage \notin Work
    BY <1>1, <1>4, WorkStage DEF Work
  <1>7. TypeOK'
    BY <1>1, <1>3, <1>4, <1>5 DEF IInv, TypeOK, RequestType
  <1>8. BaseInv'
    BY <1>4, <1>6 DEF BaseInv, Work
  <1>9. HeldInv'
    <2> SUFFICES ASSUME NEW q \in Requests
                 PROVE  /\ request'[q].stage \in {"save", "reload"} => file'.doc \in held'[q]
                        /\ request'[q].stage = "reload" /\ load'[q].stage = "idle"
                               => load'[q].result \in held'[q] \union {None}
                        /\ request'[q].stage = "applied"
                               => load'[q].stage = "idle" /\ load'[q].result \in held'[q]
      BY DEF HeldInv
    <2>1. CASE q = r
      BY <1>3, <1>4, <1>5, <2>1
    <2>2. CASE q # r
      BY <1>1, <1>4, <1>5, <1>6, <2>2 DEF IInv, HeldInv, Work
    <2> QED BY <2>1, <2>2
  <1>10. ConverterInv'
    BY <1>1, <1>2, ReplaceConverter
  <1> QED BY <1>6, <1>7, <1>8, <1>9, <1>10 DEF IInv, ConverterInv

\* A publication cannot write: the file stays.
LEMMA WriteFailsInv == ASSUME IInv, NEW r \in Requests, WriteFails(r) PROVE IInv'
  <1>1. /\ Running(r) /\ Finish(r, "failed")
        /\ UNCHANGED <<file, load, lock, cached, held, during, tied, edits, calls>>
        /\ faults < MaxFaults /\ faults' = faults + 1
    BY DEF WriteFails, converter, history
  <1>2. "failed" \in Answers
    BY DEF Answers
  <1>3. faults' \in 0 .. MaxFaults
    BY <1>1, RulesAssumption DEF IInv, TypeOK
  <1> QED BY <1>1, <1>2, <1>3, FinishInv

\* A retry reads the file for its new base.
LEMMA RereadInv == ASSUME IInv, NEW r \in Requests, Reread(r) PROVE IInv'
  <1>1. /\ Running(r) /\ request[r].stage = "queued"
        /\ UNCHANGED <<file, load, lock, cached, during, tied, edits, calls, faults>>
    BY DEF Reread, converter, counters
  <1>2. faults' \in 0 .. MaxFaults
    BY <1>1 DEF IInv, TypeOK
  <1>3. CASE Finish(r, "failed") /\ UNCHANGED held
    <2>1. "failed" \in Answers
      BY DEF Answers
    <2> QED BY <1>1, <1>2, <1>3, <2>1, FinishInv
  <1>4. CASE /\ request' = [request EXCEPT ![r].stage = "save", ![r].base = file.doc]
             /\ held' = [held EXCEPT ![r] = {file.doc}]
             /\ UNCHANGED queue
    <2>1. request \in [Requests -> RequestType] /\ file.doc \in Docs
      BY DEF IInv, TypeOK, RequestType
    <2>2. /\ request' \in [Requests -> RequestType]
          /\ request'[r].stage = "save"
          /\ \A q \in Requests : q # r => request'[q] = request[q]
      BY <1>4, <2>1 DEF RequestType, Stages
    <2>3. /\ held' \in [Requests -> SUBSET Docs] /\ held'[r] = {file.doc}
          /\ \A q \in Requests : q # r => held'[q] = held[q]
      BY <1>4, <2>1 DEF IInv, TypeOK
    <2>4. QueueInv' /\ \A q \in Requests : q # r => request'[q].stage \notin Work
      BY <1>1, <1>4, <2>2, WorkStage DEF Work
    <2>5. TypeOK'
      BY <1>1, <1>4, <2>2, <2>3 DEF IInv, TypeOK, RequestType
    <2>6. BaseInv' /\ HeldInv'
      BY <1>1, <2>2, <2>3, <2>4 DEF IInv, BaseInv, HeldInv, Work
    <2> QED BY <1>1, <2>4, <2>5, <2>6, ConverterKept DEF IInv, ConverterInv
  <1> QED BY <1>3, <1>4 DEF Reread

\* The converter answers a reload.
LEMMA ReloadAnsweredInv == ASSUME IInv, NEW r \in Requests, ReloadAnswered(r) PROVE IInv'
  <1> DEFINE s == IF load[r].result = None THEN Unapplied(r) ELSE "applied"
  <1>1. /\ request[r].stage = "reload" /\ load[r].stage = "idle" /\ Finish(r, s)
        /\ UNCHANGED <<file, load, lock, cached, held, during, tied, edits, calls, faults>>
    BY DEF ReloadAnswered, converter, history, counters
  <1>2. Running(r)
    BY <1>1 DEF IInv, QueueInv, Work
  <1>3. s \in Answers /\ (s = "applied" => load[r].result # None)
    BY DEF Unapplied, Answers
  <1>4. load[r].result \in held[r] \union {None}
    BY <1>1 DEF IInv, HeldInv
  <1>5. faults' \in 0 .. MaxFaults
    BY <1>1 DEF IInv, TypeOK
  <1> HIDE DEF s
  <1> QED BY <1>1, <1>2, <1>3, <1>4, <1>5, FinishInv

\* The answer to a reload is lost, or is an error.
LEMMA ReloadUnansweredInv == ASSUME IInv, NEW r \in Requests, ReloadUnanswered(r) PROVE IInv'
  <1>1. /\ request[r].stage \in {"save", "reload"} /\ Finish(r, Unapplied(r))
        /\ UNCHANGED <<file, load, lock, cached, held, during, tied, edits, calls>>
        /\ faults < MaxFaults /\ faults' = faults + 1
    BY DEF ReloadUnanswered, converter, history
  <1>2. Running(r)
    BY <1>1 DEF IInv, QueueInv, Work
  <1>3. Unapplied(r) \in Answers /\ Unapplied(r) # "applied"
    BY DEF Unapplied, Answers
  <1>4. faults' \in 0 .. MaxFaults
    BY <1>1, RulesAssumption DEF IInv, TypeOK
  <1> QED BY <1>1, <1>2, <1>3, <1>4, FinishInv

\* A load begins: it has seen the file as it is.
LEMMA BeginLoad ==
    ASSUME IInv, NEW l \in Loaders, Begin(l), UNCHANGED <<file, cached, tied>>
    PROVE  /\ load' \in [Loaders -> LoadType] /\ during' \in [Loaders -> SUBSET Docs]
           /\ load'[l].stage = "waiting"
           /\ \A k \in Loaders : k # l => load'[k] = load[k]
           /\ ConverterInv'
  <1>1. /\ load \in [Loaders -> LoadType] /\ during \in [Loaders -> SUBSET Docs]
        /\ file.doc \in Docs /\ file.time \in Nat
    BY DEF IInv, TypeOK, LoadType
  <1> DEFINE v == [stage |-> "waiting", time |-> 0, result |-> None]
  <1>2. v \in LoadType /\ v.stage = "waiting" /\ v.time = 0
    BY DEF LoadType
  <1>3. load' = [load EXCEPT ![l] = v] /\ during' = [during EXCEPT ![l] = {file.doc}]
    BY DEF Begin
  <1> HIDE DEF v
  <1>4. /\ load' \in [Loaders -> LoadType] /\ load'[l] = v
        /\ \A k \in Loaders : k # l => load'[k] = load[k]
    BY <1>1, <1>2, <1>3
  <1>5. /\ during' \in [Loaders -> SUBSET Docs] /\ during'[l] = {file.doc}
        /\ \A k \in Loaders : k # l => during'[k] = during[k]
    BY <1>1, <1>3
  <1>6. CacheInv'
    BY <1>1, <1>2, <1>4 DEF IInv, CacheInv
  <1>7. DuringInv' /\ LoadsAreCurrent'
    BY <1>2, <1>4, <1>5 DEF IInv, DuringInv, LoadsAreCurrent
  <1> QED BY <1>2, <1>4, <1>5, <1>6, <1>7 DEF ConverterInv

\* The BFF calls the converter's reload endpoint.
LEMMA CallReloadInv == ASSUME IInv, NEW r \in Requests, CallReload(r) PROVE IInv'
  <1>1. /\ request[r].stage = "save" /\ Stage(r, "reload") /\ Begin(r)
        /\ UNCHANGED <<file, queue, lock, cached, held, tied, edits, calls, faults>>
    BY DEF CallReload, counters
  <1>2. r \in Loaders /\ Running(r)
    BY <1>1 DEF IInv, QueueInv, Work, Loaders
  <1>3. /\ load' \in [Loaders -> LoadType] /\ during' \in [Loaders -> SUBSET Docs]
        /\ load'[r].stage = "waiting"
        /\ \A k \in Loaders : k # r => load'[k] = load[k]
        /\ ConverterInv'
    BY <1>1, <1>2, BeginLoad
  <1>4. /\ request' \in [Requests -> RequestType]
        /\ request'[r].stage = "reload"
        /\ \A q \in Requests : q # r => request'[q] = request[q]
    BY <1>1, StageType DEF IInv, Stages
  <1>5. QueueInv' /\ \A q \in Requests : q # r => request'[q].stage \notin Work
    BY <1>1, <1>2, <1>4, WorkStage DEF Work
  <1>6. TypeOK'
    BY <1>1, <1>3, <1>4 DEF IInv, TypeOK, RequestType, LoadType
  <1>7. BaseInv'
    BY <1>4, <1>5 DEF BaseInv, Work
  <1>8. \A q \in Requests : q \in Loaders
    BY DEF Loaders
  <1>9. HeldInv'
    BY <1>1, <1>3, <1>4, <1>5, <1>8 DEF IInv, HeldInv, Work
  <1> QED BY <1>3, <1>5, <1>6, <1>7, <1>9 DEF IInv, ConverterInv

\* The BFF restarts: its queue and its requests are gone.
LEMMA RestartBffInv == ASSUME IInv, RestartBff PROVE IInv'
  <1>1. /\ queue' = <<>>
        /\ request' = [r \in Requests |->
                         IF Contains(queue, r) THEN [request[r] EXCEPT !.stage = "lost"]
                         ELSE request[r]]
        /\ faults < MaxFaults /\ faults' = faults + 1
        /\ UNCHANGED <<file, load, lock, cached, held, during, tied, edits, calls>>
    BY DEF RestartBff, converter, history
  <1>2. request \in [Requests -> RequestType] /\ faults' \in 0 .. MaxFaults
    BY <1>1, RulesAssumption DEF IInv, TypeOK, RequestType
  <1>3. \A r \in Requests : /\ request'[r] \in RequestType
                            /\ \/ request'[r] = request[r] /\ ~Contains(queue, r)
                               \/ request'[r].stage = "lost"
    BY <1>1, <1>2 DEF RequestType, Stages, Answers
  <1>4. request' \in [Requests -> RequestType]
    BY <1>1, <1>3
  <1>5. queue' \in Seq(Requests) /\ IsInjective(queue') /\ DOMAIN queue' = {}
    BY <1>1 DEF IsInjective
  <1>6. TypeOK'
    BY <1>1, <1>2, <1>4, <1>5 DEF IInv, TypeOK, RequestType
  <1>7. \A r \in Requests : request[r].stage \in Work => Contains(queue, r)
    <2> SUFFICES ASSUME NEW r \in Requests, request[r].stage \in Work
                 PROVE  Contains(queue, r)
      OBVIOUS
    <2>1. queue # <<>> /\ Head(queue) = r /\ queue \in Seq(Requests)
      BY DEF IInv, TypeOK, QueueInv, Running
    <2>2. 1 \in 1 .. Len(queue) /\ queue[1] = r
      BY <2>1
    <2> QED BY <2>2 DEF Contains
  <1>8. \A r \in Requests : request'[r].stage \notin Work
    BY <1>3, <1>7 DEF Work
  <1>9. QueueInv' /\ BaseInv'
    BY <1>5, <1>8 DEF QueueInv, BaseInv, Work
  <1>10. HeldInv'
    BY <1>1, <1>3, <1>8 DEF IInv, HeldInv, Work
  <1> QED BY <1>1, <1>6, <1>9, <1>10, ConverterKept DEF IInv, ConverterInv

\* Another program replaces the file.
LEMMA EditInv == ASSUME IInv, NEW d \in Docs, Edit(d) PROVE IInv'
  <1>1. /\ edits < MaxEdits /\ edits' = edits + 1 /\ Replace(d, "other")
        /\ held' = [r \in Requests |-> IF request[r].stage \in {"save", "reload"}
                                       THEN held[r] \union {d} ELSE held[r]]
        /\ UNCHANGED <<request, queue, load, lock, cached, calls, faults>>
    BY DEF Edit, bff, converter
  <1>2. /\ file' \in [doc : Docs, time : Nat, by : {"bff", "other"}]
        /\ file'.doc = d /\ file'.by = "other"
        /\ tied' \in BOOLEAN /\ during' \in [Loaders -> SUBSET Docs]
    BY <1>1, ReplaceType DEF IInv
  <1>3. held' \in [Requests -> SUBSET Docs] /\ edits' \in 0 .. MaxEdits
    BY <1>1, RulesAssumption DEF IInv, TypeOK
  <1>4. TypeOK'
    BY <1>1, <1>2, <1>3 DEF IInv, TypeOK
  <1>5. QueueInv'
    BY <1>1 DEF IInv, QueueInv, Running
  <1>6. BaseInv'
    BY <1>2 DEF BaseInv
  <1>7. HeldInv'
    BY <1>1, <1>2 DEF IInv, HeldInv
  <1>8. ConverterInv'
    BY <1>1, ReplaceConverter
  <1> QED BY <1>4, <1>5, <1>6, <1>7, <1>8 DEF IInv, ConverterInv

-----------------------------------------------------------------------------
(* The steps of the converter. *)

\* Steps that leave file, requests and queue alone keep what is said of them.
LEMMA BffKept ==
    ASSUME IInv, UNCHANGED <<file, request, queue>>
    PROVE  QueueInv' /\ BaseInv'
  BY DEF IInv, QueueInv, BaseInv, Running

\* Somebody calls the converter for its rules.
LEMMA CallInv == ASSUME IInv, NEW c \in Callers, Call(c) PROVE IInv'
  <1>1. /\ calls < MaxCalls /\ calls' = calls + 1 /\ Begin(c)
        /\ UNCHANGED <<file, request, queue, lock, cached, held, tied, edits, faults>>
    BY DEF Call, bff
  <1>2. c \in Loaders /\ c \notin Requests /\ \A q \in Requests : q \in Loaders
    BY RulesAssumption DEF Loaders
  <1>3. /\ load' \in [Loaders -> LoadType] /\ during' \in [Loaders -> SUBSET Docs]
        /\ \A k \in Loaders : k # c => load'[k] = load[k]
        /\ ConverterInv'
    BY <1>1, <1>2, BeginLoad
  <1>4. calls' \in 0 .. MaxCalls
    BY <1>1, RulesAssumption DEF IInv, TypeOK
  <1>5. TypeOK'
    BY <1>1, <1>3, <1>4 DEF IInv, TypeOK, LoadType
  <1>6. HeldInv'
    BY <1>1, <1>2, <1>3 DEF IInv, HeldInv
  <1> QED BY <1>1, <1>3, <1>5, <1>6, BffKept DEF IInv, ConverterInv

\* A load goes on to v, and what it leaves in the cache is what the file holds.
LEMMA LoadStep ==
    ASSUME IInv, NEW l \in Loaders, NEW v \in LoadType,
           load[l].stage # "idle", load' = [load EXCEPT ![l] = v],
           UNCHANGED <<file, request, queue, held, during, tied, edits, calls, faults>>,
           lock' \in Loaders \union {None},
           cached' \in [doc : ConverterValid \union {None}, time : Nat],
           v.time <= file.time,
           v.stage = "idle" =>
                /\ ~tied => v.result \in {file.doc, None}
                /\ l \in Requests => v.result \in {file.doc, None},
           \/ cached' = cached
           \/ cached'.doc = file.doc /\ cached'.time = load[l].time
    PROVE  IInv'
  <1>1. /\ load \in [Loaders -> LoadType]
        /\ file.time \in Nat /\ cached.time \in Nat /\ file.doc \in Docs
    BY DEF IInv, TypeOK, LoadType
  <1>2. /\ load' \in [Loaders -> LoadType] /\ load'[l] = v
        /\ \A k \in Loaders : k # l => load'[k] = load[k]
    BY <1>1
  <1>3. TypeOK'
    BY <1>2 DEF IInv, TypeOK, LoadType
  <1>4. HeldInv'
    <2> SUFFICES ASSUME NEW q \in Requests
                 PROVE  /\ request[q].stage \in {"save", "reload"} => file.doc \in held[q]
                        /\ request[q].stage = "reload" /\ load'[q].stage = "idle"
                               => load'[q].result \in held[q] \union {None}
                        /\ request[q].stage = "applied"
                               => load'[q].stage = "idle" /\ load'[q].result \in held[q]
      BY DEF HeldInv
    <2>1. q \in Loaders
      BY DEF Loaders
    <2>2. CASE q # l
      BY <1>2, <2>1, <2>2 DEF IInv, HeldInv
    <2>3. CASE q = l
      BY <1>2, <2>3 DEF IInv, HeldInv
    <2> QED BY <2>2, <2>3
  <1>5. file.doc \in during[l]
    BY DEF IInv, DuringInv
  <1>6. CacheInv'
    <2>1. cached'.time <= file.time
      BY <1>1 DEF IInv, CacheInv
    <2>2. ~tied /\ cached'.doc # None /\ cached'.time = file.time => cached'.doc = file.doc
      BY DEF IInv, CacheInv
    <2>3. \A k \in Loaders : load'[k].time <= file.time
      BY <1>2 DEF IInv, CacheInv
    <2> QED BY <2>1, <2>2, <2>3 DEF CacheInv
  <1>7. DuringInv' /\ LoadsAreCurrent'
    BY <1>2, <1>5 DEF IInv, DuringInv, LoadsAreCurrent
  <1> QED BY <1>3, <1>4, <1>6, <1>7, BffKept DEF IInv

\* A load enters the lock and takes the cache or the file's time.
LEMMA EnterInv == ASSUME IInv, NEW l \in Loaders, Enter(l) PROVE IInv'
  <1>1. /\ load[l].stage = "waiting"
        /\ UNCHANGED <<file, request, queue, cached, held, during, tied, edits, calls, faults>>
    BY DEF Enter, bff, history, counters
  <1>2. /\ load \in [Loaders -> LoadType] /\ file.time \in Nat /\ file.doc \in Docs
        /\ cached \in [doc : ConverterValid \union {None}, time : Nat]
    BY DEF IInv, TypeOK, LoadType
  <1>3. CASE /\ ~Reload(l) /\ cached.doc # None /\ cached.time = file.time
             /\ Return(l, cached.doc)
    <2> DEFINE v == [stage |-> "idle", time |-> 0, result |-> cached.doc]
    <2>1. load' = [load EXCEPT ![l] = v] /\ lock' \in Loaders \union {None}
      BY <1>3 DEF Return
    <2>2. cached.doc \in Docs
      BY <1>2, <1>3, RulesAssumption
    <2>3. v \in LoadType /\ v.stage = "idle" /\ v.time = 0 /\ v.result = cached.doc
      BY <2>2 DEF LoadType
    <2>4. l \notin Requests
      BY <1>3 DEF Reload
    <2>5. ~tied => cached.doc = file.doc
      BY <1>3 DEF IInv, CacheInv
    <2> HIDE DEF v
    <2>6. v.time <= file.time /\ (~tied => v.result \in {file.doc, None})
      BY <1>2, <2>3, <2>5
    <2> QED BY <1>1, <1>2, <2>1, <2>3, <2>4, <2>6, LoadStep
  <1>4. CASE /\ lock' = l
             /\ load' = [load EXCEPT ![l].stage = "reading", ![l].time = file.time]
    <2> DEFINE v == [load[l] EXCEPT !.stage = "reading", !.time = file.time]
    <2>1. load' = [load EXCEPT ![l] = v] /\ lock' \in Loaders \union {None}
      BY <1>4
    <2>2. v \in LoadType /\ v.stage = "reading" /\ v.time = file.time
      BY <1>2 DEF LoadType
    <2> HIDE DEF v
    <2>3. v.time <= file.time /\ v.stage # "idle"
      BY <1>2, <2>2
    <2> QED BY <1>1, <1>2, <2>1, <2>2, <2>3, LoadStep
  <1> QED BY <1>3, <1>4 DEF Enter

\* A load reads the file and replaces the cache.
LEMMA ReadInv == ASSUME IInv, NEW l \in Loaders, Read(l) PROVE IInv'
  <1>1. /\ load[l].stage = "reading"
        /\ UNCHANGED <<file, request, queue, held, during, tied, edits, calls, faults>>
    BY DEF Read, bff, history, counters
  <1>2. /\ file.time \in Nat /\ file.doc \in Docs /\ load[l].time \in Nat
        /\ cached \in [doc : ConverterValid \union {None}, time : Nat]
    BY DEF IInv, TypeOK
  <1>3. PICK d \in {file.doc, None} :
          /\ Return(l, d)
          /\ \/ cached' = cached
             \/ /\ file.doc \in ConverterValid
                /\ cached' = [doc |-> file.doc, time |-> load[l].time]
    BY DEF Read
  <1> DEFINE v == [stage |-> "idle", time |-> 0, result |-> d]
  <1>4. load' = [load EXCEPT ![l] = v] /\ lock' \in Loaders \union {None}
    BY <1>3 DEF Return
  <1>5. v \in LoadType /\ v.time = 0 /\ v.result \in {file.doc, None}
    BY <1>2 DEF LoadType
  <1>6. /\ cached' \in [doc : ConverterValid \union {None}, time : Nat]
        /\ \/ cached' = cached
           \/ cached'.doc = file.doc /\ cached'.time = load[l].time
    BY <1>2, <1>3
  <1> HIDE DEF v
  <1>7. v.time <= file.time
    BY <1>2, <1>5
  <1> QED BY <1>1, <1>4, <1>5, <1>6, <1>7, LoadStep

\* A reload is given up by the one who called it.
LEMMA AbandonInv == ASSUME IInv, NEW r \in Requests, Abandon(r) PROVE IInv'
  <1> DEFINE v == [stage |-> "idle", time |-> 0, result |-> None]
  <1>1. /\ load[r].stage # "idle" /\ load' = [load EXCEPT ![r] = v]
        /\ lock' = IF lock = r THEN None ELSE lock
        /\ UNCHANGED <<file, request, queue, cached, held, during, tied, edits, calls, faults>>
    BY DEF Abandon, bff, history, counters
  <1>2. r \in Loaders
    BY DEF Loaders
  <1>3. /\ lock' \in Loaders \union {None} /\ file.time \in Nat
        /\ cached' \in [doc : ConverterValid \union {None}, time : Nat]
    BY <1>1 DEF IInv, TypeOK
  <1>4. v \in LoadType /\ v.time = 0 /\ v.result = None
    BY DEF LoadType
  <1> HIDE DEF v
  <1>5. v.time <= file.time
    BY <1>3, <1>4
  <1> QED BY <1>1, <1>2, <1>3, <1>4, <1>5, LoadStep

\* The converter restarts without a cache.
LEMMA RestartConverterInv == ASSUME IInv, RestartConverter PROVE IInv'
  <1>1. /\ faults < MaxFaults /\ faults' = faults + 1
        /\ load' = [l \in Loaders |->
                      IF load[l].stage = "idle" THEN load[l]
                      ELSE [stage |-> "idle", time |-> 0, result |-> None]]
        /\ lock' = None
        /\ cached' = [doc |-> None, time |-> 0]
        /\ UNCHANGED <<file, request, queue, held, during, tied, edits, calls>>
    BY DEF RestartConverter, bff, history
  <1>2. load \in [Loaders -> LoadType] /\ file.time \in Nat /\ faults' \in 0 .. MaxFaults
    BY <1>1, RulesAssumption DEF IInv, TypeOK, LoadType
  <1>3. load' \in [Loaders -> LoadType]
    BY <1>1, <1>2 DEF LoadType
  <1>4. \A l \in Loaders :
            /\ load'[l].stage = "idle"
            /\ load[l].stage = "idle" => load'[l] = load[l]
            /\ load[l].stage # "idle" => load'[l].time = 0 /\ load'[l].result = None
    BY <1>1
  <1>5. TypeOK'
    BY <1>1, <1>2, <1>3 DEF IInv, TypeOK, LoadType
  <1>6. \A q \in Requests : q \in Loaders
    BY DEF Loaders
  <1>7. HeldInv'
    BY <1>1, <1>4, <1>6 DEF IInv, HeldInv
  <1>8. CacheInv'
    BY <1>1, <1>2, <1>4 DEF IInv, CacheInv
  <1>9. DuringInv' /\ LoadsAreCurrent'
    BY <1>1, <1>4 DEF IInv, DuringInv, LoadsAreCurrent
  <1> QED BY <1>1, <1>5, <1>7, <1>8, <1>9, BffKept DEF IInv

-----------------------------------------------------------------------------
\* Every step keeps the invariant.
LEMMA StepInv == IInv /\ [Next]_vars => IInv'
  <1> SUFFICES ASSUME IInv, [Next]_vars PROVE IInv'
    OBVIOUS
  <1>1. ASSUME NEW d \in Docs, Edit(d) PROVE IInv'
    BY <1>1, EditInv
  <1>2. ASSUME NEW r \in Requests,
               Open(r) \/ Submit(r) \/ Compare(r) \/ Write(r) \/ WriteFails(r)
                 \/ Reread(r)
        PROVE  IInv'
    BY <1>2, OpenInv, SubmitInv, CompareInv, WriteInv, WriteFailsInv, RereadInv
  <1>3. ASSUME NEW r \in Requests,
               CallReload(r) \/ ReloadAnswered(r) \/ ReloadUnanswered(r) \/ Abandon(r)
        PROVE  IInv'
    BY <1>3, CallReloadInv, ReloadAnsweredInv, ReloadUnansweredInv, AbandonInv
  <1>4. ASSUME NEW c \in Callers, Call(c) PROVE IInv'
    BY <1>4, CallInv
  <1>5. ASSUME NEW l \in Loaders, Enter(l) \/ Read(l) PROVE IInv'
    BY <1>5, EnterInv, ReadInv
  <1>6. CASE RestartBff \/ RestartConverter
    BY <1>6, RestartBffInv, RestartConverterInv
  <1>7. CASE UNCHANGED vars
    BY <1>7 DEF vars, bff, converter, history, counters, IInv, TypeOK, QueueInv, BaseInv, HeldInv,
                CacheInv, DuringInv, LoadsAreCurrent, Running
  <1> QED BY <1>1, <1>2, <1>3, <1>4, <1>5, <1>6, <1>7 DEF Next

\* The file, its editors and the converter keep their types.
THEOREM TypeCorrect == Spec => []TypeOK
  <1>1. IInv => TypeOK
    BY DEF IInv
  <1> QED BY <1>1, InitInv, StepInv, PTL DEF Spec

\* The converter never loads rules the file did not hold during the load
\* (GetRulesAsync and its cache), unless two writes left the same time.
THEOREM NoStaleLoad == Spec => []LoadsAreCurrent
  <1>1. IInv => LoadsAreCurrent
    BY DEF IInv
  <1> QED BY <1>1, InitInv, StepInv, PTL DEF Spec

\* "Applied" is told to an editor only if the load that answered took what he
\* wrote, or what replaced it meanwhile (publishActiveRules, retryActiveRulesReload);
\* a later load or a restart may change the converter's rules again.
THEOREM AppliedIsTrue == Spec => []AppliedIsLoaded
  <1>1. IInv => AppliedIsLoaded
    BY DEF IInv, HeldInv, AppliedIsLoaded
  <1> QED BY <1>1, InitInv, StepInv, PTL DEF Spec

\* No editor writes over the work of another: the serial executor lets one
\* operation at a time compare and write (runActiveRulesOperation). A file that
\* another program placed between comparison and rename is out of its reach.
THEOREM NothingOverwritten == Spec => PublishesOverRead
  <1>1. IInv /\ [Next]_vars =>
          [\A r \in Requests : Write(r) => file.by = "other" \/ file.doc = request[r].base]_vars
    BY DEF IInv, BaseInv, Write
  <1> QED BY <1>1, InitInv, StepInv, PTL DEF Spec, PublishesOverRead

=============================================================================
