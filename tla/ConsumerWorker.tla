--------------------------- MODULE ConsumerWorker ---------------------------
(***************************************************************************)
(* The consumer loop shared by the three Kafka workers of the system:      *)
(* KafkaConversionWorker (cmdbkafka2zabbix), KafkaZabbixRequestWorker      *)
(* (zabbixrequests2api) and KafkaBindingWorker (zabbixbindings2cmdbuild).  *)
(* The three classes share this control flow line by line and differ only  *)
(* in what ProcessMessageAsync does with one message, which is abstracted  *)
(* here to one step, Complete, that may also throw.                        *)
(*                                                                         *)
(* Two durable cursors decide where a worker resumes: the offset committed *)
(* to the consumer group, one per partition, and the processing-state      *)
(* file, which holds the last message of ONE partition.                    *)
(*                                                                         *)
(* The deployment runs one active replica (Worker:ReplicaMode =            *)
(* SingleActive), so the group has one member and every assignment gives   *)
(* it every partition.                                                     *)
(***************************************************************************)
EXTENDS Integers, FiniteSets

CONSTANTS
    Partitions,      \* partitions of the input topic
    Nil,            \* "no document" / "no message"
    WriteOnSuccess,  \* ProcessingState:WriteOnSuccess
    MaxOffset,       \* bound: messages produced per partition
    MaxFailures,     \* bound: exceptions thrown by a message's processing
    MaxCrashes,      \* bound: process crashes
    MaxStops,        \* bound: orderly shutdowns
    MaxRebalances    \* bound: assignments beyond the first of an incarnation

Message == [partition : Partitions, offset : Nat]

ASSUME ConsumerAssumption ==
    /\ Nil \notin Message
    /\ WriteOnSuccess \in BOOLEAN
    /\ MaxOffset \in Nat /\ MaxFailures \in Nat /\ MaxCrashes \in Nat
    /\ MaxStops \in Nat /\ MaxRebalances \in Nat

VARIABLES
    logEnd,       \* broker: end offset of each partition
    committed,    \* broker: the group's committed offset of each partition
    stateFile,    \* disk: the last recorded message, or Nil
    snapshot,     \* previousState, read once when ExecuteAsync starts
    assigned,     \* has the assignment handler run in this incarnation?
    position,     \* the consumer's next offset in each partition
    phase,        \* program counter of ExecuteAsync
    current,      \* the message ProcessMessageAsync works on, or Nil
    tracked,      \* inFlightTask is the task of the current message
    stop,         \* progress of StopAsync
    handled,      \* history: offsets whose processing reached its outcome
    failed,       \* history: offsets whose processing threw
    failures, crashes, stops, rebalances   \* bounded counters

broker  == <<logEnd, committed>>
history == <<handled, failed>>
bounds  == <<failures, crashes, stops, rebalances>>
vars == <<broker, stateFile, snapshot, assigned, position, phase, current,
          tracked, stop, history, bounds>>

Phases == {"down", "top", "polling", "processing", "completed", "recorded",
           "backoff", "closing"}
StopStates == {"none", "requested", "draining", "cancelled"}

\* The offsets of p whose message is finished, one way or the other.
Accounted(p) == handled[p] \union failed[p]
Below(n) == 0 .. (n - 1)

Init ==
    /\ logEnd = [p \in Partitions |-> 0]
    /\ committed = [p \in Partitions |-> 0]
    /\ stateFile = Nil
    /\ snapshot = Nil
    /\ assigned = FALSE
    /\ position = [p \in Partitions |-> 0]
    /\ phase = "down"
    /\ current = Nil
    /\ tracked = FALSE
    /\ stop = "none"
    /\ handled = [p \in Partitions |-> {}]
    /\ failed = [p \in Partitions |-> {}]
    /\ failures = 0 /\ crashes = 0 /\ stops = 0 /\ rebalances = 0

-----------------------------------------------------------------------------
(* The producers upstream.                                                 *)
Produce(p) ==
    /\ logEnd[p] < MaxOffset
    /\ logEnd' = [logEnd EXCEPT ![p] = @ + 1]
    /\ UNCHANGED <<committed, stateFile, snapshot, assigned, position, phase,
                   current, tracked, stop, history, bounds>>

(* ExecuteAsync begins: previousState is read once. A file that cannot be  *)
(* read (IOException, JsonException, ...) counts as no state.              *)
Start ==
    /\ phase = "down"
    /\ phase' = "top"
    /\ snapshot' \in {stateFile, Nil}
    /\ assigned' = FALSE
    /\ stop' = "none"
    /\ UNCHANGED <<broker, stateFile, position, current, tracked, history, bounds>>

(* while (!stoppingToken.IsCancellationRequested && !stopRequested)        *)
LoopTest ==
    /\ phase = "top"
    /\ phase' = IF stop = "none" THEN "polling" ELSE "closing"
    /\ UNCHANGED <<broker, stateFile, snapshot, assigned, position, current,
                   tracked, stop, history, bounds>>

\* Mutant: forget to compare the partition.
ResolveStartOffsetAnyPartition(p) ==
    IF snapshot # Nil THEN snapshot.offset + 1 ELSE committed[p]

(* ResolveStartOffset: the state's partition resumes after the recorded    *)
(* message, any other at Offset.Unset, i.e. at the committed offset, or at *)
(* the beginning (AutoOffsetReset = Earliest) when there is none.          *)
ResolveStartOffset(p) ==
    IF snapshot # Nil /\ snapshot.partition = p
    THEN snapshot.offset + 1
    ELSE committed[p]

\* The handler runs inside Consume, once per (re)balance of the group.
Assign ==
    /\ phase = "polling"
    /\ \/ ~assigned /\ UNCHANGED rebalances
       \/ assigned /\ rebalances < MaxRebalances /\ rebalances' = rebalances + 1
    /\ assigned' = TRUE
    /\ position' = [p \in Partitions |-> ResolveStartOffset(p)]
    /\ UNCHANGED <<broker, stateFile, snapshot, phase, current, tracked, stop,
                   history, failures, crashes, stops>>

(* Consume returns null after PollTimeoutMs, or throws ConsumeException.   *)
PollEmpty ==
    /\ phase = "polling"
    /\ phase' = "top"
    /\ UNCHANGED <<broker, stateFile, snapshot, assigned, position, current,
                   tracked, stop, history, bounds>>

(* Consume returns the next message; the consumer's position moves past it *)
(* and ProcessMessageAsync starts.                                         *)
Consume(p) ==
    /\ phase = "polling"
    /\ assigned
    /\ position[p] < logEnd[p]
    /\ current' = [partition |-> p, offset |-> position[p]]
    /\ position' = [position EXCEPT ![p] = @ + 1]
    /\ phase' = "processing"
    /\ UNCHANGED <<broker, stateFile, snapshot, assigned, tracked, stop,
                   history, bounds>>

(* TrackInFlightTask: only after ProcessMessageAsync has returned its task.*)
TrackInFlightTask ==
    /\ current # Nil
    /\ ~tracked
    /\ tracked' = TRUE
    /\ UNCHANGED <<broker, stateFile, snapshot, assigned, position, phase,
                   current, stop, history, bounds>>

(* ProcessMessageAsync reaches the message's outcome: its outputs are      *)
(* published, its write is done, or it is skipped or answered on purpose.  *)
Complete ==
    /\ phase = "processing"
    /\ phase' = "completed"
    /\ handled' = [handled EXCEPT ![current.partition] = @ \union {current.offset}]
    /\ UNCHANGED <<broker, stateFile, snapshot, assigned, position, current,
                   tracked, stop, failed, bounds>>

\* Mutant: an exception of the state file's write is swallowed.
RecordStateBestEffort ==
    /\ phase = "completed"
    /\ phase' = "recorded"
    /\ stateFile' \in {current, stateFile}
    /\ UNCHANGED <<broker, snapshot, assigned, position, current, tracked,
                   stop, history, bounds>>

(* stateStore.WriteAsync, before the commit. FileProcessingStateStore      *)
(* writes nothing when WriteOnSuccess is off.                              *)
RecordState ==
    /\ phase = "completed"
    /\ phase' = "recorded"
    /\ stateFile' = IF WriteOnSuccess THEN current ELSE stateFile
    /\ UNCHANGED <<broker, snapshot, assigned, position, current, tracked,
                   stop, history, bounds>>

(* consumer.Commit(consumed): synchronous, commits the offset after the    *)
(* message; the task ends and ClearInFlightTask runs.                      *)
Commit ==
    /\ phase = "recorded"
    /\ tracked
    /\ committed' = [committed EXCEPT ![current.partition] = current.offset + 1]
    /\ phase' = "top"
    /\ current' = Nil
    /\ tracked' = FALSE
    /\ UNCHANGED <<logEnd, stateFile, snapshot, assigned, position, stop,
                   history, bounds>>

\* Mutant: the worker loop ends at the first failed message.
FailAndLeave ==
    /\ phase \in {"processing", "completed", "recorded"}
    /\ tracked
    /\ failures < MaxFailures
    /\ failures' = failures + 1
    /\ failed' = [failed EXCEPT ![current.partition] = @ \union {current.offset}]
    /\ phase' = "closing"
    /\ current' = Nil
    /\ tracked' = FALSE
    /\ UNCHANGED <<broker, stateFile, snapshot, assigned, position, stop,
                   handled, crashes, stops, rebalances>>

(* catch (Exception): processing, the state write or the commit threw. The *)
(* worker logs that the message "will be retried after restart or next     *)
(* poll" and waits 5 s; nothing seeks the consumer back.                   *)
Fail ==
    /\ phase \in {"processing", "completed", "recorded"}
    /\ tracked
    /\ failures < MaxFailures
    /\ failures' = failures + 1
    /\ failed' = [failed EXCEPT ![current.partition] = @ \union {current.offset}]
    /\ phase' = "backoff"
    /\ current' = Nil
    /\ tracked' = FALSE
    /\ UNCHANGED <<broker, stateFile, snapshot, assigned, position, stop,
                   handled, crashes, stops, rebalances>>

(* The 5 s delay ends; with a stop requested the loop is left.             *)
BackoffEnd ==
    /\ phase = "backoff"
    /\ phase' = IF stop = "none" THEN "top" ELSE "closing"
    /\ UNCHANGED <<broker, stateFile, snapshot, assigned, position, current,
                   tracked, stop, history, bounds>>

-----------------------------------------------------------------------------
(* StopAsync sets stopRequested ...                                        *)
RequestStop ==
    /\ phase # "down"
    /\ stop = "none"
    /\ stops < MaxStops
    /\ stops' = stops + 1
    /\ stop' = "requested"
    /\ UNCHANGED <<broker, stateFile, snapshot, assigned, position, phase,
                   current, tracked, history, failures, crashes,
                   rebalances>>

(* ... then reads inFlightTask, and waits for it only when there is one.   *)
ReadInFlightTask ==
    /\ stop = "requested"
    /\ stop' = IF tracked THEN "draining" ELSE "cancelled"
    /\ UNCHANGED <<broker, stateFile, snapshot, assigned, position, phase,
                   current, tracked, history, bounds>>

(* WaitAsync returns: base.StopAsync cancels stoppingToken.                *)
Drained ==
    /\ stop = "draining"
    /\ current = Nil
    /\ stop' = "cancelled"
    /\ UNCHANGED <<broker, stateFile, snapshot, assigned, position, phase,
                   current, tracked, history, bounds>>

(* TimeoutException after ShutdownTimeoutSeconds: stoppingToken as well.   *)
DrainTimeout ==
    /\ stop = "draining"
    /\ current # Nil
    /\ stop' = "cancelled"
    /\ UNCHANGED <<broker, stateFile, snapshot, assigned, position, phase,
                   current, tracked, history, bounds>>

(* catch (OperationCanceledException) when stoppingToken is cancelled:     *)
(* the processing or the state write is cut off, the loop is left.         *)
CancelInFlight ==
    /\ stop = "cancelled"
    /\ phase \in {"processing", "completed"}
    /\ tracked
    /\ phase' = "closing"
    /\ current' = Nil
    /\ tracked' = FALSE
    /\ UNCHANGED <<broker, stateFile, snapshot, assigned, position, stop,
                   handled, failed, bounds>>

(* consumer.Close(); EnableAutoCommit is off, so it commits nothing.       *)
Close ==
    /\ phase = "closing"
    /\ stop = "cancelled"
    /\ phase' = "down"
    /\ UNCHANGED <<broker, stateFile, snapshot, assigned, position, current,
                   tracked, stop, history, bounds>>

(* The process dies: everything but the broker and the disk is lost.       *)
Crash ==
    /\ phase # "down"
    /\ crashes < MaxCrashes
    /\ crashes' = crashes + 1
    /\ phase' = "down"
    /\ current' = Nil
    /\ tracked' = FALSE
    /\ stop' = "none"
    /\ UNCHANGED <<broker, stateFile, snapshot, assigned, position, handled,
                   failed, failures, stops, rebalances>>

Next ==
    \/ \E p \in Partitions : Produce(p) \/ Consume(p)
    \/ Start \/ LoopTest \/ Assign \/ PollEmpty \/ TrackInFlightTask
    \/ Complete \/ RecordState \/ Commit \/ Fail \/ BackoffEnd
    \/ RequestStop \/ ReadInFlightTask \/ Drained \/ DrainTimeout
    \/ CancelInFlight \/ Close \/ Crash

Spec == Init /\ [][Next]_vars

(***************************************************************************)
(* The loop's own steps are weakly fair. Consume and the first assignment  *)
(* of an incarnation are strongly fair: a poll may come back empty, but    *)
(* the group does assign its only member, and librdkafka fetches messages  *)
(* while some assigned partition has them. Start is fair because the       *)
(* containers run under restart: unless-stopped. Nothing is assumed of the *)
(* producers, nor of failures, crashes, shutdowns and rebalances: no       *)
(* behaviour is obliged to have one.                                       *)
(***************************************************************************)
Fairness ==
    /\ WF_vars(Start) /\ WF_vars(LoopTest) /\ WF_vars(TrackInFlightTask)
    /\ WF_vars(PollEmpty)
    /\ WF_vars(Complete) /\ WF_vars(RecordState) /\ WF_vars(Commit)
    /\ WF_vars(BackoffEnd) /\ WF_vars(Close)
    /\ WF_vars(ReadInFlightTask) /\ WF_vars(Drained) /\ WF_vars(DrainTimeout)
    /\ SF_vars(~assigned /\ Assign)
    /\ SF_vars(\E p \in Partitions : Consume(p))

FairSpec == Spec /\ Fairness

-----------------------------------------------------------------------------
(* Type correctness of the worker's and the broker's state.                *)
TypeOK ==
    /\ logEnd \in [Partitions -> Nat]
    /\ committed \in [Partitions -> Nat]
    /\ stateFile \in Message \union {Nil}
    /\ snapshot \in Message \union {Nil}
    /\ assigned \in BOOLEAN
    /\ position \in [Partitions -> Nat]
    /\ phase \in Phases
    /\ current \in Message \union {Nil}
    /\ tracked \in BOOLEAN
    /\ stop \in StopStates
    /\ handled \in [Partitions -> SUBSET Nat]
    /\ failed \in [Partitions -> SUBSET Nat]
    /\ failures \in Nat /\ crashes \in Nat /\ stops \in Nat /\ rebalances \in Nat

(* No crash, restart, shutdown or rebalance makes either durable cursor,   *)
(* the committed offset or the state file, jump over a message that was    *)
(* neither finished nor reported as failed: a message leaves the system    *)
(* only through its outcome or through a logged exception.                 *)
NothingSilentlySkipped ==
    /\ \A p \in Partitions : Below(committed[p]) \subseteq Accounted(p)
    /\ stateFile # Nil =>
         Below(stateFile.offset + 1) \subseteq Accounted(stateFile.partition)

(* A message reaches its outcome for the first time only when every        *)
(* earlier message of its partition is finished: restarts and the two      *)
(* cursors never let a later event of a host overtake an earlier one.      *)
FirstOutcomesInOrder ==
    [][\A p \in Partitions : \A o \in handled'[p] \ handled[p] :
           Below(o) \subseteq Accounted(p)]_vars

(* Because the state file is written before the commit, the file is never  *)
(* older than the commit of its partition, so resuming from it rewinds     *)
(* nothing, as long as the group was never rebalanced under a running      *)
(* worker: a rebalance resumes from the snapshot of the start.             *)
CommitNeverOvertakesState ==
    rebalances = 0 /\ stateFile # Nil =>
        committed[stateFile.partition] <= stateFile.offset + 1

(* Until the first rebalance the committed offset never moves backwards,   *)
(* whatever mixture of the two cursors the restarts resumed from.          *)
CommittedNeverRewinds ==
    [][rebalances' = 0 =>
           \A p \in Partitions : committed'[p] >= committed[p]]_vars

(* A backlog is worked off: whatever failures, restarts and rebalances     *)
(* happened within the bounds, the worker gets to where every message of   *)
(* the topic is finished or was reported as failed.                        *)
CaughtUp == \A p \in Partitions : Below(logEnd[p]) \subseteq Accounted(p)
EventuallyAccounted == ~ CaughtUp ~> CaughtUp

=============================================================================
