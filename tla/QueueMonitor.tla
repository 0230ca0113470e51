---------------------------- MODULE QueueMonitor ----------------------------
(***************************************************************************)
(* The queue monitor of monitoring-ui-api beside a consumer worker: it     *)
(* reads the offsets of the topic from Kafka, then the worker's processing *)
(* state file, and shows how many messages are waiting. It writes nothing; *)
(* what it may see is a quantifier over the states of ConsumerWorker.      *)
(***************************************************************************)
EXTENDS ConsumerWorker, Functions

CONSTANTS
    Warning,   \* pipeline.warningThreshold
    Critical   \* pipeline.criticalThreshold

ASSUME MonitorAssumption ==
    /\ IsFiniteSet(Partitions)
    /\ Warning \in Nat /\ Critical \in Nat \ {0}

\* Mutant: the state file's offset counts for every partition.
ProcessedNextAnywhere(offset, p, document) ==
    IF document # Nil THEN document.offset + 1 ELSE offset.low

(* Offsets: partition -> [low, high], as fetchTopicOffsets answers. A      *)
(* document is a message of the topic, or Nil: no file, one that cannot be *)
(* read, or one of another topic.                                          *)
ProcessedNext(offset, p, document) ==
    IF document # Nil /\ document.partition = p THEN document.offset + 1 ELSE offset.low

Behind(high, next) == IF high > next THEN high - next ELSE 0

\* queuePartitionStatus
PartitionLag(offsets, p, document) ==
    Behind(offsets[p].high, ProcessedNext(offsets[p], p, document))

\* readQueuePipelineStatus: the lag of mode Lag, unknown without a document.
Lag(offsets, document) ==
    IF document = Nil THEN Nil
    ELSE SumFunction([p \in DOMAIN offsets |-> PartitionLag(offsets, p, document)])

\* readTopicDepthQueueStatus
Depth(offsets) ==
    Behind(SumFunction([p \in DOMAIN offsets |-> offsets[p].high]),
           SumFunction([p \in DOMAIN offsets |-> offsets[p].low]))

\* queueLagStatus
Status(lag) ==
    IF lag = Nil THEN "unknown"
    ELSE IF lag >= Critical THEN "critical"
    ELSE IF lag >= Warning THEN "warn" ELSE "ok"

(* The offsets are fetched before the file is read, and messages arrive in *)
(* between: any high offsets up to the present ones may have been seen.    *)
(* Retention may have deleted any number of messages below the high one,   *)
(* those past the offset of the state file included.                       *)
Fetched ==
    {o \in [Partitions -> {r \in [low : 0 .. MaxOffset, high : 0 .. MaxOffset] :
                                 r.low <= r.high}] :
        \A p \in Partitions : o[p].high <= logEnd[p]}

\* The messages of p still on the topic that the worker has not finished.
Waiting(offsets, p) == (offsets[p].low .. (offsets[p].high - 1)) \ Accounted(p)

(* The lag hides nothing: it counts at least the messages on the topic     *)
(* that the worker has neither finished nor reported as failed, so a queue *)
(* shown as ok has fewer than Warning of them; without a document the      *)
(* status is unknown. The share of the partition in the state file is at   *)
(* most what the consumer group has not committed, until the first         *)
(* rebalance. The lag is no more than the topic's depth unless retention   *)
(* overtook the state file: then it still counts what was deleted.         *)
MonitorTellsBacklog ==
    \A offsets \in Fetched :
        LET lag == Lag(offsets, stateFile)
            waiting == SumFunction([p \in Partitions |-> Cardinality(Waiting(offsets, p))])
        IN  /\ Status(lag) = "ok" => waiting < Warning
            /\ stateFile # Nil =>
                 LET p == stateFile.partition
                 IN  /\ waiting <= lag
                     /\ offsets[p].low <= stateFile.offset + 1 =>
                          lag <= Depth(offsets)
                     /\ rebalances = 0 =>
                          PartitionLag(offsets, p, stateFile)
                            <= Behind(offsets[p].high, committed[p])

=============================================================================
