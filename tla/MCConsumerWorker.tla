-------------------------- MODULE MCConsumerWorker --------------------------
(* The two partitions that the runs of ConsumerWorker give the topic.      *)
EXTENDS QueueMonitor

CONSTANTS p1, p2
=============================================================================
