----------------------- MODULE ConsumerWorker_proofs -----------------------
(***************************************************************************)
(* Machine-checked safety of the consumer loop, for every set of           *)
(* partitions, every WriteOnSuccess setting and every value of the bounds. *)
(*                                                                         *)
(* NothingSilentlySkipped is not inductive: a commit moves the cursor to   *)
(* wherever the consumer's position has led the current message, so the    *)
(* invariant has to say that everything behind the position is finished or *)
(* is the current message (PositionInv), that the snapshot a restart or a  *)
(* rebalance resumes from is as good as the state file it was read from    *)
(* (SnapshotInv), and that a message past Complete is handled (PhaseInv).  *)
(*                                                                         *)
(* On the same invariant rests what the queue monitor tells: partition by  *)
(* partition the waiting messages lie between the state file's offset and  *)
(* the end of the topic, and sums over the partitions keep that.           *)
(*                                                                         *)
(* The last part is about the file the state is kept in.                   *)
(***************************************************************************)
EXTENDS QueueMonitor, AtomicFile, FiniteSetTheorems, TLAPS

Working == {"processing", "completed", "recorded"}

Flags == assigned \in BOOLEAN /\ tracked \in BOOLEAN

Data ==
    /\ logEnd \in [Partitions -> Nat]
    /\ committed \in [Partitions -> Nat]
    /\ stateFile \in Message \union {Nil}
    /\ snapshot \in Message \union {Nil}
    /\ position \in [Partitions -> Nat]
    /\ phase \in Phases
    /\ current \in Message \union {Nil}
    /\ stop \in StopStates
    /\ handled \in [Partitions -> SUBSET Nat]
    /\ failed \in [Partitions -> SUBSET Nat]
    /\ failures \in Nat /\ crashes \in Nat /\ stops \in Nat /\ rebalances \in Nat
    /\ current # Nil <=> phase \in Working

PhaseInv ==
    /\ current # Nil => assigned /\ current.offset < position[current.partition]
    /\ phase \in {"completed", "recorded"} =>
         current.offset \in handled[current.partition]

SnapshotInv ==
    snapshot # Nil =>
        Below(snapshot.offset + 1) \subseteq Accounted(snapshot.partition)

PositionInv ==
    assigned /\ phase \notin {"down", "closing"} =>
        \A p \in Partitions : \A o \in Below(position[p]) :
            \/ o \in Accounted(p)
            \/ current = [partition |-> p, offset |-> o]

IInv ==
    /\ Data
    /\ PhaseInv
    /\ SnapshotInv
    /\ PositionInv
    /\ NothingSilentlySkipped

-----------------------------------------------------------------------------
(* What a message is made of.                                              *)
LEMMA MessageFields ==
    /\ \A m \in Message : m.partition \in Partitions /\ m.offset \in Nat
    /\ \A p \in Partitions, o \in Nat : [partition |-> p, offset |-> o] \in Message
  BY DEF Message

(* The state keeps its type, and there is a current message exactly while  *)
(* ProcessMessageAsync runs.                                               *)
LEMMA DataStep == Data /\ [Next]_vars => Data'
  <1> SUFFICES ASSUME Data, [Next]_vars PROVE Data'
    OBVIOUS
  <1> USE ConsumerAssumption, MessageFields DEF Data, Phases, StopStates, Working
  <1>1. ASSUME NEW p \in Partitions, Produce(p) PROVE Data'
    BY <1>1 DEF Produce, history, bounds
  <1>2. ASSUME NEW p \in Partitions, Consume(p) PROVE Data'
    BY <1>2 DEF Consume, broker, history, bounds
  <1>3. CASE Start
    BY <1>3 DEF Start, broker, history, bounds
  <1>4. CASE LoopTest
    BY <1>4 DEF LoopTest, broker, history, bounds
  <1>5. CASE Assign
    BY <1>5 DEF Assign, ResolveStartOffset, broker, history
  <1>6. CASE PollEmpty
    BY <1>6 DEF PollEmpty, broker, history, bounds
  <1>7. CASE TrackInFlightTask
    BY <1>7 DEF TrackInFlightTask, broker, history, bounds
  <1>8. CASE Complete
    BY <1>8 DEF Complete, broker, bounds
  <1>9. CASE RecordState
    BY <1>9 DEF RecordState, broker, history, bounds
  <1>10. CASE Commit
    BY <1>10 DEF Commit, history, bounds
  <1>11. CASE Fail
    BY <1>11 DEF Fail, broker
  <1>12. CASE BackoffEnd
    BY <1>12 DEF BackoffEnd, broker, history, bounds
  <1>13. CASE RequestStop
    BY <1>13 DEF RequestStop, broker, history
  <1>14. CASE ReadInFlightTask
    BY <1>14 DEF ReadInFlightTask, broker, history, bounds
  <1>15. CASE Drained
    BY <1>15 DEF Drained, broker, history, bounds
  <1>16. CASE DrainTimeout
    BY <1>16 DEF DrainTimeout, broker, history, bounds
  <1>17. CASE CancelInFlight
    BY <1>17 DEF CancelInFlight, broker, bounds
  <1>18. CASE Close
    BY <1>18 DEF Close, broker, history, bounds
  <1>19. CASE Crash
    BY <1>19 DEF Crash, broker
  <1>20. CASE UNCHANGED vars
    BY <1>20 DEF vars, broker, history, bounds
  <1> QED
    BY <1>1, <1>2, <1>3, <1>4, <1>5, <1>6, <1>7, <1>8, <1>9, <1>10, <1>11,
       <1>12, <1>13, <1>14, <1>15, <1>16, <1>17, <1>18, <1>19, <1>20 DEF
       Next

\* Every step keeps the flags Boolean.
LEMMA FlagsStep == Flags /\ [Next]_vars => Flags'
  <1> SUFFICES ASSUME Flags, [Next]_vars PROVE Flags'
    OBVIOUS
  <1> QED
    BY DEF Flags, Next, vars, bounds, history, broker, Produce, Consume, Start, LoopTest, Assign, PollEmpty, TrackInFlightTask, Complete, RecordState, Commit, Fail, BackoffEnd, RequestStop, ReadInFlightTask, Drained, DrainTimeout, CancelInFlight, Close, Crash

(* Type correctness of the worker's and the broker's state.                *)
THEOREM TypeCorrect == Spec => []TypeOK
  <1>1. Init => Data /\ Flags
    <2>1. Init => Data
      BY ConsumerAssumption DEF Init, Data, Phases, StopStates, Working
    <2>2. Init => Flags
      BY DEF Init, Flags
    <2> QED
      BY <2>1, <2>2
  <1>2. Data /\ Flags => TypeOK
    BY DEF Data, Flags, TypeOK
  <1> QED
    BY <1>1, <1>2, DataStep, FlagsStep, PTL DEF Spec

-----------------------------------------------------------------------------
\* Initially nothing is consumed.
LEMMA InitIInv == Init => IInv
  <1> SUFFICES ASSUME Init PROVE IInv
    OBVIOUS
  <1>1. Data
    BY ConsumerAssumption DEF Init, Data, Phases, StopStates, Working
  <1>2. PhaseInv /\ SnapshotInv /\ PositionInv
    BY DEF Init, PhaseInv, SnapshotInv, PositionInv
  <1>3. NothingSilentlySkipped
    BY DEF Init, NothingSilentlySkipped, Below
  <1> QED
    BY <1>1, <1>2, <1>3 DEF IInv

(* Once the current message is finished, everything up to and including it *)
(* is accounted for: what both durable cursors are moved over.             *)
LEMMA CurrentCovered ==
  ASSUME IInv, phase \in {"completed", "recorded"}
  PROVE  /\ current \in Message
         /\ Below(current.offset + 1) \subseteq Accounted(current.partition)
  <1> USE ConsumerAssumption, MessageFields
  <1>1. current \in Message /\ assigned /\ phase \notin {"down", "closing"}
    BY DEF IInv, Data, PhaseInv, Working
  <1>2. ASSUME NEW o \in Below(current.offset + 1)
        PROVE  o \in Accounted(current.partition)
    <2>1. CASE o = current.offset
      BY <2>1 DEF IInv, PhaseInv, Accounted
    <2>2. CASE o # current.offset
      <3>1. o \in Below(position[current.partition])
        BY <1>1, <2>2 DEF IInv, Data, PhaseInv, Below
      <3>2. current # [partition |-> current.partition, offset |-> o]
        BY <2>2
      <3> QED
        BY <1>1, <3>1, <3>2 DEF IInv, PositionInv
    <2> QED
      BY <2>1, <2>2
  <1> QED
    BY <1>1, <1>2

(* Steps of the surroundings and of the loop's bookkeeping: the cursors,   *)
(* the histories and the current message stay, the phase stays or moves    *)
(* between phases the invariant does not tell apart.                       *)
LEMMA QuietStep ==
  ASSUME IInv, [Next]_vars,
         UNCHANGED <<committed, stateFile, snapshot, assigned, position,
                     current, handled, failed>>,
         phase' # phase => /\ phase' \notin {"completed", "recorded"}
                           /\ phase # "down" /\ (phase = "closing" => phase' = "down")
  PROVE  IInv'
  <1>1. Data'
    BY DataStep DEF IInv
  <1>2. PhaseInv' /\ SnapshotInv' /\ NothingSilentlySkipped'
    BY DEF IInv, PhaseInv, SnapshotInv, NothingSilentlySkipped, Accounted
  <1>3. PositionInv'
    BY DEF IInv, PositionInv, Accounted
  <1> QED
    BY <1>1, <1>2, <1>3 DEF IInv

\* Every step keeps the invariant.
LEMMA StepIInv == IInv /\ [Next]_vars => IInv'
  <1> SUFFICES ASSUME IInv, [Next]_vars PROVE IInv'
    OBVIOUS
  <1> USE ConsumerAssumption, MessageFields
  <1>d. Data /\ Data'
    BY DataStep DEF IInv
  <1>1. ASSUME NEW p \in Partitions, Produce(p) PROVE IInv'
    BY <1>1, QuietStep DEF Produce, history
  <1>2. ASSUME NEW p \in Partitions, Consume(p) PROVE IInv'
    <2>1. /\ current' = [partition |-> p, offset |-> position[p]]
          /\ position' = [position EXCEPT ![p] = @ + 1]
          /\ UNCHANGED <<committed, stateFile, snapshot, assigned, handled, failed>>
          /\ phase = "polling" /\ phase' = "processing" /\ assigned /\ current = Nil
      BY <1>2, <1>d DEF Consume, broker, history, Data, Working
    <2>2. PhaseInv'
      BY <2>1, <1>d DEF PhaseInv, Data
    <2>3. SnapshotInv' /\ NothingSilentlySkipped'
      BY <2>1 DEF IInv, SnapshotInv, NothingSilentlySkipped, Accounted
    <2>4. ASSUME NEW q \in Partitions, NEW o \in Below(position'[q])
          PROVE  o \in Accounted(q) \/ current' = [partition |-> q, offset |-> o]
      <3>1. CASE q = p /\ o = position[p]
        BY <3>1, <2>1
      <3>2. CASE ~(q = p /\ o = position[p])
        <4>1. o \in Below(position[q])
          BY <3>2, <2>1, <1>d DEF Below, Data
        <4>2. current # [partition |-> q, offset |-> o]
          BY <2>1, <4>1, <1>d DEF Below, Data
        <4> QED
          BY <4>1, <4>2, <2>1 DEF IInv, PositionInv
      <3> QED
        BY <3>1, <3>2
    <2>5. PositionInv'
      BY <2>1, <2>4 DEF PositionInv, Accounted
    <2> QED
      BY <1>d, <2>2, <2>3, <2>5 DEF IInv
  <1>3. CASE Start
    <2>1. /\ UNCHANGED <<committed, stateFile, position, current, handled, failed>>
          /\ snapshot' \in {stateFile, Nil} /\ assigned' = FALSE
          /\ phase' = "top" /\ current = Nil
      BY <1>3, <1>d DEF Start, broker, history, Data, Working
    <2>2. PhaseInv' /\ PositionInv'
      BY <2>1 DEF PhaseInv, PositionInv
    <2>3. SnapshotInv' /\ NothingSilentlySkipped'
      BY <2>1 DEF IInv, SnapshotInv, NothingSilentlySkipped, Accounted
    <2> QED
      BY <1>d, <2>2, <2>3 DEF IInv
  <1>4. CASE LoopTest
    BY <1>4, QuietStep DEF LoopTest, broker, history
  <1>5. CASE Assign
    <2>1. /\ UNCHANGED <<committed, stateFile, snapshot, phase, current, handled, failed>>
          /\ position' = [p \in Partitions |-> ResolveStartOffset(p)]
          /\ phase = "polling" /\ current = Nil
      BY <1>5, <1>d DEF Assign, broker, history, Data, Working
    <2>2. PhaseInv'
      BY <2>1 DEF PhaseInv
    <2>3. SnapshotInv' /\ NothingSilentlySkipped'
      BY <2>1 DEF IInv, SnapshotInv, NothingSilentlySkipped, Accounted
    <2>4. \A p \in Partitions : Below(ResolveStartOffset(p)) \subseteq Accounted(p)
      BY DEF IInv, SnapshotInv, NothingSilentlySkipped, ResolveStartOffset
    <2>5. PositionInv'
      BY <2>1, <2>4 DEF PositionInv, Accounted
    <2> QED
      BY <1>d, <2>2, <2>3, <2>5 DEF IInv
  <1>6. CASE PollEmpty
    BY <1>6, QuietStep DEF PollEmpty, broker, history
  <1>7. CASE TrackInFlightTask
    BY <1>7, QuietStep DEF TrackInFlightTask, broker, history
  <1>8. CASE Complete
    <2>1. /\ UNCHANGED <<committed, stateFile, snapshot, assigned, position, current, failed>>
          /\ handled' = [handled EXCEPT ![current.partition] = @ \union {current.offset}]
          /\ phase = "processing" /\ phase' = "completed" /\ current \in Message
      BY <1>8, <1>d DEF Complete, broker, Data, Working
    <2>2. \A p \in Partitions : Accounted(p) \subseteq Accounted(p)'
      BY <2>1, <1>d DEF Accounted, Data
    <2>3. PhaseInv'
      BY <2>1, <1>d DEF IInv, PhaseInv, Data
    <2>4. SnapshotInv' /\ NothingSilentlySkipped'
      BY <2>1, <2>2, <1>d DEF IInv, SnapshotInv, NothingSilentlySkipped, Data
    <2>5. PositionInv'
      BY <2>1, <2>2 DEF IInv, PositionInv
    <2> QED
      BY <1>d, <2>3, <2>4, <2>5 DEF IInv
  <1>9. CASE RecordState
    <2>1. /\ UNCHANGED <<committed, snapshot, assigned, position, current, handled, failed>>
          /\ stateFile' \in {current, stateFile}
          /\ phase = "completed" /\ phase' = "recorded"
      BY <1>9 DEF RecordState, broker, history
    <2>2. PhaseInv' /\ SnapshotInv' /\ PositionInv'
      BY <2>1 DEF IInv, PhaseInv, SnapshotInv, PositionInv, Accounted
    <2>3. NothingSilentlySkipped'
      BY <2>1, CurrentCovered DEF IInv, NothingSilentlySkipped, Accounted
    <2> QED
      BY <1>d, <2>2, <2>3 DEF IInv
  <1>10. CASE Commit
    <2>1. /\ UNCHANGED <<stateFile, snapshot, assigned, position, handled, failed>>
          /\ committed' = [committed EXCEPT ![current.partition] = current.offset + 1]
          /\ phase = "recorded" /\ phase' = "top" /\ current' = Nil
      BY <1>10 DEF Commit, history
    <2>2. PhaseInv' /\ SnapshotInv'
      BY <2>1 DEF IInv, PhaseInv, SnapshotInv, Accounted
    <2>3. NothingSilentlySkipped'
      BY <2>1, CurrentCovered, <1>d DEF IInv, NothingSilentlySkipped, Accounted, Data
    <2>4. PositionInv'
      BY <2>1, <1>d DEF IInv, PositionInv, PhaseInv, Accounted, Data
    <2> QED
      BY <1>d, <2>2, <2>3, <2>4 DEF IInv
  <1>11. CASE Fail
    <2>1. /\ UNCHANGED <<committed, stateFile, snapshot, assigned, position, handled>>
          /\ failed' = [failed EXCEPT ![current.partition] = @ \union {current.offset}]
          /\ phase \in Working /\ phase' = "backoff" /\ current' = Nil
          /\ current \in Message
      BY <1>11, <1>d DEF Fail, broker, Data, Working
    <2>2. \A p \in Partitions : Accounted(p) \subseteq Accounted(p)'
      BY <2>1, <1>d DEF Accounted, Data
    <2>3. current.offset \in failed'[current.partition]
      BY <2>1, <1>d DEF Data
    <2>4. PhaseInv'
      BY <2>1 DEF PhaseInv
    <2>5. SnapshotInv' /\ NothingSilentlySkipped'
      BY <2>1, <2>2, <1>d DEF IInv, SnapshotInv, NothingSilentlySkipped, Data
    <2>6. ASSUME NEW p \in Partitions, NEW o \in Below(position[p])
          PROVE  o \in Accounted(p)'
      <3>1. assigned /\ phase \notin {"down", "closing"}
        BY <2>1, <1>d DEF IInv, PhaseInv, Data, Working
      <3>2. CASE current = [partition |-> p, offset |-> o]
        BY <3>2, <2>3 DEF Accounted
      <3>3. CASE current # [partition |-> p, offset |-> o]
        BY <3>1, <3>3, <2>2 DEF IInv, PositionInv
      <3> QED
        BY <3>2, <3>3
    <2>7. PositionInv'
      BY <2>1, <2>6 DEF PositionInv, Below
    <2> QED
      BY <1>d, <2>4, <2>5, <2>7 DEF IInv
  <1>12. CASE BackoffEnd
    BY <1>12, QuietStep DEF BackoffEnd, broker, history
  <1>13. CASE RequestStop
    BY <1>13, QuietStep DEF RequestStop, broker, history
  <1>14. CASE ReadInFlightTask
    BY <1>14, QuietStep DEF ReadInFlightTask, broker, history
  <1>15. CASE Drained
    BY <1>15, QuietStep DEF Drained, broker, history
  <1>16. CASE DrainTimeout
    BY <1>16, QuietStep DEF DrainTimeout, broker, history
  <1>17. CASE CancelInFlight
    <2>1. /\ UNCHANGED <<committed, stateFile, snapshot, assigned, position, handled, failed>>
          /\ phase' = "closing" /\ current' = Nil
      BY <1>17 DEF CancelInFlight, broker
    <2>2. PhaseInv' /\ PositionInv'
      BY <2>1 DEF PhaseInv, PositionInv
    <2>3. SnapshotInv' /\ NothingSilentlySkipped'
      BY <2>1 DEF IInv, SnapshotInv, NothingSilentlySkipped, Accounted
    <2> QED
      BY <1>d, <2>2, <2>3 DEF IInv
  <1>18. CASE Close
    BY <1>18, QuietStep DEF Close, broker, history
  <1>19. CASE Crash
    <2>1. /\ UNCHANGED <<committed, stateFile, snapshot, assigned, position, handled, failed>>
          /\ phase' = "down" /\ current' = Nil
      BY <1>19 DEF Crash, broker
    <2>2. PhaseInv' /\ PositionInv'
      BY <2>1 DEF PhaseInv, PositionInv
    <2>3. SnapshotInv' /\ NothingSilentlySkipped'
      BY <2>1 DEF IInv, SnapshotInv, NothingSilentlySkipped, Accounted
    <2> QED
      BY <1>d, <2>2, <2>3 DEF IInv
  <1>20. CASE UNCHANGED vars
    BY <1>20, QuietStep DEF vars, broker, history
  <1> QED
    BY <1>1, <1>2, <1>3, <1>4, <1>5, <1>6, <1>7, <1>8, <1>9, <1>10, <1>11,
       <1>12, <1>13, <1>14, <1>15, <1>16, <1>17, <1>18, <1>19, <1>20 DEF Next

(* Neither durable cursor ever passes over a message that was neither      *)
(* finished nor reported as failed.                                        *)
THEOREM NoSilentLoss == Spec => []NothingSilentlySkipped
  <1>1. IInv => NothingSilentlySkipped
    BY DEF IInv
  <1> QED
    BY <1>1, InitIInv, StepIInv, PTL DEF Spec

(* An outcome is reached for the first time in the partition's order: only *)
(* Complete adds one, and PositionInv accounts for everything before it.   *)
THEOREM OutcomesInOrder == Spec => FirstOutcomesInOrder
  <1> DEFINE InOrder == \A p \in Partitions : \A o \in handled'[p] \ handled[p] :
                            Below(o) \subseteq Accounted(p)
  <1>1. IInv /\ [Next]_vars => [InOrder]_vars
    <2> SUFFICES ASSUME IInv, [Next]_vars,
                        NEW p \in Partitions, NEW o \in handled'[p] \ handled[p],
                        NEW b \in Below(o)
                 PROVE  b \in Accounted(p)
      OBVIOUS
    <2> USE MessageFields DEF Working
    <2>1. Complete
      BY DEF Next, vars, history, Produce, Consume, Start, LoopTest, Assign,
             PollEmpty, TrackInFlightTask, RecordState, Commit, Fail,
             BackoffEnd, RequestStop, ReadInFlightTask, Drained, DrainTimeout,
             CancelInFlight, Close, Crash
    <2>2. /\ current \in Message /\ phase = "processing"
          /\ handled' = [handled EXCEPT ![current.partition] = @ \union {current.offset}]
      BY <2>1 DEF Complete, IInv, Data
    <2>3. p = current.partition /\ o = current.offset
      BY <2>2 DEF IInv, Data
    <2>4. assigned /\ o < position[p]
      BY <2>2, <2>3, ConsumerAssumption DEF IInv, PhaseInv
    <2>5. b \in Below(position[p]) /\ b # o
      BY <2>2, <2>3, <2>4 DEF Below, IInv, Data
    <2>6. current # [partition |-> p, offset |-> b]
      BY <2>3, <2>5
    <2> QED
      BY <2>2, <2>4, <2>5, <2>6 DEF IInv, PositionInv
  <1> QED
    BY <1>1, InitIInv, StepIInv, PTL DEF Spec, FirstOutcomesInOrder

-----------------------------------------------------------------------------
(***************************************************************************)
(* A worker until the first rebalance of its group. The stale snapshot     *)
(* does no harm then, because it is consulted once, before the state file  *)
(* changes: the position starts at or after the commit of every partition, *)
(* and the commits follow it.                                              *)
(***************************************************************************)
FreshSnapshot == ~assigned /\ phase # "down" => snapshot \in {Nil, stateFile}

PositionPastCommit ==
    assigned => \A p \in Partitions : committed[p] <= position[p]

CurrentPastCommit == current # Nil => committed[current.partition] <= current.offset

FilePastCommit ==
    stateFile # Nil => committed[stateFile.partition] <= stateFile.offset + 1

Stable == PositionPastCommit /\ CurrentPastCommit /\ FilePastCommit

FileInv ==
    /\ phase = "recorded" /\ WriteOnSuccess => stateFile = current
    /\ ~WriteOnSuccess => stateFile = Nil

StableInv ==
    /\ IInv
    /\ FreshSnapshot
    /\ FileInv
    /\ rebalances = 0 => Stable

(* The snapshot is as fresh as the state file until the assignment has     *)
(* used it, and a recorded message is the file's until its commit.         *)
LEMMA FileStep ==
  ASSUME IInv, FreshSnapshot, FileInv, [Next]_vars
  PROVE  FreshSnapshot' /\ FileInv'
  <1> USE DEF FreshSnapshot, FileInv
  <1>d. Data /\ PhaseInv
    BY DEF IInv
  <1>q. ASSUME UNCHANGED <<stateFile, snapshot, assigned>>,
               phase' = "recorded" => phase = "recorded" /\ current' = current,
               phase = "down" => phase' = "down"
        PROVE  FreshSnapshot' /\ FileInv'
    BY <1>q
  <1>1. CASE Start
    BY <1>1 DEF Start
  <1>2. CASE Assign
    BY <1>2 DEF Assign
  <1>3. CASE RecordState
    BY <1>3, <1>d DEF RecordState, PhaseInv, Data, Working
  <1>4. CASE \E p \in Partitions : Produce(p) \/ Consume(p)
    BY <1>4, <1>q DEF Produce, Consume
  <1>5. CASE LoopTest \/ PollEmpty \/ TrackInFlightTask \/ Complete \/ Commit
    BY <1>5, <1>q DEF LoopTest, PollEmpty, TrackInFlightTask, Complete, Commit
  <1>6. CASE Fail \/ BackoffEnd \/ RequestStop \/ ReadInFlightTask \/ Drained
    BY <1>6, <1>q DEF Fail, BackoffEnd, RequestStop, ReadInFlightTask, Drained
  <1>7. CASE DrainTimeout \/ CancelInFlight \/ Close \/ Crash
    BY <1>7, <1>q DEF DrainTimeout, CancelInFlight, Close, Crash
  <1>8. CASE UNCHANGED vars
    BY <1>8, <1>q DEF vars
  <1> QED
    BY <1>1, <1>2, <1>3, <1>4, <1>5, <1>6, <1>7, <1>8 DEF Next

Monotone == \A p \in Partitions : committed'[p] >= committed[p]

(* A step that is not a rebalance leaves the consumer at or after every    *)
(* commit, and moves no commit backwards.                                  *)
LEMMA StableStep ==
  ASSUME IInv, FreshSnapshot, FileInv, Stable, [Next]_vars, rebalances' = rebalances
  PROVE  Stable' /\ Monotone
  <1> USE ConsumerAssumption, MessageFields
          DEF Stable, PositionPastCommit, CurrentPastCommit, FilePastCommit, Monotone
  <1>d. Data
    BY DEF IInv
  \* Steps that touch no cursor, and keep the current message or drop it.
  <1>q. ASSUME UNCHANGED <<committed, stateFile, assigned, position>>,
               current' \in {current, Nil}
        PROVE  Stable' /\ Monotone
    BY <1>q, <1>d DEF Data
  <1>1. ASSUME NEW p \in Partitions, Produce(p) PROVE Stable' /\ Monotone
    BY <1>1, <1>q, <1>d DEF Produce, Data
  <1>2. ASSUME NEW p \in Partitions, Consume(p) PROVE Stable' /\ Monotone
    <2>1. /\ current' = [partition |-> p, offset |-> position[p]]
          /\ position' = [position EXCEPT ![p] = @ + 1]
          /\ UNCHANGED <<committed, stateFile, assigned>> /\ assigned
      BY <1>2 DEF Consume, broker
    <2>2. FilePastCommit' /\ Monotone
      BY <2>1, <1>d DEF Data
    <2>3. PositionPastCommit'
      BY <2>1, <1>d DEF Data
    <2>4. CurrentPastCommit'
      BY <2>1, <1>d DEF Data
    <2> QED
      BY <2>2, <2>3, <2>4
  <1>3. CASE Start
    BY <1>3, <1>d DEF Start, broker, Data
  <1>4. CASE Assign
    <2>1. /\ UNCHANGED <<committed, stateFile, current>>
          /\ position' = [p \in Partitions |-> ResolveStartOffset(p)]
          /\ phase = "polling" /\ ~assigned
      BY <1>4, <1>d DEF Assign, broker, Data
    <2>2. \A p \in Partitions : committed[p] <= ResolveStartOffset(p)
      BY <2>1, <1>d DEF FreshSnapshot, ResolveStartOffset, Data
    <2> QED
      BY <2>1, <2>2, <1>d DEF Data
  <1>5. CASE RecordState
    <2>1. /\ UNCHANGED <<committed, assigned, position, current>>
          /\ stateFile' \in {current, stateFile}
          /\ current \in Message
      BY <1>5, <1>d DEF RecordState, broker, Data, Working
    <2> QED
      BY <2>1, <1>d DEF Data
  <1>6. CASE Commit
    <2>1. /\ UNCHANGED <<stateFile, assigned, position>>
          /\ committed' = [committed EXCEPT ![current.partition] = current.offset + 1]
          /\ phase = "recorded" /\ current' = Nil
      BY <1>6 DEF Commit
    <2>2. /\ current \in Message /\ current # Nil /\ assigned
          /\ current.offset < position[current.partition]
      BY <2>1, <1>d DEF IInv, PhaseInv, Data, Working
    <2>3. Monotone
      BY <2>1, <2>2, <1>d DEF Data
    <2>4. PositionPastCommit' /\ CurrentPastCommit'
      BY <2>1, <2>2, <1>d DEF Data
    <2>5. FilePastCommit'
      BY <2>1, <2>2, <1>d DEF FileInv, Data
    <2> QED
      BY <2>3, <2>4, <2>5
  <1>7. CASE LoopTest \/ PollEmpty \/ TrackInFlightTask \/ Complete
    BY <1>7, <1>q DEF LoopTest, PollEmpty, TrackInFlightTask, Complete, broker
  <1>8. CASE Fail \/ BackoffEnd \/ RequestStop \/ ReadInFlightTask \/ Drained
    BY <1>8, <1>q DEF Fail, BackoffEnd, RequestStop, ReadInFlightTask, Drained, broker
  <1>9. CASE DrainTimeout \/ CancelInFlight \/ Close \/ Crash
    BY <1>9, <1>q DEF DrainTimeout, CancelInFlight, Close, Crash, broker
  <1>10. CASE UNCHANGED vars
    BY <1>10, <1>q DEF vars, broker
  <1> QED
    BY <1>1, <1>2, <1>3, <1>4, <1>5, <1>6, <1>7, <1>8, <1>9, <1>10 DEF Next

\* Until the first rebalance every step keeps the cursors in order, and no
\* commit moves back.
LEMMA StepStableInv ==
  StableInv /\ [Next]_vars => StableInv' /\ (rebalances' = 0 => Monotone)
  <1> SUFFICES ASSUME StableInv, [Next]_vars
               PROVE  StableInv' /\ (rebalances' = 0 => Monotone)
    OBVIOUS
  <1>1. IInv' /\ FreshSnapshot' /\ FileInv'
    BY StepIInv, FileStep DEF StableInv
  <1>2. rebalances' = rebalances \/ rebalances' = rebalances + 1
    BY DEF Next, vars, bounds, Produce, Consume, Start, LoopTest, Assign,
           PollEmpty, TrackInFlightTask, Complete, RecordState, Commit, Fail,
           BackoffEnd, RequestStop, ReadInFlightTask, Drained, DrainTimeout,
           CancelInFlight, Close, Crash
  <1>3. rebalances \in Nat
    BY DEF StableInv, IInv, Data
  <1>4. ASSUME rebalances' = 0 PROVE Stable' /\ Monotone
    <2>1. rebalances' = rebalances /\ rebalances = 0
      BY <1>2, <1>3, <1>4
    <2> QED
      BY <2>1, StableStep DEF StableInv
  <1> QED
    BY <1>1, <1>4 DEF StableInv

\* Initially the cursors are in order.
LEMMA InitStableInv == Init => StableInv
  BY InitIInv, ConsumerAssumption DEF Init, StableInv, FreshSnapshot, FileInv,
     Stable, PositionPastCommit, CurrentPastCommit, FilePastCommit

(* Until the first rebalance the state file is never older than the commit *)
(* of its partition, whatever crashes, stops and failures there were.      *)
THEOREM StateKeepsUp == Spec => []CommitNeverOvertakesState
  <1>1. StableInv => CommitNeverOvertakesState
    BY DEF StableInv, Stable, FilePastCommit, CommitNeverOvertakesState
  <1>2. StableInv /\ [Next]_vars => StableInv'
    BY StepStableInv
  <1> QED
    BY <1>1, <1>2, InitStableInv, PTL DEF Spec

(* Until the first rebalance the committed offsets only grow.              *)
THEOREM CommitsGrow == Spec => CommittedNeverRewinds
  <1>1. StableInv /\ [Next]_vars =>
            StableInv' /\ [rebalances' = 0 =>
               \A p \in Partitions : committed'[p] >= committed[p]]_vars
    BY StepStableInv DEF Monotone
  <1> QED
    BY <1>1, InitStableInv, PTL DEF Spec, CommittedNeverRewinds
-----------------------------------------------------------------------------
(***************************************************************************)
(* The queue monitor adds up one number per partition, with the fold of    *)
(* Functions. What such a sum is has to be shown by induction on the set   *)
(* of partitions; no induction theorem of the library can be cited for it  *)
(* (they take the predicate as an operator), so each of the proofs below   *)
(* looks at a smallest counterexample, a finite set.                       *)
(***************************************************************************)

\* Every non-empty set of finite subsets of S has a smallest member.
LEMMA Smallest ==
  ASSUME NEW S, IsFiniteSet(S), NEW T, T \subseteq SUBSET S, T # {}
  PROVE  \E x \in T : \A y \in T : y \subseteq x => y = x
  <1> DEFINE R == StrictSubsetOrdering(S)
  <1>1. IsWellFoundedOn(R, FiniteSubsetsOf(S))
    BY FS_StrictSubsetOrderingWellFounded
  <1>2. T \subseteq FiniteSubsetsOf(S)
    BY FS_Subset DEF FiniteSubsetsOf
  <1>3. PICK x \in T : \A y \in T : ~(<<y, x>> \in R)
    <2> HIDE DEF R
    <2> QED BY <1>1, <1>2, WFMin
  <1>4. ASSUME NEW y \in T, y \subseteq x PROVE y = x
    <2>1. ~(<<y, x>> \in R)
      BY <1>3
    <2> QED BY <2>1, <1>4 DEF StrictSubsetOrdering
  <1> QED BY <1>4

\* The functions that satisfy the fold's recursion below S.
Pick(s) == CHOOSE x \in s : TRUE
Sums(f, S) ==
    {g \in [SUBSET S -> Nat] :
        \A s \in SUBSET S :
            g[s] = IF s = {} THEN 0 ELSE f[Pick(s)] + g[s \ {Pick(s)}]}

\* Two of them agree wherever both are defined.
LEMMA SumsAgree ==
  ASSUME NEW P, IsFiniteSet(P), NEW f \in [P -> Nat],
         NEW S \in SUBSET P, NEW T \in SUBSET S,
         NEW g \in Sums(f, S), NEW h \in Sums(f, T)
  PROVE  g[T] = h[T]
  <1> DEFINE D == {s \in SUBSET T : g[s] # h[s]}
  <1>1. SUFFICES ASSUME D # {} PROVE FALSE
    OBVIOUS
  <1>2. D \subseteq SUBSET P
    OBVIOUS
  <1>3. PICK s \in D : \A y \in D : y \subseteq s => y = s
    <2> HIDE DEF D
    <2> QED BY <1>1, <1>2, Smallest
  <1>4. CASE s = {}
    BY <1>3, <1>4 DEF Sums
  <1>5. CASE s # {}
    <2> DEFINE u == s \ {Pick(s)}
    <2>1. Pick(s) \in s
      BY <1>5 DEF Pick
    <2>2. u \in SUBSET T /\ u \in SUBSET S /\ u # s /\ u \subseteq s
      BY <2>1
    <2>3. g[u] = h[u]
      BY <1>3, <2>2
    <2>4. g[s] = f[Pick(s)] + g[u] /\ h[s] = f[Pick(s)] + h[u]
      BY <1>3, <1>5, <2>2 DEF Sums
    <2> QED BY <2>3, <2>4
  <1> QED BY <1>4, <1>5

\* There is one below every set, glued from those below its subsets.
LEMMA SumsExist ==
  ASSUME NEW P, IsFiniteSet(P), NEW f \in [P -> Nat]
  PROVE  \A S \in SUBSET P : Sums(f, S) # {}
  <1> DEFINE D == {s \in SUBSET P : Sums(f, s) = {}}
  <1>1. SUFFICES ASSUME D # {} PROVE FALSE
    OBVIOUS
  <1>3. PICK S \in D : \A y \in D : y \subseteq S => y = S
    <2>1. D \subseteq SUBSET P
      OBVIOUS
    <2> HIDE DEF D
    <2> QED BY <1>1, <2>1, Smallest
  <1> DEFINE G(s) == CHOOSE g : g \in Sums(f, s)
             V(s) == IF s = {} THEN 0 ELSE f[Pick(s)] + G(s \ {Pick(s)})[s \ {Pick(s)}]
             h == [s \in SUBSET S |-> V(s)]
  <1>4. ASSUME NEW s \in SUBSET S, s # S PROVE G(s) \in Sums(f, s)
    <2>1. Sums(f, s) # {}
      BY <1>3, <1>4
    <2> QED BY <2>1
  <1>5. ASSUME NEW s \in SUBSET S, s # {}
        PROVE  /\ Pick(s) \in s /\ Pick(s) \in P
               /\ s \ {Pick(s)} \in SUBSET S /\ s \ {Pick(s)} # S /\ s \ {Pick(s)} # s
    BY <1>5 DEF Pick
  <1>6. ASSUME NEW s \in SUBSET S PROVE V(s) \in Nat
    <2>1. CASE s = {}
      BY <2>1
    <2>2. CASE s # {}
      <3> DEFINE u == s \ {Pick(s)}
      <3>1. G(u) \in Sums(f, u)
        BY <1>4, <1>5, <2>2
      <3> HIDE DEF G, u
      <3>2. G(u)[u] \in Nat
        BY <3>1 DEF Sums
      <3>3. f[Pick(s)] \in Nat
        BY <1>5, <2>2
      <3> QED BY <2>2, <3>2, <3>3 DEF u
    <2> QED BY <2>1, <2>2
  <1>7. ASSUME NEW s \in SUBSET S, s # S PROVE V(s) = G(s)[s]
    <2>1. G(s) \in Sums(f, s)
      BY <1>4, <1>7
    <2>2. CASE s = {}
      <3> HIDE DEF G
      <3> QED BY <2>1, <2>2 DEF Sums
    <2>3. CASE s # {}
      <3> DEFINE u == s \ {Pick(s)}
      <3>1. u \in SUBSET s /\ u \in SUBSET S /\ u # S /\ s \in SUBSET P
        BY <1>5, <2>3
      <3>2. G(u) \in Sums(f, u)
        BY <1>4, <3>1
      <3> HIDE DEF G
      <3>3. G(s)[s] = f[Pick(s)] + G(s)[u]
        BY <2>1, <2>3 DEF Sums
      <3>4. G(s)[u] = G(u)[u]
        <4> HIDE DEF u
        <4>1. \A g \in Sums(f, s), k \in Sums(f, u) : g[u] = k[u]
          BY <3>1, SumsAgree
        <4> QED BY <4>1, <2>1, <3>2
      <3> QED BY <2>3, <3>3, <3>4
    <2> QED BY <2>2, <2>3
  <1>8. h \in Sums(f, S)
    <2>1. h \in [SUBSET S -> Nat]
      BY <1>6
    <2>2. ASSUME NEW s \in SUBSET S
          PROVE  h[s] = IF s = {} THEN 0 ELSE f[Pick(s)] + h[s \ {Pick(s)}]
      <3>1. CASE s = {}
        BY <3>1
      <3>2. CASE s # {}
        <4> DEFINE u == s \ {Pick(s)}
        <4>1. u \in SUBSET S /\ u # S
          BY <1>5, <3>2
        <4>2. V(s) = f[Pick(s)] + G(u)[u]
          BY <3>2
        <4>3. V(u) = G(u)[u]
          BY <4>1, <1>7
        <4>4. h[s] = V(s) /\ h[u] = V(u)
          BY <4>1
        <4> HIDE DEF G, V, h
        <4> QED BY <4>2, <4>3, <4>4, <3>2
      <3> QED BY <3>1, <3>2
    <2> HIDE DEF h
    <2> QED BY <2>1, <2>2 DEF Sums
  <1> QED BY <1>3, <1>8

\* The fold is one of them.
LEMMA SumIs ==
  ASSUME NEW P, IsFiniteSet(P), NEW f \in [P -> Nat]
  PROVE  \E g \in Sums(f, P) : SumFunction(f) = g[P]
  <1> DEFINE Rec(g) == g = [s \in SUBSET P |-> IF s = {} THEN 0 ELSE f[Pick(s)] + g[s \ {Pick(s)}]]
             c == CHOOSE g : Rec(g)
  <1>1. PICK k \in Sums(f, P) : TRUE
    BY SumsExist
  <1>2. Rec(k)
    BY <1>1 DEF Sums
  <1>3. Rec(c)
    BY <1>2
  <1>4. SumFunction(f) = c[P]
    BY DEF SumFunction, SumFunctionOnSet, FoldFunctionOnSet, MapThenFoldSet, Pick
  <1>5. c \in Sums(f, P)
    <2> DEFINE D == {s \in SUBSET P : c[s] \notin Nat}
    <2>0. \A s \in SUBSET P : c[s] = IF s = {} THEN 0 ELSE f[Pick(s)] + c[s \ {Pick(s)}]
      BY <1>3
    <2> HIDE DEF c
    <2>1. D = {}
      <3>1. SUFFICES ASSUME D # {} PROVE FALSE
        OBVIOUS
      <3>2. PICK s \in D : \A y \in D : y \subseteq s => y = s
        <4>1. D \subseteq SUBSET P
          OBVIOUS
        <4> HIDE DEF D
        <4> QED BY <3>1, <4>1, Smallest
      <3>3. s # {}
        BY <3>2, <2>0
      <3>4. Pick(s) \in s
        BY <3>3 DEF Pick
      <3>5. c[s \ {Pick(s)}] \in Nat
        BY <3>2, <3>4
      <3>6. f[Pick(s)] \in Nat
        BY <3>4
      <3> QED BY <3>2, <3>3, <3>5, <3>6, <2>0
    <2>2. \A s \in SUBSET P : c[s] \in Nat
      BY <2>1
    <2>3. c = [s \in SUBSET P |-> c[s]]
      BY <1>3
    <2> QED BY <2>0, <2>2, <2>3 DEF Sums
  <1> QED BY <1>4, <1>5

(* Sums keep what holds of every summand: h covers f and g together.       *)
LEMMA SumCovers ==
  ASSUME NEW P, IsFiniteSet(P), NEW f \in [P -> Nat], NEW g \in [P -> Nat],
         NEW h \in [P -> Nat], \A p \in P : f[p] + g[p] <= h[p]
  PROVE  /\ SumFunction(f) \in Nat /\ SumFunction(g) \in Nat /\ SumFunction(h) \in Nat
         /\ SumFunction(f) + SumFunction(g) <= SumFunction(h)
  <1>1. PICK F \in Sums(f, P) : SumFunction(f) = F[P]
    BY SumIs
  <1>2. PICK G \in Sums(g, P) : SumFunction(g) = G[P]
    BY SumIs
  <1>3. PICK H \in Sums(h, P) : SumFunction(h) = H[P]
    BY SumIs
  <1> DEFINE D == {s \in SUBSET P : ~ (F[s] + G[s] <= H[s])}
  <1>4. D = {}
    <2>1. SUFFICES ASSUME D # {} PROVE FALSE
      OBVIOUS
    <2>2. PICK s \in D : \A y \in D : y \subseteq s => y = s
      <3>1. D \subseteq SUBSET P
        OBVIOUS
      <3> HIDE DEF D
      <3> QED
        BY <2>1, <3>1, Smallest
    <2>3. s # {}
      <3>1. s \in SUBSET P /\ ~ (F[s] + G[s] <= H[s])
        BY <2>2
      <3>2. s = {} => F[s] = 0 /\ G[s] = 0 /\ H[s] = 0
        BY <3>1 DEF Sums
      <3> QED
        BY <3>1, <3>2
    <2> DEFINE x == Pick(s)
               u == s \ {x}
    <2>4. x \in P /\ u \in SUBSET P /\ u # s /\ u \subseteq s
      BY <2>3 DEF Pick
    <2>5. F[u] + G[u] <= H[u]
      BY <2>2, <2>4
    <2>6. F[s] = f[x] + F[u] /\ G[s] = g[x] + G[u] /\ H[s] = h[x] + H[u]
      BY <2>3 DEF Sums
    <2>7. f[x] \in Nat /\ g[x] \in Nat /\ h[x] \in Nat /\ f[x] + g[x] <= h[x]
      BY <2>4
    <2>8. F[u] \in Nat /\ G[u] \in Nat /\ H[u] \in Nat
      BY <2>4 DEF Sums
    <2>9. ~ (F[s] + G[s] <= H[s])
      BY <2>2
    <2> HIDE DEF x, u
    <2> QED
      BY <2>5, <2>6, <2>7, <2>8, <2>9
  <1>5. F[P] \in Nat /\ G[P] \in Nat /\ H[P] \in Nat
    BY DEF Sums
  <1> QED
    BY <1>1, <1>2, <1>3, <1>4, <1>5

-----------------------------------------------------------------------------
(* What one partition contributes to the lag: at least its waiting         *)
(* messages, at most its depth.                                            *)
LEMMA PartitionShare ==
  ASSUME Data, NothingSilentlySkipped, stateFile # Nil,
         NEW offsets \in Fetched, NEW p \in Partitions
  PROVE  /\ Cardinality(Waiting(offsets, p)) \in Nat
         /\ PartitionLag(offsets, p, stateFile) \in Nat
         /\ offsets[p].low \in Nat /\ offsets[p].high \in Nat
         /\ Cardinality(Waiting(offsets, p)) <= PartitionLag(offsets, p, stateFile)
         /\ (stateFile.partition = p => offsets[p].low <= stateFile.offset + 1)
              => PartitionLag(offsets, p, stateFile) + offsets[p].low <= offsets[p].high
  <1> DEFINE high == offsets[p].high
             next == ProcessedNext(offsets[p], p, stateFile)
  <1>1. high \in Nat /\ offsets[p].low \in Nat /\ offsets[p].low <= high
    BY ConsumerAssumption DEF Fetched
  <1>2. stateFile \in Message
    BY DEF Data
  <1>3. /\ next \in Nat
        /\ next = offsets[p].low \/ Below(next) \subseteq Accounted(p)
        /\ (stateFile.partition = p => offsets[p].low <= stateFile.offset + 1)
             => offsets[p].low <= next
    BY <1>1, <1>2, MessageFields DEF ProcessedNext, NothingSilentlySkipped, Below
  <1>4. Waiting(offsets, p) \subseteq next .. (high - 1)
    BY <1>1, <1>3 DEF Waiting, Below
  <1>5. /\ IsFiniteSet(next .. (high - 1))
        /\ Cardinality(next .. (high - 1)) = Behind(high, next)
    <2>1. next \in Int /\ high - 1 \in Int /\ high \in Nat /\ next \in Nat
      BY <1>1, <1>3
    <2> HIDE DEF high, next
    <2>2. /\ IsFiniteSet(next .. (high - 1))
          /\ Cardinality(next .. (high - 1))
               = IF next > high - 1 THEN 0 ELSE (high - 1) - next + 1
      BY <2>1, FS_Interval
    <2> QED
      BY <2>1, <2>2 DEF Behind
  <1>6. /\ IsFiniteSet(Waiting(offsets, p))
        /\ Cardinality(Waiting(offsets, p)) <= Behind(high, next)
    BY <1>4, <1>5, FS_Subset
  <1>7. Cardinality(Waiting(offsets, p)) \in Nat
    BY <1>6, FS_CardinalityType
  <1>8. /\ Behind(high, next) \in Nat
        /\ offsets[p].low <= next => Behind(high, next) + offsets[p].low <= high
    BY <1>1, <1>3 DEF Behind
  <1>9. PartitionLag(offsets, p, stateFile) = Behind(high, next)
    BY DEF PartitionLag
  <1> QED
    BY <1>1, <1>3, <1>6, <1>7, <1>8, <1>9

(* The monitor's lag hides no message that waits on the topic, wherever    *)
(* retention has moved its low offsets, and is no more than the topic's    *)
(* depth, unless retention overtook the state file, nor, until the first   *)
(* rebalance, than what the consumer group has not committed.              *)
THEOREM LagCoversBacklog == Spec => []MonitorTellsBacklog
  <1>1. StableInv => MonitorTellsBacklog
    <2> SUFFICES ASSUME StableInv, NEW offsets \in Fetched
                 PROVE  LET lag == Lag(offsets, stateFile)
                            waiting == SumFunction([p \in Partitions |->
                                           Cardinality(Waiting(offsets, p))])
                        IN  /\ Status(lag) = "ok" => waiting < Warning
                            /\ stateFile # Nil =>
                                 LET p == stateFile.partition
                                 IN  /\ waiting <= lag
                                     /\ offsets[p].low <= stateFile.offset + 1 =>
                                          lag <= Depth(offsets)
                                     /\ rebalances = 0 =>
                                          PartitionLag(offsets, p, stateFile)
                                            <= Behind(offsets[p].high, committed[p])
      BY DEF MonitorTellsBacklog
    <2>1. Data /\ NothingSilentlySkipped /\ (rebalances = 0 => FilePastCommit)
      BY DEF StableInv, IInv, Stable
    <2>2. CASE stateFile = Nil
      BY <2>2 DEF Lag, Status
    <2>3. CASE stateFile # Nil
      <3> DEFINE wait == [p \in Partitions |-> Cardinality(Waiting(offsets, p))]
                 lags == [p \in Partitions |-> PartitionLag(offsets, p, stateFile)]
                 high == [p \in Partitions |-> offsets[p].high]
                 low  == [p \in Partitions |-> offsets[p].low]
                 zero == [p \in Partitions |-> 0]
      <3>1. \A p \in Partitions :
               /\ wait[p] \in Nat /\ lags[p] \in Nat /\ low[p] \in Nat /\ high[p] \in Nat
               /\ wait[p] <= lags[p]
               /\ (stateFile.partition = p => low[p] <= stateFile.offset + 1)
                    => lags[p] + low[p] <= high[p]
        BY <2>1, <2>3, PartitionShare
      <3>2. /\ wait \in [Partitions -> Nat] /\ lags \in [Partitions -> Nat]
            /\ low \in [Partitions -> Nat] /\ high \in [Partitions -> Nat]
            /\ zero \in [Partitions -> Nat]
        BY <3>1
      <3>3. DOMAIN offsets = Partitions
        BY DEF Fetched
      <3>4. /\ Lag(offsets, stateFile) = SumFunction(lags)
            /\ Depth(offsets) = Behind(SumFunction(high), SumFunction(low))
        BY <2>3, <3>3 DEF Lag, Depth
      <3>5. \A p \in Partitions : /\ wait[p] + zero[p] <= lags[p]
                                   /\ low[p] + zero[p] <= low[p]
                                   /\ high[p] + zero[p] <= high[p]
        BY <3>1
      <3>6. low[stateFile.partition] <= stateFile.offset + 1
              => \A p \in Partitions : lags[p] + low[p] <= high[p]
        BY <3>1
      <3>7. stateFile \in Message /\ stateFile.partition \in Partitions
        BY <2>1, <2>3, MessageFields DEF Data
      <3>8. rebalances = 0 =>
               LET p == stateFile.partition
               IN  PartitionLag(offsets, p, stateFile)
                     <= Behind(offsets[p].high, committed[p])
        <4> DEFINE p == stateFile.partition
        <4>1. offsets[p].high \in Nat /\ committed[p] \in Nat /\ stateFile.offset \in Nat
          BY <2>1, <3>1, <3>7, MessageFields DEF Data
        <4>2. PartitionLag(offsets, p, stateFile)
                 = Behind(offsets[p].high, stateFile.offset + 1)
          BY <2>3 DEF PartitionLag, ProcessedNext
        <4>3. rebalances = 0 => committed[p] <= stateFile.offset + 1
          BY <2>1, <2>3 DEF FilePastCommit
        <4> QED
          BY <4>1, <4>2, <4>3 DEF Behind
      <3>14. offsets[stateFile.partition].low = low[stateFile.partition]
        BY <3>7
      <3> HIDE DEF wait, lags, high, low, zero
      <3>9. /\ SumFunction(wait) \in Nat /\ SumFunction(lags) \in Nat
            /\ SumFunction(zero) \in Nat
            /\ SumFunction(wait) + SumFunction(zero) <= SumFunction(lags)
        BY <3>2, <3>5, SumCovers, MonitorAssumption
      <3>10. /\ SumFunction(low) \in Nat /\ SumFunction(high) \in Nat
             /\ low[stateFile.partition] <= stateFile.offset + 1
                  => SumFunction(lags) + SumFunction(low) <= SumFunction(high)
        <4>1. /\ SumFunction(low) \in Nat /\ SumFunction(high) \in Nat
          BY <3>2, <3>5, SumCovers, MonitorAssumption
        <4>2. ASSUME low[stateFile.partition] <= stateFile.offset + 1
              PROVE  SumFunction(lags) + SumFunction(low) <= SumFunction(high)
          BY <4>2, <3>2, <3>6, SumCovers, MonitorAssumption
        <4> QED
          BY <4>1, <4>2
      <3>11. SumFunction(wait) <= SumFunction(lags)
        BY <3>9
      <3>12. low[stateFile.partition] <= stateFile.offset + 1
               => SumFunction(lags) <= Behind(SumFunction(high), SumFunction(low))
        BY <3>9, <3>10 DEF Behind
      <3>13. Status(SumFunction(lags)) = "ok" => SumFunction(lags) < Warning
        BY <3>9, MonitorAssumption DEF Status
      <3> QED
        BY <2>3, <3>4, <3>8, <3>9, <3>11, <3>12, <3>13, <3>14, MonitorAssumption
           DEF wait
    <2> QED
      BY <2>2, <2>3
  <1>2. StableInv /\ [Next]_vars => StableInv'
    BY StepStableInv
  <1> QED
    BY <1>1, <1>2, InitStableInv, PTL DEF Spec
-----------------------------------------------------------------------------
(***************************************************************************)
(* The state file. Temporary file and rename implement an atomic cell, for *)
(* any number of writers and readers and any size of document. The         *)
(* inductive invariant says that whatever a name or a reader points to is  *)
(* complete, and that no write touches its file after closing it.          *)
(***************************************************************************)
USE FileAssumption

\* A file nobody writes any more.
Settled(f) ==
    f = Absent \/ (f \in Writes /\ written[f] = Chunks
                   /\ pc[f] \notin {"idle", "writing"})

SettledInv ==
    /\ \A w \in Writes :
         pc[w] \in {"closed", "renamed", "ok"} => written[w] = Chunks
    /\ Settled(name)
    /\ \A r \in Reads : opened[r] # <<>> => Settled(opened[r][1])

\* After a write is in place its temporary name is gone, and so it stays.
TempInv ==
    /\ \A w \in Writes : pc[w] \in {"idle", "renamed", "ok", "failed"} => w \notin temps
    /\ name \notin temps
    /\ name \in Writes => pc[name] \in {"renamed", "ok", "dead"}

DirInv == FilesTypeOK /\ SettledInv /\ TempInv

\* Initially nothing is written, named or opened.
LEMMA InitDir == FileInit => DirInv
  BY DEF FileInit, DirInv, FilesTypeOK, SettledInv, TempInv, Settled

\* Every step keeps the types.
LEMMA StepFilesType == FilesTypeOK /\ [FileNext]_fileVars => FilesTypeOK'
<1> SUFFICES ASSUME FilesTypeOK, [FileNext]_fileVars PROVE FilesTypeOK'
  OBVIOUS
<1>1. ASSUME NEW w \in Writes, CreateTemp(w) \/ WriteChunk(w) \/ CloseTemp(w)
                               \/ Rename(w)
      PROVE  FilesTypeOK'
  BY <1>1 DEF FilesTypeOK, CreateTemp, WriteChunk, CloseTemp, Rename
<1>2. ASSUME NEW w \in Writes, Throw(w) \/ DeleteTemp(w) \/ Die(w)
      PROVE  FilesTypeOK'
  BY <1>2 DEF FilesTypeOK, Throw, DeleteTemp, Die
<1>3. ASSUME NEW r \in Reads, FindNothing(r) \/ OpenDocument(r)
      PROVE  FilesTypeOK'
  BY <1>3 DEF FilesTypeOK, FindNothing, OpenDocument
<1>4. CASE UNCHANGED fileVars
  BY <1>4 DEF FilesTypeOK, fileVars
<1>5. QED
  BY <1>1, <1>2, <1>3, <1>4 DEF FileNext

\* Every step keeps what is named or opened complete.
LEMMA StepSettled == DirInv /\ [FileNext]_fileVars => SettledInv'
<1> SUFFICES ASSUME DirInv, [FileNext]_fileVars PROVE SettledInv'
  OBVIOUS
<1> USE DEF DirInv, FilesTypeOK, SettledInv, Settled
<1>1. ASSUME NEW w \in Writes, CreateTemp(w) PROVE SettledInv'
  BY <1>1 DEF CreateTemp
<1>2. ASSUME NEW w \in Writes, WriteChunk(w) PROVE SettledInv'
  BY <1>2 DEF WriteChunk
<1>3. ASSUME NEW w \in Writes, CloseTemp(w) PROVE SettledInv'
  BY <1>3 DEF CloseTemp
<1>4. ASSUME NEW w \in Writes, Rename(w) PROVE SettledInv'
  BY <1>4 DEF Rename
<1>5. ASSUME NEW w \in Writes, Throw(w) PROVE SettledInv'
  BY <1>5 DEF Throw, TempInv
<1>6. ASSUME NEW w \in Writes, DeleteTemp(w) PROVE SettledInv'
  BY <1>6 DEF DeleteTemp
<1>7. ASSUME NEW w \in Writes, Die(w) PROVE SettledInv'
  BY <1>7 DEF Die
<1>8. ASSUME NEW r \in Reads, FindNothing(r) PROVE SettledInv'
  BY <1>8 DEF FindNothing
<1>9. ASSUME NEW r \in Reads, OpenDocument(r) PROVE SettledInv'
  BY <1>9 DEF OpenDocument
<1>10. CASE UNCHANGED fileVars
  BY <1>10 DEF fileVars
<1>11. QED
  BY <1>1, <1>2, <1>3, <1>4, <1>5, <1>6, <1>7, <1>8, <1>9, <1>10 DEF FileNext

\* Every step keeps temporary names where they belong.
LEMMA StepTemp == DirInv /\ [FileNext]_fileVars => TempInv'
<1> SUFFICES ASSUME DirInv, [FileNext]_fileVars PROVE TempInv'
  OBVIOUS
<1> USE DEF DirInv, FilesTypeOK, TempInv
<1>1. ASSUME NEW w \in Writes, CreateTemp(w) PROVE TempInv'
  BY <1>1 DEF CreateTemp
<1>2. ASSUME NEW w \in Writes, WriteChunk(w) \/ CloseTemp(w) PROVE TempInv'
  BY <1>2 DEF WriteChunk, CloseTemp
<1>3. ASSUME NEW w \in Writes, Rename(w) PROVE TempInv'
  BY <1>3 DEF Rename
<1>4. ASSUME NEW w \in Writes, Throw(w) PROVE TempInv'
  BY <1>4 DEF Throw
<1>5. ASSUME NEW w \in Writes, DeleteTemp(w) PROVE TempInv'
  BY <1>5 DEF DeleteTemp
<1>6. ASSUME NEW w \in Writes, Die(w) PROVE TempInv'
  BY <1>6 DEF Die
<1>7. ASSUME NEW r \in Reads, FindNothing(r) \/ OpenDocument(r) PROVE TempInv'
  BY <1>7 DEF FindNothing, OpenDocument
<1>8. CASE UNCHANGED fileVars
  BY <1>8 DEF fileVars
<1>9. QED
  BY <1>1, <1>2, <1>3, <1>4, <1>5, <1>6, <1>7, <1>8 DEF FileNext

\* The inductive invariant holds throughout.
LEMMA DirInvariance == FileSpec => []DirInv
<1>1. DirInv /\ [FileNext]_fileVars => DirInv'
  BY StepFilesType, StepSettled, StepTemp DEF DirInv
<1>2. QED
  BY InitDir, <1>1, PTL DEF FileSpec

\* The directory, the writes and the reads keep their types.
THEOREM FilesTypeCorrect == FileSpec => []FilesTypeOK
<1>1. DirInv => FilesTypeOK
  BY DEF DirInv
<1>2. QED
  BY DirInvariance, <1>1, PTL

\* Temporary names are left only by writes in progress or dead processes.
THEOREM NothingLeftBehind == FileSpec => []NoLitter
<1>1. DirInv => NoLitter
  BY DEF DirInv, FilesTypeOK, TempInv, NoLitter
<1>2. QED
  BY DirInvariance, <1>1, PTL

-----------------------------------------------------------------------------
\* What is named or opened is whole, and so it reads as the write it is of.
LEMMA WholeDocument ==
  ASSUME NEW f, Settled(f) PROVE Document(f) = f
  BY DEF Settled, Document

\* A document that is whole is the file the name points to.
LEMMA WholeCell == DirInv => Document(name) = name
  BY WholeDocument DEF DirInv, SettledInv

\* What a read has in hand is the value the cell's read has taken.
LEMMA WholeResults == DirInv => CellResult = opened
<1> SUFFICES ASSUME DirInv PROVE CellResult = opened
  OBVIOUS
<1>1. ASSUME NEW r \in Reads
      PROVE  opened[r] = IF opened[r] = <<>> THEN <<>> ELSE <<Document(opened[r][1])>>
  BY WholeDocument DEF DirInv, SettledInv, FilesTypeOK
<1>2. QED
  BY <1>1 DEF CellResult, DirInv, FilesTypeOK

\* The initial directory maps to the initial cell.
LEMMA InitCell == FileInit => Cell!CellInit
<1> SUFFICES ASSUME FileInit PROVE Cell!CellInit
  OBVIOUS
<1>1. Document(name) = Absent
  BY DEF FileInit, Document
<1>2. CellOutcome = [w \in Writes |-> "idle"]
  BY DEF FileInit, CellOutcome
<1>3. CellResult = [r \in Reads |-> <<>>]
  BY DEF FileInit, CellResult
<1>4. QED
  BY <1>1, <1>2, <1>3 DEF Cell!CellInit

\* Every step of the directory maps to a step of the cell or to a stutter.
LEMMA StepCell ==
  DirInv /\ DirInv' /\ [FileNext]_fileVars => [Cell!CellNext]_(Cell!cellVars)
<1> SUFFICES ASSUME DirInv, DirInv', [FileNext]_fileVars
             PROVE  Cell!CellNext \/ UNCHANGED Cell!cellVars
  BY DEF Cell!cellVars
<1>cell. (Document(name) = name) /\ (Document(name) = name)'
  BY WholeCell, PTL
<1>res. (CellResult = opened) /\ (CellResult = opened)'
  BY WholeResults, PTL
<1>typ. /\ pc \in [Writes -> {"idle", "writing", "closed", "renamed",
                              "throwing", "ok", "failed", "dead"}]
        /\ opened \in [Reads -> {<<>>} \union {<<f>> : f \in Writes \union {Absent}}]
  BY DEF DirInv, FilesTypeOK
<1>1. ASSUME NEW w \in Writes, CreateTemp(w) PROVE Cell!Start(w)
  BY <1>1, <1>cell, <1>res, <1>typ DEF CreateTemp, Cell!Start, CellOutcome
<1>2. ASSUME NEW w \in Writes, WriteChunk(w) PROVE UNCHANGED Cell!cellVars
  BY <1>2, <1>cell, <1>res, <1>typ DEF WriteChunk, Cell!cellVars, CellOutcome
<1>3. ASSUME NEW w \in Writes, CloseTemp(w) PROVE UNCHANGED Cell!cellVars
  BY <1>3, <1>cell, <1>res, <1>typ DEF CloseTemp, Cell!cellVars, CellOutcome
<1>4. ASSUME NEW w \in Writes, Rename(w) PROVE Cell!Apply(w)
  BY <1>4, <1>cell, <1>res, <1>typ DEF Rename, Cell!Apply, CellOutcome
<1>5. ASSUME NEW w \in Writes, Throw(w)
      PROVE  Cell!Start(w) \/ UNCHANGED Cell!cellVars
  BY <1>5, <1>cell, <1>res, <1>typ
     DEF Throw, Cell!Start, Cell!cellVars, CellOutcome
<1>6. ASSUME NEW w \in Writes, DeleteTemp(w)
      PROVE  Cell!Succeed(w) \/ Cell!Reject(w)
  BY <1>6, <1>cell, <1>res, <1>typ
     DEF DeleteTemp, Cell!Succeed, Cell!Reject, CellOutcome
<1>7. ASSUME NEW w \in Writes, Die(w) PROVE Cell!Lose(w)
  BY <1>7, <1>cell, <1>res, <1>typ DEF Die, Cell!Lose, CellOutcome
<1>8. ASSUME NEW r \in Reads, FindNothing(r) PROVE Cell!Take(r)
  BY <1>8, <1>cell, <1>res, <1>typ DEF FindNothing, Cell!Take, CellOutcome
<1>9. ASSUME NEW r \in Reads, OpenDocument(r) PROVE Cell!Take(r)
  BY <1>9, <1>cell, <1>res, <1>typ DEF OpenDocument, Cell!Take, CellOutcome
<1>10. CASE UNCHANGED fileVars
  BY <1>10, <1>cell, <1>res DEF fileVars, Cell!cellVars, CellOutcome
<1>11. QED
  BY <1>1, <1>2, <1>3, <1>4, <1>5, <1>6, <1>7, <1>8, <1>9, <1>10
     DEF FileNext, Cell!CellNext

\* The document behaves as an atomic cell, with any number of writers,
\* readers and chunks and whatever writers fail or die.
THEOREM FileIsACell == FileSpec => ImplementsCell
  BY DirInvariance, InitCell, StepCell, PTL DEF FileSpec, ImplementsCell, Cell!CellSpec
=============================================================================
