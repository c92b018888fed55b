--------------------------- MODULE ScanRunProofs ---------------------------
(***************************************************************************)
(* Proofs about ScanRun, for any number of tasks, workers, message copies, *)
(* deliveries and faults:                                                  *)
(*   - TypeOK is inductive;                                                *)
(*   - IInv is inductive: the rows some process has inserted and not yet   *)
(*     counted are disjoint from process to process, so each of them is    *)
(*     counted by one process or by none;                                  *)
(*   - under IInv every step is a step of RunLedger or leaves the books    *)
(*     alone, so the run inherits what RunLedger proves of its counters;   *)
(*   - two invariants of their own carry the properties the ledger cannot  *)
(*     express: what a cancellation stops, and the terminal event.         *)
(***************************************************************************)
EXTENDS ScanRun, FiniteSetTheorems, TLAPS

-----------------------------------------------------------------------------
(* Types.                                                                  *)

\* Storing a message, wherever it goes, keeps the stream's type.
LEMMA StreamUpdate ==
    ASSUME NEW m \in Stream, NEW t, NEW c, NEW r \in Message
    PROVE  [m EXCEPT ![t][c] = r] \in Stream
  BY DEF Stream

\* What a publish and an ack leave in a copy is a message.
LEMMA NewMessageType ==
    /\ [st |-> "none", deliveries |-> 0] \in Message
    /\ [st |-> "ready", deliveries |-> 0] \in Message
  BY ScanRunAssumption DEF Message

\* publish_task keeps the stream's type.
LEMMA PublishedType ==
    ASSUME NEW m \in Stream, NEW t, NEW n \in Published(m, t)
    PROVE  n \in Stream
<1>1. CASE FreeCopies(m, t) = {}
  BY <1>1 DEF Published
<1>2. CASE FreeCopies(m, t) # {}
  <2>1. PICK c \in FreeCopies(m, t) :
            n = [m EXCEPT ![t][c] = [st |-> "ready", deliveries |-> 0]]
    BY <1>2 DEF Published
  <2> QED
    BY <2>1, StreamUpdate, NewMessageType
<1> QED
  BY <1>1, <1>2

\* An ack keeps the stream's type.
LEMMA AckType ==
    ASSUME msg \in Stream, NEW w \in Worker
    PROVE  Acked(w) \in Stream
  BY StreamUpdate, NewMessageType DEF Acked

\* A nak keeps the stream's type.
LEMMA NakType ==
    ASSUME msg \in Stream, NEW w \in Worker
    PROVE  Naked(w) \in Stream
<1>1. ASSUME NEW r \in Message
      PROVE  [r EXCEPT !.st = IF @ = "held" THEN "ready" ELSE @] \in Message
  BY DEF Message
<1> QED
  BY <1>1 DEF Stream, Naked

\* A message whose state changes keeps the stream's type.
LEMMA StreamMove ==
    ASSUME NEW t, NEW c, msg \in Stream
    PROVE  [msg EXCEPT ![t][c].st = "ready"] \in Stream
<1>1. ASSUME NEW r \in Message PROVE [r EXCEPT !.st = "ready"] \in Message
  BY DEF Message
<1> QED
  BY <1>1 DEF Stream

\* Every update run_task makes to its slot keeps the slot's type.
LEMMA SlotType ==
    ASSUME worker \in Slots, NEW w \in Worker,
           NEW pc \in WorkerPc, NEW b \in Nat, NEW f \in SUBSET Task, NEW r \in WorkerRecord
    PROVE  /\ [worker EXCEPT ![w] = r] \in Slots
           /\ [worker EXCEPT ![w].pc = pc] \in Slots
           /\ [worker EXCEPT ![w].pc = pc, ![w].batch = b] \in Slots
           /\ [worker EXCEPT ![w].pc = pc, ![w].fresh = f] \in Slots
           /\ [worker EXCEPT ![w].pc = pc, ![w].batch = b, ![w].fresh = f] \in Slots
<1>1. [worker EXCEPT ![w] = r] \in Slots
  BY DEF Slots
<1>2. [worker EXCEPT ![w].pc = pc] \in Slots
  BY DEF Slots, WorkerRecord
<1>3. /\ [worker EXCEPT ![w].pc = pc, ![w].batch = b] \in Slots
      /\ [worker EXCEPT ![w].pc = pc, ![w].fresh = f] \in Slots
  BY DEF Slots, WorkerRecord
<1>4. [worker EXCEPT ![w].pc = pc, ![w].batch = b, ![w].fresh = f] \in Slots
  BY DEF Slots, WorkerRecord
<1> QED
  BY <1>1, <1>2, <1>3, <1>4

\* The lane's backlog is a number.
LEMMA LaneBacklogType == LaneBacklog \in Nat
<1>1. IsFiniteSet(Task \X Copy)
  BY ScanRunAssumption, FS_Product
<1>2. {tc \in Task \X Copy : msg[tc[1]][tc[2]].st # "none"} \in SUBSET (Task \X Copy)
  OBVIOUS
<1> QED
  BY <1>1, <1>2, FS_Subset, FS_CardinalityType DEF LaneBacklog

\* Any set of tasks is finite.
LEMMA TasksFinite ==
    ASSUME NEW S \in SUBSET Task
    PROVE  IsFiniteSet(S) /\ Cardinality(S) \in Nat
  BY ScanRunAssumption, FS_Subset, FS_CardinalityType

\* A slot that goes back to idle, and a slot that moves to another step, keep their type.
LEMMA IdleType == Idle \in WorkerRecord
  BY ScanRunAssumption DEF Idle, WorkerRecord, WorkerPc

\* An injected failure keeps the bound.
LEMMA FaultType ==
    ASSUME faults \in 0..MaxFaults, Fault
    PROVE  faults' \in 0..MaxFaults
  BY ScanRunAssumption DEF Fault

\* Types of the state create_run leaves.
LEMMA TypeInit == Init => TypeOK
<1> SUFFICES ASSUME Init PROVE TypeOK
  OBVIOUS
<1>1. msg \in Stream
  BY NewMessageType DEF Init, Stream
<1>2. worker \in Slots
  BY IdleType DEF Init, Slots
<1>3. run \in [state : RunState, total : Nat, done : Nat, failed : Nat]
  BY DEF Init, RunState
<1>4. task \in [Task -> TaskState]
  BY DEF Init, TaskState
<1>5. rec \in [pc : RecPc, count : Nat]
  BY DEF Init, NoPass, RecPc
<1>6. events \in BOOLEAN
  BY DEF Init
<1>7. faults \in 0..MaxFaults
  BY ScanRunAssumption DEF Init
<1> QED
  BY <1>1, <1>2, <1>3, <1>4, <1>5, <1>6, <1>7 DEF Init, TypeOK, PlannerPc

\* dispatch_run keeps the types.
LEMMA TypePlanner ==
    ASSUME TypeOK, Planner \/ DispatchFails \/ PlannerCrash
    PROVE  TypeOK'
<1> USE ScanRunAssumption DEF TypeOK, PlannerFrame, PlannerPc
<1>1. CASE StartRun
  BY <1>1 DEF StartRun, RunState
<1>2. CASE CreateRootTask
  BY <1>2 DEF CreateRootTask, RowsAfter, Inserted, TaskState, OpenState
<1>3. CASE CountRootTask
  BY <1>3 DEF CountRootTask, RunState
<1>4. CASE PublishRootTask
  BY <1>4, PublishedType DEF PublishRootTask
<1>5. CASE AbortPlan
  BY <1>5 DEF AbortPlan, RunState
<1>6. CASE DispatchFails
  BY <1>6, PublishedType, FaultType DEF DispatchFails, PlannerUncounted
<1>7. CASE PlannerCrash
  BY <1>7, FaultType DEF PlannerCrash, PlannerUncounted
<1> QED
  BY <1>1, <1>2, <1>3, <1>4, <1>5, <1>6, <1>7 DEF Planner

\* run_task keeps the types, step by step.
LEMMA TypeWorker ==
    ASSUME TypeOK, NEW w \in Worker, RunTask(w)
    PROVE  TypeOK'
<1> DEFINE me == worker[w]
<1>0. /\ msg \in Stream /\ worker \in Slots
      /\ me.task \in Task /\ me.batch \in Nat /\ me.fresh \in SUBSET Task
  BY DEF TypeOK, Slots, WorkerRecord
<1> SUFFICES run' \in [state : RunState, total : Nat, done : Nat, failed : Nat]
             /\ task' \in [Task -> TaskState] /\ msg' \in Stream /\ worker' \in Slots
             /\ events' \in BOOLEAN /\ UNCHANGED <<faults, lost, planner, rec, terminals>>
  BY DEF TypeOK
<1> USE <1>0 DEF WorkerFrame, Goto
<1>1. CASE ClaimTask(w)
  <2>1. worker' \in Slots
    BY <1>1, SlotType, IdleType DEF ClaimTask, WorkerPc
  <2> QED
    BY <1>1, <2>1 DEF ClaimTask, TaskState, OpenState, TypeOK
<1>2. CASE DeclineTask(w)
  BY <1>2, AckType, IdleType DEF DeclineTask, TypeOK, Slots
<1>3. CASE FetchOk(w)
  <2>1. AfterBatch(me.task, 0) \in WorkerPc
    BY DEF AfterBatch, WorkerPc
  <2>2. worker' \in Slots
    BY <1>3, <2>1, SlotType, IdleType DEF FetchOk
  <2> QED
    BY <1>3, <2>2 DEF FetchOk, TypeOK
<1>4. CASE FetchFails(w)
  <2>1. worker' \in Slots
    BY <1>4, SlotType, IdleType DEF FetchFails, WorkerPc
  <2> QED
    BY <1>4, <2>1 DEF FetchFails, TypeOK
<1>5. CASE RequeueTask(w)
  BY <1>5, NakType, IdleType DEF RequeueTask, TypeOK, Slots
<1>6. CASE CreateTasks(w)
  <2> DEFINE new == Inserted(Batches[me.task][me.batch])
             pc  == IF new = {} THEN AfterBatch(me.task, me.batch) ELSE "count"
             b   == IF new = {} THEN me.batch + 1 ELSE me.batch
  <2>1. pc \in WorkerPc /\ b \in Nat
    BY DEF AfterBatch, WorkerPc
  <2>2. new \in SUBSET Task /\ task' \in [Task -> TaskState]
    BY <1>6 DEF CreateTasks, RowsAfter, Inserted, TaskState, OpenState, TypeOK
  <2>3. worker' = [worker EXCEPT ![w].pc = pc, ![w].batch = b, ![w].fresh = new]
    BY <1>6 DEF CreateTasks
  <2> HIDE DEF new, pc, b
  <2>4. worker' \in Slots
    BY <2>1, <2>2, <2>3, SlotType, IdleType
  <2> QED
    BY <1>6, <2>2, <2>4 DEF CreateTasks, TypeOK
<1>7. CASE CountTasks(w)
  <2>1. Cardinality(me.fresh) \in Nat
    BY TasksFinite
  <2>2. worker' \in Slots
    BY <1>7, SlotType, IdleType DEF CountTasks, WorkerPc
  <2> QED
    BY <1>7, <2>1, <2>2 DEF CountTasks, TypeOK
<1>8. CASE PublishTask(w)
  <2>1. PICK u \in me.fresh :
          LET left == me.fresh \ {u}
              i    == me.batch
          IN /\ msg' \in Published(msg, u)
             /\ worker' = [worker EXCEPT
                   ![w].pc    = IF left = {} THEN AfterBatch(worker[w].task, i) ELSE "publish",
                   ![w].batch = IF left = {} THEN i + 1 ELSE i,
                   ![w].fresh = left]
    BY <1>8 DEF PublishTask
  <2> DEFINE left == me.fresh \ {u}
             pc   == IF left = {} THEN AfterBatch(me.task, me.batch) ELSE "publish"
             b    == IF left = {} THEN me.batch + 1 ELSE me.batch
  <2>2. pc \in WorkerPc /\ b \in Nat /\ left \in SUBSET Task
    BY DEF AfterBatch, WorkerPc
  <2>3. worker' = [worker EXCEPT ![w].pc = pc, ![w].batch = b, ![w].fresh = left]
    BY <2>1
  <2> HIDE DEF left, pc, b
  <2>4. worker' \in Slots
    BY <2>2, <2>3, SlotType, IdleType
  <2>5. msg' \in Stream
    BY <2>1, PublishedType
  <2> QED
    BY <1>8, <2>4, <2>5 DEF PublishTask, TypeOK
<1>9. CASE CompleteTask(w)
  <2>1. worker' \in Slots
    BY <1>9, SlotType, IdleType DEF CompleteTask, WorkerPc
  <2> QED
    BY <1>9, <2>1 DEF CompleteTask, complete_task, TaskState, OpenState, TypeOK
<1>10. CASE FailTask(w)
  <2>1. worker' \in Slots
    BY <1>10, SlotType, IdleType DEF FailTask, WorkerPc
  <2> QED
    BY <1>10, <2>1 DEF FailTask, fail_task, TaskState, OpenState, TypeOK
<1>11. CASE ReportAndAck(w)
  BY <1>11, AckType, IdleType DEF ReportAndAck, ProgressPublished, should_finalize, TypeOK, Slots
<1> QED
  BY <1>1, <1>2, <1>3, <1>4, <1>5, <1>6, <1>7, <1>8, <1>9, <1>10, <1>11 DEF RunTask

\* A call of run_task that fails, and a worker that dies, keep the types.
LEMMA TypeWorkerFailures ==
    ASSUME TypeOK, NEW w \in Worker,
           HandleFails(w) \/ SettleFails(w) \/ ReportLost(w) \/ AckLost(w) \/ WorkerCrash(w)
    PROVE  TypeOK'
<1>0. /\ msg \in Stream /\ worker \in Slots /\ worker[w].fresh \in SUBSET Task
      /\ faults \in 0..MaxFaults /\ {} \in SUBSET Task
  BY DEF TypeOK, Slots, WorkerRecord
<1> SUFFICES /\ faults' \in 0..MaxFaults /\ lost' \in SUBSET Task
             /\ msg' \in Stream /\ worker' \in Slots /\ events' \in BOOLEAN
             /\ UNCHANGED <<run, task, planner, rec, terminals>>
  BY DEF TypeOK
<1> USE <1>0 DEF WorkerFrame, Goto
<1>1. CASE HandleFails(w)
  <2>1. worker' \in Slots
    BY <1>1, SlotType, IdleType DEF HandleFails, WorkerPc
  <2>2. msg' \in Stream
    BY <1>1, PublishedType DEF HandleFails
  <2> QED
    BY <1>1, <2>1, <2>2, FaultType DEF HandleFails, WorkerUncounted, TypeOK
<1>2. CASE SettleFails(w)
  <2>1. worker' \in Slots
    BY <1>2, SlotType, IdleType DEF SettleFails, WorkerPc
  <2> QED
    BY <1>2, <2>1, FaultType DEF SettleFails, TypeOK
<1>3. CASE ReportLost(w)
  BY <1>3, FaultType, AckType, IdleType DEF ReportLost, TypeOK, Slots
<1>4. CASE AckLost(w)
  BY <1>4, FaultType, IdleType DEF AckLost, ProgressPublished, should_finalize, TypeOK, Slots
<1>5. CASE WorkerCrash(w)
  BY <1>5, FaultType, IdleType DEF WorkerCrash, WorkerUncounted, TypeOK, Slots
<1> QED
  BY <1>1, <1>2, <1>3, <1>4, <1>5

\* Deliveries, lapsed ack deadlines and lost heartbeats keep the types.
LEMMA TypeBroker ==
    ASSUME TypeOK, NEW t \in Task, NEW c \in Copy,
           \/ \E w \in Worker : Deliver(w, t, c)
           \/ AckLapse(t, c)
           \/ HeartbeatLost(t, c)
    PROVE  TypeOK'
<1>1. ASSUME NEW w \in Worker, Deliver(w, t, c) PROVE TypeOK'
  <2> DEFINE n == Bump(msg[t][c].deliveries)
  <2>1. n \in 0..MaxDeliveries
    BY ScanRunAssumption DEF TypeOK, Stream, Message, Bump
  <2>2. /\ msg' = [msg EXCEPT ![t][c] = [st |-> "held", deliveries |-> n]]
        /\ worker' = [worker EXCEPT ![w] =
               [pc |-> "claim", task |-> t, copy |-> c, deliveries |-> n, batch |-> 0, fresh |-> {}]]
    BY <1>1 DEF Deliver
  <2> HIDE DEF n
  <2>3. msg' \in Stream
    BY <2>1, <2>2, StreamUpdate DEF TypeOK, Message
  <2>4. worker' \in Slots
    BY <2>1, <2>2 DEF TypeOK, Slots, WorkerRecord, WorkerPc
  <2> QED
    BY <1>1, <2>3, <2>4 DEF Deliver, TypeOK, WorkerFrame
<1>2. CASE AckLapse(t, c)
  BY <1>2, StreamMove DEF AckLapse, BrokerFrame, TypeOK
<1>3. CASE HeartbeatLost(t, c)
  BY <1>3, FaultType, StreamMove DEF HeartbeatLost, BrokerFrame, TypeOK
<1> QED
  BY <1>1, <1>2, <1>3

\* The planner's failures, the aggregator, the reconciler and the operator keep the types.
LEMMA TypeControl ==
    ASSUME TypeOK,
           Reconciler \/ HandleProgress \/ HandleProgressFails \/ RepairLaneFails
             \/ FinalEventLost \/ CancelRun
    PROVE  TypeOK'
<1> USE ScanRunAssumption DEF TypeOK, RecFrame
<1>1. ASSUME NEW n \in 1..Cardinality(Task), ReadLanes(n) PROVE TypeOK'
  BY <1>1, TasksFinite DEF ReadLanes, RecPc
<1>2. CASE ReadBacklog
  BY <1>2, LaneBacklogType DEF ReadBacklog, deficit, NoPass, RecPc
<1>3. ASSUME NEW S \in SUBSET Task, RepublishStranded(S) PROVE TypeOK'
  <2>1. PICK pick \in [S -> Copy] :
          msg' = [t \in Task |-> [c \in Copy |->
                   IF t \in S /\ c = pick[t] /\ c \in FreeCopies(msg, t)
                   THEN [st |-> "ready", deliveries |-> 0] ELSE msg[t][c]]]
    BY <1>3 DEF RepublishStranded
  <2>2. msg' \in Stream
    BY <2>1, NewMessageType DEF Stream
  <2> QED
    BY <1>3, <2>2 DEF RepublishStranded, NoPass, RecPc
<1>4. CASE FinaliseSettledRun
  <2>1. run' \in [state : RunState, total : Nat, done : Nat, failed : Nat]
    BY <1>4 DEF FinaliseSettledRun, FinalState, RunState
  <2> QED
    BY <1>4, <2>1 DEF FinaliseSettledRun
<1>5. CASE FailAbandonedRun
  BY <1>5 DEF FailAbandonedRun, RunState
<1>6. CASE HandleProgress
  <2>1. events' \in BOOLEAN
    BY <1>6 DEF HandleProgress, Finalizable
  <2>2. run' \in [state : RunState, total : Nat, done : Nat, failed : Nat]
    BY <1>6 DEF HandleProgress, FinalState, RunState
  <2> QED
    BY <1>6, <2>1, <2>2 DEF HandleProgress
<1>7. CASE HandleProgressFails
  BY <1>7, FaultType DEF HandleProgressFails, FinalState, RunState
<1>8. CASE RepairLaneFails
  <2>1. Stranded \subseteq SUBSET Task
    BY DEF Stranded, MayBeAged, OpenRows
  <2> QED
    BY <1>8, <2>1, FaultType, PublishedType DEF RepairLaneFails, NoPass, RecPc
<1>9. CASE FinalEventLost
  BY <1>9, FaultType DEF FinalEventLost, FinalState, RunState
<1>10. CASE CancelRun
  BY <1>10 DEF CancelRun, RunState, TaskState
<1> QED
  BY <1>1, <1>2, <1>3, <1>4, <1>5, <1>6, <1>7, <1>8, <1>9, <1>10 DEF Reconciler

\* Every step keeps the types.
LEMMA TypeNext == TypeOK /\ [Next]_vars => TypeOK'
<1> SUFFICES ASSUME TypeOK, [Next]_vars PROVE TypeOK'
  OBVIOUS
<1>1. CASE UNCHANGED vars
  BY <1>1 DEF vars, TypeOK
<1>2. CASE Next
  BY <1>2, TypePlanner, TypeWorker, TypeWorkerFailures, TypeBroker, TypeControl DEF Next, Failures
<1> QED
  BY <1>1, <1>2

\* Type correctness: the tables, the stream and every process stay within their types.
THEOREM TypeCorrect == Spec => []TypeOK
  BY TypeInit, TypeNext, PTL DEF Spec

-----------------------------------------------------------------------------
(* Who has inserted what, and who still has to count it.                   *)

\* A slot that is about to create a chunk has a chunk to create.
BatchInv ==
    \A w \in Worker :
        worker[w].pc = "create" => worker[w].batch \in DOMAIN Batches[worker[w].task]

\* A row waiting to be counted exists, and waits in one place.
UncountedInv ==
    /\ lost \subseteq Rows
    /\ planner = "count" => Root \notin lost
    /\ \A w \in Worker :
         /\ worker[w].fresh \subseteq Rows \ {Root}
         /\ worker[w].pc = "count" => worker[w].fresh \cap lost = {}
    /\ \A v, w \in Worker :
         v # w /\ worker[v].pc = "count" /\ worker[w].pc = "count"
           => worker[v].fresh \cap worker[w].fresh = {}

\* Nothing is inserted, stored or delivered before the first task is.
RootFirst ==
    /\ planner \in {"start", "create"} => Rows = {}
    /\ planner \in {"count", "publish"} => Root \in Rows
    /\ \A t \in Task, c \in Copy : msg[t][c].st # "none" => t \in Rows
    /\ \A w \in Worker : worker[w].pc # "idle" => worker[w].task \in Rows

IInv == TypeOK /\ BatchInv /\ UncountedInv /\ RootFirst

\* The strengthened invariant holds of a run that has just been created.
LEMMA InvInit == Init => IInv
<1> SUFFICES ASSUME Init PROVE IInv
  OBVIOUS
<1>1. TypeOK
  BY TypeInit
<1>2. Rows = {}
  BY DEF Init, Rows
<1>3. \A w \in Worker : worker[w].pc = "idle" /\ worker[w].fresh = {}
  BY DEF Init, Idle
<1>4. \A t \in Task, c \in Copy : msg[t][c].st = "none"
  BY DEF Init
<1> QED
  BY <1>1, <1>2, <1>3, <1>4 DEF Init, IInv, BatchInv, UncountedInv, RootFirst

\* publish_task stores a message of the task it is given and of no other.
LEMMA PublishedRows ==
    ASSUME NEW m \in Stream, NEW t, NEW n \in Published(m, t),
           NEW u \in Task, NEW c \in Copy, n[u][c].st # "none"
    PROVE  u = t \/ m[u][c].st # "none"
<1>1. CASE FreeCopies(m, t) = {}
  BY <1>1 DEF Published
<1>2. CASE FreeCopies(m, t) # {}
  <2>1. PICK d \in FreeCopies(m, t) :
            n = [m EXCEPT ![t][d] = [st |-> "ready", deliveries |-> 0]]
    BY <1>2 DEF Published
  <2> QED
    BY <2>1 DEF Stream
<1> QED
  BY <1>1, <1>2

\* Acks and naks store nothing.
LEMMA AckedRows ==
    ASSUME msg \in Stream, NEW w \in Worker, NEW u \in Task, NEW c \in Copy
    PROVE  /\ Acked(w)[u][c].st # "none" => msg[u][c].st # "none"
           /\ Naked(w)[u][c].st # "none" => msg[u][c].st # "none"
<1>1. Acked(w)[u][c].st # "none" => msg[u][c].st # "none"
  BY DEF Acked, Stream
<1>2. Naked(w)[u][c].st # "none" => msg[u][c].st # "none"
  BY DEF Naked, Stream, Message
<1> QED
  BY <1>1, <1>2

\* What the fields of a slot are.
LEMMA SlotFields ==
    ASSUME TypeOK, NEW w \in Worker
    PROVE  /\ worker[w].task \in Task /\ worker[w].fresh \in SUBSET Task
           /\ worker[w].batch \in Nat
  BY DEF TypeOK, Slots, WorkerRecord

\* dispatch_run inserts the root before any other row exists, and it alone counts the root.
LEMMA InvPlanner ==
    ASSUME IInv, Planner \/ DispatchFails \/ PlannerCrash
    PROVE  BatchInv' /\ UncountedInv' /\ RootFirst'
<1>0. Root \in Task /\ msg \in Stream /\ UNCHANGED worker
  BY ScanRunAssumption DEF IInv, TypeOK, PlannerFrame, Planner, StartRun, CreateRootTask,
     CountRootTask, PublishRootTask, AbortPlan, DispatchFails, PlannerCrash
<1>1. BatchInv'
  BY <1>0 DEF IInv, BatchInv
<1>2. CASE StartRun \/ CountRootTask \/ AbortPlan
  BY <1>0, <1>1, <1>2 DEF StartRun, CountRootTask, AbortPlan, IInv, UncountedInv, RootFirst, Rows
<1>3. CASE CreateRootTask
  <2>1. Rows' = {Root} /\ Rows = {}
    BY <1>0, <1>3 DEF CreateRootTask, IInv, RootFirst, Rows, RowsAfter, Inserted
  <2> QED
    BY <1>0, <1>1, <1>3, <2>1 DEF CreateRootTask, IInv, UncountedInv, RootFirst
<1>4. CASE PublishRootTask
  BY <1>0, <1>1, <1>4, PublishedRows DEF PublishRootTask, IInv, UncountedInv, RootFirst, Rows
<1>5. CASE DispatchFails \/ PlannerCrash
  <2>1. lost' = lost \union PlannerUncounted /\ planner' \notin {"start", "create", "count", "publish"}
        /\ Rows' = Rows
    BY <1>5 DEF DispatchFails, PlannerCrash, Rows
  <2>2. UncountedInv'
    BY <1>0, <2>1 DEF IInv, UncountedInv, RootFirst, PlannerUncounted
  <2>3. RootFirst'
    BY <1>0, <1>5, <2>1, PublishedRows DEF IInv, RootFirst, DispatchFails, PlannerCrash
  <2> QED
    BY <1>1, <2>2, <2>3
<1> QED
  BY <1>2, <1>3, <1>4, <1>5 DEF Planner

\* AfterBatch sends a slot to "create" only if there is a next chunk.
LEMMA AfterBatchDomain ==
    ASSUME NEW t \in Task, NEW i \in Nat, AfterBatch(t, i) = "create"
    PROVE  i + 1 \in DOMAIN Batches[t]
<1>1. Batches[t] \in Seq(SUBSET Task)
  BY ScanRunAssumption
<1>2. i < Len(Batches[t])
  BY DEF AfterBatch
<1> QED
  BY <1>1, <1>2

\* A step of one slot keeps the invariant if it starts to count only rows it has just
\* inserted, gives up only rows it was about to count, and stores messages only of rows.
LEMMA SlotStep ==
    ASSUME IInv, NEW w \in Worker, UNCHANGED planner,
           Rows \subseteq Rows', planner \in {"start", "create"} => Rows' = Rows,
           \A v \in Worker \ {w} : worker'[v] = worker[v],
           worker'[w].fresh \subseteq Rows' \ {Root},
           worker'[w].pc = "create" => worker'[w].batch \in DOMAIN Batches[worker'[w].task],
           worker'[w].pc # "idle" => worker'[w].task \in Rows',
           lost \subseteq lost', lost' \subseteq lost \union WorkerUncounted(w),
           worker'[w].pc = "count" => worker'[w].fresh \cap Rows = {} /\ lost' = lost,
           \A t \in Task, c \in Copy : msg'[t][c].st # "none" => t \in Rows'
    PROVE  BatchInv' /\ UncountedInv' /\ RootFirst'
<1>1. BatchInv'
  BY DEF IInv, BatchInv
<1>2. RootFirst'
  BY DEF IInv, RootFirst
<1>3. WorkerUncounted(w) \subseteq Rows \ {Root}
  BY DEF IInv, UncountedInv, WorkerUncounted
<1>4. /\ lost' \subseteq Rows'
      /\ planner' = "count" => Root \notin lost'
  BY <1>3 DEF IInv, UncountedInv
<1>5. \A v \in Worker \ {w} : worker[v].pc = "count" => worker[v].fresh \cap lost' = {}
  BY DEF IInv, UncountedInv, WorkerUncounted
<1>6. worker'[w].pc = "count" => worker'[w].fresh \cap lost' = {}
  BY DEF IInv, UncountedInv
<1>7. \A v \in Worker : worker'[v].fresh \subseteq Rows' \ {Root}
  BY DEF IInv, UncountedInv
<1>8. \A v \in Worker \ {w} :
        worker'[v].pc = "count" /\ worker'[w].pc = "count"
          => worker'[v].fresh \cap worker'[w].fresh = {}
  BY DEF IInv, UncountedInv
<1>9. \A u, v \in Worker :
        u # v /\ worker'[u].pc = "count" /\ worker'[v].pc = "count"
          => worker'[u].fresh \cap worker'[v].fresh = {}
  BY <1>8 DEF IInv, UncountedInv
<1>10. UncountedInv'
  BY <1>4, <1>5, <1>6, <1>7, <1>9 DEF UncountedInv
<1> QED
  BY <1>1, <1>2, <1>10

\* Steps of a slot that only move it on, or end its task.
LEMMA InvSlotMoves ==
    ASSUME IInv, NEW w \in Worker,
           \/ ClaimTask(w) \/ DeclineTask(w) \/ FetchOk(w) \/ FetchFails(w) \/ RequeueTask(w)
           \/ CountTasks(w) \/ CompleteTask(w) \/ FailTask(w) \/ ReportAndAck(w)
           \/ SettleFails(w) \/ ReportLost(w) \/ AckLost(w) \/ WorkerCrash(w)
    PROVE  BatchInv' /\ UncountedInv' /\ RootFirst'
<1> DEFINE me == worker[w]
<1>0. /\ msg \in Stream /\ worker \in Slots
      /\ me.task \in Task /\ me.batch \in Nat /\ me.fresh \in SUBSET Task
      /\ me.fresh \subseteq Rows \ {Root} /\ UNCHANGED planner
      /\ me.pc # "idle" => me.task \in Rows
  BY SlotFields DEF IInv, TypeOK, UncountedInv, RootFirst, WorkerFrame, ClaimTask, DeclineTask,
     FetchOk, FetchFails, RequeueTask, CountTasks, CompleteTask, FailTask, ReportAndAck,
     SettleFails, ReportLost, AckLost, WorkerCrash
<1>1. Rows' = Rows
  <2>1. CASE ClaimTask(w)
    BY <1>0, <2>1 DEF ClaimTask, Claimable, Rows, OpenState, IInv, TypeOK
  <2>2. CASE CompleteTask(w)
    BY <1>0, <2>2 DEF CompleteTask, complete_task, Rows, OpenState, IInv, TypeOK
  <2>3. CASE FailTask(w)
    BY <1>0, <2>3 DEF FailTask, fail_task, Rows, OpenState, IInv, TypeOK
  <2> QED
    BY <2>1, <2>2, <2>3 DEF DeclineTask, FetchOk, FetchFails, RequeueTask, CountTasks,
       ReportAndAck, SettleFails, ReportLost, AckLost, WorkerCrash, Rows
<1>2. \A t \in Task, c \in Copy : msg'[t][c].st # "none" => t \in Rows'
  <2>1. msg' \in {msg, Acked(w), Naked(w)}
    BY DEF ClaimTask, DeclineTask, FetchOk, FetchFails, RequeueTask, CountTasks, CompleteTask,
       FailTask, ReportAndAck, SettleFails, ReportLost, AckLost, WorkerCrash
  <2> QED
    BY <1>0, <1>1, <2>1, AckedRows DEF IInv, RootFirst
<1>3. /\ \A v \in Worker \ {w} : worker'[v] = worker[v]
      /\ worker'[w].fresh \in {me.fresh, {}}
      /\ worker'[w].pc # "count"
      /\ worker'[w].pc # "idle" => worker'[w].task = me.task /\ me.pc # "idle"
      /\ worker'[w].pc = "create" => FetchOk(w)
  <2>1. CASE ClaimTask(w) \/ FetchFails(w) \/ CountTasks(w) \/ CompleteTask(w) \/ FailTask(w)
             \/ SettleFails(w)
    BY <1>0, <2>1 DEF ClaimTask, FetchFails, CountTasks, CompleteTask, FailTask, SettleFails,
       Goto, Slots, WorkerRecord
  <2>2. CASE DeclineTask(w) \/ RequeueTask(w) \/ ReportAndAck(w) \/ ReportLost(w)
             \/ AckLost(w) \/ WorkerCrash(w)
    BY <1>0, <2>2 DEF DeclineTask, RequeueTask, ReportAndAck, ReportLost, AckLost, WorkerCrash,
       Idle, Slots
  <2>3. CASE FetchOk(w)
    BY <1>0, <2>3 DEF FetchOk, AfterBatch, Slots, WorkerRecord
  <2> QED
    BY <2>1, <2>2, <2>3
<1>4. worker'[w].pc = "create" => worker'[w].batch \in DOMAIN Batches[worker'[w].task]
  <2> SUFFICES ASSUME worker'[w].pc = "create"
               PROVE  worker'[w].batch \in DOMAIN Batches[me.task]
    BY <1>3
  <2>1. worker'[w].pc = AfterBatch(me.task, 0) /\ worker'[w].batch = 0 + 1
    BY <1>0, <1>3 DEF FetchOk, Slots, WorkerRecord
  <2> QED
    BY <1>0, <2>1, AfterBatchDomain
<1>5. lost' = lost \/ lost' = lost \union WorkerUncounted(w)
  BY DEF ClaimTask, DeclineTask, FetchOk, FetchFails, RequeueTask, CountTasks, CompleteTask,
     FailTask, ReportAndAck, SettleFails, ReportLost, AckLost, WorkerCrash
<1> QED
  BY <1>0, <1>1, <1>2, <1>3, <1>4, <1>5, SlotStep

\* Fan-out: the rows a slot inserts are new, are not the root, and are its own to count.
LEMMA InvFanOut ==
    ASSUME IInv, NEW w \in Worker, CreateTasks(w) \/ PublishTask(w) \/ HandleFails(w)
    PROVE  BatchInv' /\ UncountedInv' /\ RootFirst'
<1> DEFINE me == worker[w]
<1>0. /\ msg \in Stream /\ worker \in Slots
      /\ me.task \in Task /\ me.batch \in Nat /\ me.fresh \in SUBSET Task
      /\ me.fresh \subseteq Rows \ {Root} /\ UNCHANGED planner
      /\ me.pc # "idle" => me.task \in Rows
      /\ Root \in Task
  BY SlotFields, ScanRunAssumption DEF IInv, TypeOK, UncountedInv, RootFirst, WorkerFrame,
     CreateTasks, PublishTask, HandleFails
<1>1. CASE CreateTasks(w)
  <2> DEFINE new == Inserted(Batches[me.task][me.batch])
             pc  == IF new = {} THEN AfterBatch(me.task, me.batch) ELSE "count"
             b   == IF new = {} THEN me.batch + 1 ELSE me.batch
  <2>1. me.pc = "create" /\ me.task \in Rows
    BY <1>0, <1>1 DEF CreateTasks
  <2>2. me.batch \in DOMAIN Batches[me.task]
    BY <2>1 DEF IInv, BatchInv
  <2>3. Root \notin new /\ new \cap Rows = {} /\ Rows' = Rows \union new
    BY <1>0, <1>1, <2>2, ScanRunAssumption DEF CreateTasks, Inserted, RowsAfter, Rows
  <2>4. worker' = [worker EXCEPT ![w].pc = pc, ![w].batch = b, ![w].fresh = new]
    BY <1>1 DEF CreateTasks
  <2>5. pc # "idle" /\ (pc = "create" => b \in DOMAIN Batches[me.task])
    BY <1>0, AfterBatchDomain DEF AfterBatch
  <2> HIDE DEF new, pc, b
  <2>6. /\ \A v \in Worker \ {w} : worker'[v] = worker[v]
        /\ worker'[w].pc = pc /\ worker'[w].batch = b /\ worker'[w].fresh = new
        /\ worker'[w].task = me.task
    BY <1>0, <2>4 DEF Slots, WorkerRecord
  <2>7. planner \notin {"start", "create"}
    BY <2>1 DEF IInv, RootFirst
  <2>8. UNCHANGED <<msg, lost>>
    BY <1>1 DEF CreateTasks
  <2> QED
    BY <1>0, <2>1, <2>3, <2>5, <2>6, <2>7, <2>8, SlotStep DEF IInv, RootFirst
<1>2. CASE PublishTask(w)
  <2>1. PICK u \in me.fresh :
          LET left == me.fresh \ {u}
              i    == me.batch
          IN /\ msg' \in Published(msg, u)
             /\ worker' = [worker EXCEPT
                   ![w].pc    = IF left = {} THEN AfterBatch(worker[w].task, i) ELSE "publish",
                   ![w].batch = IF left = {} THEN i + 1 ELSE i,
                   ![w].fresh = left]
    BY <1>2 DEF PublishTask
  <2> DEFINE left == me.fresh \ {u}
             pc   == IF left = {} THEN AfterBatch(me.task, me.batch) ELSE "publish"
             b    == IF left = {} THEN me.batch + 1 ELSE me.batch
  <2>2. worker' = [worker EXCEPT ![w].pc = pc, ![w].batch = b, ![w].fresh = left]
    BY <2>1
  <2>3. pc \notin {"idle", "count"} /\ (pc = "create" => b \in DOMAIN Batches[me.task])
        /\ left \subseteq Rows \ {Root}
    BY <1>0, AfterBatchDomain DEF AfterBatch
  <2> HIDE DEF left, pc, b
  <2>4. /\ \A v \in Worker \ {w} : worker'[v] = worker[v]
        /\ worker'[w].pc = pc /\ worker'[w].batch = b /\ worker'[w].fresh = left
        /\ worker'[w].task = me.task
    BY <1>0, <2>2 DEF Slots, WorkerRecord
  <2>5. Rows' = Rows /\ UNCHANGED lost /\ me.task \in Rows
    BY <1>0, <1>2 DEF PublishTask, Rows
  <2>6. \A t \in Task, c \in Copy : msg'[t][c].st # "none" => t \in Rows'
    <3>1. msg' \in Published(msg, u) /\ u \in Rows
      BY <1>0, <2>1
    <3> QED
      BY <1>0, <2>5, <3>1, PublishedRows DEF IInv, RootFirst
  <2> QED
    BY <1>0, <2>3, <2>4, <2>5, <2>6, SlotStep
<1>3. CASE HandleFails(w)
  <2>1. /\ \A v \in Worker \ {w} : worker'[v] = worker[v]
        /\ worker'[w].pc = "fail" /\ worker'[w].fresh = {} /\ worker'[w].task = me.task
    BY <1>0, <1>3 DEF HandleFails, Slots, WorkerRecord
  <2>2. Rows' = Rows /\ lost' = lost \union WorkerUncounted(w) /\ me.task \in Rows
    BY <1>0, <1>3 DEF HandleFails, Rows
  <2>3. \A t \in Task, c \in Copy : msg'[t][c].st # "none" => t \in Rows'
    BY <1>0, <1>3, <2>2, PublishedRows DEF IInv, RootFirst, HandleFails
  <2> QED
    BY <1>0, <2>1, <2>2, <2>3, SlotStep
<1> QED
  BY <1>1, <1>2, <1>3

\* The broker hands out messages of rows that exist.
LEMMA InvBroker ==
    ASSUME IInv, NEW t \in Task, NEW c \in Copy,
           \/ \E w \in Worker : Deliver(w, t, c)
           \/ AckLapse(t, c)
           \/ HeartbeatLost(t, c)
    PROVE  BatchInv' /\ UncountedInv' /\ RootFirst'
<1>0. msg \in Stream /\ worker \in Slots
  BY DEF IInv, TypeOK
<1>1. ASSUME NEW w \in Worker, Deliver(w, t, c) PROVE BatchInv' /\ UncountedInv' /\ RootFirst'
  <2>1. /\ \A v \in Worker \ {w} : worker'[v] = worker[v]
        /\ worker'[w].pc = "claim" /\ worker'[w].fresh = {} /\ worker'[w].task = t
    BY <1>0, <1>1 DEF Deliver, Slots
  <2>2. t \in Rows /\ Rows' = Rows /\ UNCHANGED <<lost, planner>>
    BY <1>1 DEF Deliver, IInv, RootFirst, WorkerFrame, Rows
  <2>3. \A u \in Task, d \in Copy : msg'[u][d].st # "none" => u \in Rows'
    BY <1>0, <1>1, <2>2 DEF Deliver, IInv, RootFirst, Stream
  <2> QED
    BY <2>1, <2>2, <2>3, SlotStep
<1>2. CASE AckLapse(t, c) \/ HeartbeatLost(t, c)
  <2>1. t \in Rows /\ Rows' = Rows /\ UNCHANGED <<lost, planner, worker>>
    BY <1>2 DEF AckLapse, HeartbeatLost, IInv, RootFirst, BrokerFrame, Rows
  <2>2. \A u \in Task, d \in Copy : msg'[u][d].st # "none" => u \in Rows'
    BY <1>0, <1>2, <2>1 DEF AckLapse, HeartbeatLost, IInv, RootFirst, Stream
  <2> QED
    BY <2>1, <2>2 DEF IInv, BatchInv, UncountedInv, RootFirst
<1> QED
  BY <1>1, <1>2

\* The aggregator, the reconciler and the operator insert nothing and count nothing.
LEMMA InvControl ==
    ASSUME IInv,
           Reconciler \/ HandleProgress \/ HandleProgressFails \/ RepairLaneFails
             \/ FinalEventLost \/ CancelRun
    PROVE  BatchInv' /\ UncountedInv' /\ RootFirst'
<1>0. msg \in Stream /\ task \in [Task -> TaskState] /\ UNCHANGED <<lost, planner, worker>>
  BY DEF IInv, TypeOK, Reconciler, ReadLanes, ReadBacklog, RepublishStranded, FinaliseSettledRun,
     FailAbandonedRun, HandleProgress, HandleProgressFails, RepairLaneFails, FinalEventLost,
     CancelRun, RecFrame
<1>1. Rows' = Rows
  <2>1. CASE CancelRun
    BY <1>0, <2>1 DEF CancelRun, Rows, OpenState
  <2> QED
    BY <2>1 DEF Reconciler, ReadLanes, ReadBacklog, RepublishStranded, FinaliseSettledRun,
       FailAbandonedRun, HandleProgress, HandleProgressFails, RepairLaneFails, FinalEventLost,
       RecFrame, Rows
<1>2. \A S \in Stranded : S \subseteq Rows
  BY DEF Stranded, MayBeAged, OpenRows, OpenState, Rows
<1>3. \A t \in Task, c \in Copy : msg'[t][c].st # "none" => t \in Rows'
  <2>1. CASE \E S \in SUBSET Task : RepublishStranded(S)
    <3>1. PICK S \in SUBSET Task : RepublishStranded(S)
      BY <2>1
    <3>2. S \subseteq Rows
      BY <1>2, <3>1 DEF RepublishStranded
    <3>3. PICK pick \in [S -> Copy] :
          msg' = [t \in Task |-> [c \in Copy |->
                   IF t \in S /\ c = pick[t] /\ c \in FreeCopies(msg, t)
                   THEN [st |-> "ready", deliveries |-> 0] ELSE msg[t][c]]]
      BY <3>1 DEF RepublishStranded
    <3> QED
      BY <1>1, <3>2, <3>3 DEF IInv, RootFirst
  <2>2. CASE RepairLaneFails
    BY <1>0, <1>1, <1>2, <2>2, PublishedRows DEF RepairLaneFails, IInv, RootFirst
  <2>3. CASE UNCHANGED msg
    BY <1>1, <2>3 DEF IInv, RootFirst
  <2> QED
    BY <2>1, <2>2, <2>3 DEF Reconciler, ReadLanes, ReadBacklog, FinaliseSettledRun,
       FailAbandonedRun, HandleProgress, HandleProgressFails, FinalEventLost, CancelRun
<1> QED
  BY <1>0, <1>1, <1>3 DEF IInv, BatchInv, UncountedInv, RootFirst

\* The strengthened invariant is inductive.
LEMMA InvNext == IInv /\ [Next]_vars => IInv'
<1> SUFFICES ASSUME IInv, [Next]_vars PROVE IInv'
  OBVIOUS
<1>1. TypeOK'
  BY TypeNext DEF IInv
<1>2. CASE UNCHANGED vars
  BY <1>1, <1>2 DEF vars, IInv, BatchInv, UncountedInv, RootFirst, Rows
<1>3. CASE Next
  <2>1. BatchInv' /\ UncountedInv' /\ RootFirst'
    BY <1>3, InvPlanner, InvSlotMoves, InvFanOut, InvBroker, InvControl
    DEF Next, Failures, RunTask
  <2> QED
    BY <1>1, <2>1 DEF IInv
<1> QED
  BY <1>2, <1>3

-----------------------------------------------------------------------------
(* The run implements the ledger.                                          *)

\* A row is uncounted because it is lost, or because one process has yet to count it.
LEMMA UncountedMember ==
    ASSUME NEW x
    PROVE  x \in Uncounted <=>
             \/ x \in lost
             \/ planner = "count" /\ x = Root
             \/ \E w \in Worker : worker[w].pc = "count" /\ x \in worker[w].fresh
  BY DEF Uncounted, PlannerUncounted, WorkerUncounted

\* The same, after a step.
LEMMA UncountedMemberPrime ==
    ASSUME NEW x
    PROVE  x \in Uncounted' <=>
             \/ x \in lost'
             \/ planner' = "count" /\ x = Root
             \/ \E w \in Worker : worker'[w].pc = "count" /\ x \in worker'[w].fresh
  BY DEF Uncounted, PlannerUncounted, WorkerUncounted

\* The ledger has the run's rows.
LEMMA LedgerRows == Ledger!Rows = Rows
  BY DEF Ledger!Rows, Rows

\* The ledger's copies of the operators of FiniteSets are the operators of FiniteSets.
LEMMA LedgerFiniteSets ==
    ASSUME NEW S
    PROVE  /\ Ledger!Cardinality(S) = Cardinality(S)
           /\ Ledger!IsFiniteSet(S) = IsFiniteSet(S)
<1>1. Ledger!Cardinality(S) = Cardinality(S)
  BY Zenon DEF Ledger!Cardinality, Cardinality
<1>2. Ledger!IsFiniteSet(S) = IsFiniteSet(S)
  BY Zenon DEF Ledger!IsFiniteSet, IsFiniteSet
<1> QED
  BY <1>1, <1>2

\* A step that leaves the two tables alone and loses track of no row is invisible.
LEMMA Invisible ==
    ASSUME UNCHANGED <<run, task>>, Uncounted' = Uncounted
    PROVE  UNCHANGED Ledger!vars
  BY DEF Ledger!vars, Rows

\* A run that has just been created is an empty ledger.
LEMMA LedgerInit == Init => Ledger!Init
  BY DEF Init, Ledger!Init, Rows

\* dispatch_run starts the run, inserts its root and counts it, and may abandon it.
LEMMA LedgerPlanner ==
    ASSUME IInv, Planner \/ DispatchFails \/ PlannerCrash
    PROVE  [Ledger!Next]_(Ledger!vars)
<1>0. Root \in Task /\ UNCHANGED worker
  BY ScanRunAssumption DEF PlannerFrame, Planner, StartRun, CreateRootTask,
     CountRootTask, PublishRootTask, AbortPlan, DispatchFails, PlannerCrash
<1>1. CASE StartRun
  <2>1. Ledger!Rows = {}
    BY <1>1 DEF StartRun, IInv, RootFirst, Rows, Ledger!Rows
  <2>2. Uncounted' = Uncounted /\ Rows' = Rows
    BY <1>0, <1>1, UncountedMember, UncountedMemberPrime DEF StartRun, Rows
  <2>3. Ledger!Start
    BY <1>1, <2>1, <2>2 DEF StartRun, Ledger!Start, IInv, TypeOK
  <2> QED
    BY <2>3 DEF Ledger!Next
<1>2. CASE CreateRootTask
  <2>1. Rows = {} /\ Rows' = {Root}
    BY <1>0, <1>2 DEF CreateRootTask, IInv, RootFirst, Rows, RowsAfter, Inserted
  <2>2. Uncounted' = Uncounted \union {Root} /\ Uncounted = {}
    BY <1>0, <1>2, <2>1, UncountedMember, UncountedMemberPrime
    DEF CreateRootTask, IInv, UncountedInv
  <2>3. Rows' \ Uncounted' = Rows \ Uncounted
    BY <2>1, <2>2
  <2>4. Ledger!Insert({Root})
    BY <1>0, <1>2, <2>1, <2>3
    DEF CreateRootTask, Ledger!Insert, Ledger!Rows, Rows, RowsAfter, Inserted
  <2> QED
    BY <1>0, <2>4 DEF Ledger!Next
<1>3. CASE CountRootTask
  <2>1. Root \in Uncounted /\ Root \in Rows /\ Rows' = Rows
    BY <1>3, UncountedMember DEF CountRootTask, IInv, RootFirst, Rows
  <2>2. Uncounted' = Uncounted \ {Root}
    BY <1>0, <1>3, UncountedMember, UncountedMemberPrime DEF CountRootTask, IInv, UncountedInv
  <2>3. Rows' \ Uncounted' = (Rows \ Uncounted) \union {Root}
    BY <2>1, <2>2
  <2>4. Cardinality({Root}) = 1
    BY FS_Singleton
  <2>5. /\ run'.total = run.total + 1 /\ UNCHANGED task
        /\ run'.state = run.state /\ run'.done = run.done /\ run'.failed = run.failed
    BY <1>3 DEF CountRootTask, IInv, TypeOK
  <2>6. {Root} # {} /\ {Root} \subseteq Rows \ (Rows \ Uncounted)
    BY <2>1
  <2>7. Ledger!Count({Root})
    BY <2>3, <2>4, <2>5, <2>6, LedgerRows, LedgerFiniteSets DEF Ledger!Count
  <2> QED
    BY <1>0, <2>7 DEF Ledger!Next
<1>4. CASE AbortPlan
  <2>1. Uncounted' = Uncounted /\ Rows' = Rows
    BY <1>0, <1>4, UncountedMember, UncountedMemberPrime DEF AbortPlan, Rows
  <2>2. Ledger!Abandon
    BY <1>4, <2>1 DEF AbortPlan, Ledger!Abandon, IInv, TypeOK
  <2> QED
    BY <2>2 DEF Ledger!Next
<1>5. CASE PublishRootTask
  <2>1. Uncounted' = Uncounted
    BY <1>0, <1>5, UncountedMember, UncountedMemberPrime DEF PublishRootTask
  <2> QED
    BY <1>5, <2>1, Invisible DEF PublishRootTask
<1>6. CASE DispatchFails \/ PlannerCrash
  <2>1. lost' = lost \union PlannerUncounted /\ planner' # "count" /\ UNCHANGED <<run, task>>
    BY <1>6 DEF DispatchFails, PlannerCrash
  <2>2. Uncounted' = Uncounted
    BY <1>0, <2>1, UncountedMember, UncountedMemberPrime DEF PlannerUncounted
  <2> QED
    BY <2>1, <2>2, Invisible
<1> QED
  BY <1>1, <1>2, <1>3, <1>4, <1>5, <1>6 DEF Planner

\* Steps of a slot that do not touch the tables: what the slot was about to count it still
\* is, or has given up.
LEMMA LedgerSlotMoves ==
    ASSUME IInv, NEW w \in Worker,
           \/ DeclineTask(w) \/ FetchOk(w) \/ FetchFails(w) \/ RequeueTask(w)
           \/ PublishTask(w) \/ ReportAndAck(w) \/ HandleFails(w)
           \/ SettleFails(w) \/ ReportLost(w) \/ AckLost(w) \/ WorkerCrash(w)
           \/ \E t \in Task, c \in Copy : Deliver(w, t, c)
    PROVE  UNCHANGED Ledger!vars
<1>0. worker \in Slots
  BY DEF IInv, TypeOK
<1>1. UNCHANGED <<run, task, planner>>
  BY DEF DeclineTask, FetchOk, FetchFails, RequeueTask, PublishTask, ReportAndAck, HandleFails,
     SettleFails, ReportLost, AckLost, WorkerCrash, Deliver, WorkerFrame
<1>2. /\ \A v \in Worker \ {w} : worker'[v] = worker[v]
      /\ worker'[w].pc # "count"
      /\ lost' = lost \union WorkerUncounted(w)
  <2>1. CASE FetchFails(w) \/ SettleFails(w) \/ HandleFails(w)
    BY <1>0, <2>1 DEF FetchFails, SettleFails, HandleFails, WorkerUncounted, Goto, Slots, WorkerRecord
  <2>2. CASE DeclineTask(w) \/ RequeueTask(w) \/ ReportAndAck(w) \/ ReportLost(w) \/ AckLost(w)
             \/ WorkerCrash(w)
    BY <1>0, <2>2 DEF DeclineTask, RequeueTask, ReportAndAck, ReportLost, AckLost, WorkerCrash,
       WorkerUncounted, Idle, Slots
  <2>3. CASE FetchOk(w)
    BY <1>0, <2>3 DEF FetchOk, AfterBatch, WorkerUncounted, Slots, WorkerRecord
  <2>4. CASE PublishTask(w)
    <3>1. PICK u \in worker[w].fresh :
            LET left == worker[w].fresh \ {u}
                i    == worker[w].batch
            IN  worker' = [worker EXCEPT
                   ![w].pc    = IF left = {} THEN AfterBatch(worker[w].task, i) ELSE "publish",
                   ![w].batch = IF left = {} THEN i + 1 ELSE i,
                   ![w].fresh = left]
      BY <2>4 DEF PublishTask
    <3> DEFINE left == worker[w].fresh \ {u}
               pc   == IF left = {} THEN AfterBatch(worker[w].task, worker[w].batch) ELSE "publish"
               b    == IF left = {} THEN worker[w].batch + 1 ELSE worker[w].batch
    <3>2. worker' = [worker EXCEPT ![w].pc = pc, ![w].batch = b, ![w].fresh = left]
      BY <3>1
    <3>3. pc # "count"
      BY DEF AfterBatch
    <3> HIDE DEF left, pc, b
    <3>4. (\A v \in Worker \ {w} : worker'[v] = worker[v]) /\ worker'[w].pc = pc
      BY <1>0, <3>2 DEF Slots, WorkerRecord
    <3> QED
      BY <2>4, <3>3, <3>4 DEF PublishTask, WorkerUncounted
  <2>5. CASE \E t \in Task, c \in Copy : Deliver(w, t, c)
    BY <1>0, <2>5 DEF Deliver, WorkerUncounted, Slots
  <2> QED
    BY <2>1, <2>2, <2>3, <2>4, <2>5
<1>3. Uncounted' = Uncounted
  <2> SUFFICES ASSUME NEW x PROVE x \in Uncounted' <=> x \in Uncounted
    OBVIOUS
  <2>1. x \in lost' <=> x \in lost \/ (worker[w].pc = "count" /\ x \in worker[w].fresh)
    BY <1>2 DEF WorkerUncounted
  <2> QED
    BY <1>1, <1>2, <2>1, UncountedMember, UncountedMemberPrime
<1> QED
  BY <1>1, <1>3, Invisible

\* A slot claims, completes or fails a row, and no row changes its place in the count.
LEMMA LedgerSettle ==
    ASSUME IInv, NEW w \in Worker, ClaimTask(w) \/ CompleteTask(w) \/ FailTask(w)
    PROVE  [Ledger!Next]_(Ledger!vars)
<1> DEFINE t == worker[w].task
<1>0. worker \in Slots /\ t \in Task /\ task \in [Task -> TaskState]
      /\ run \in [state : RunState, total : Nat, done : Nat, failed : Nat]
  BY SlotFields DEF IInv, TypeOK
<1>1. Uncounted' = Uncounted
  <2>1. /\ \A v \in Worker \ {w} : worker'[v] = worker[v]
        /\ worker'[w].pc # "count" /\ worker[w].pc # "count" /\ UNCHANGED <<lost, planner>>
    BY <1>0 DEF ClaimTask, CompleteTask, FailTask, Goto, WorkerFrame, Slots, WorkerRecord
  <2> QED
    BY <2>1, UncountedMember, UncountedMemberPrime
<1>2. Rows' = Rows
  BY <1>0 DEF ClaimTask, Claimable, CompleteTask, complete_task, FailTask, fail_task, Rows, OpenState
<1>3. CASE task[t] \notin OpenState
  <2>1. UNCHANGED <<run, task>>
    BY <1>3 DEF ClaimTask, Claimable, CompleteTask, complete_task, FailTask, fail_task
  <2> QED
    BY <1>1, <2>1, Invisible
<1>4. CASE task[t] \in OpenState
  <2>1. CASE ClaimTask(w)
    <3>1. Ledger!Claim(t)
      BY <1>1, <1>2, <1>4, <2>1 DEF ClaimTask, Claimable, Ledger!Claim, Ledger!Open, OpenState
    <3> QED
      BY <1>0, <3>1 DEF Ledger!Next
  <2>2. CASE CompleteTask(w)
    <3>1. Ledger!Complete(t)
      BY <1>0, <1>1, <1>2, <1>4, <2>2
      DEF CompleteTask, complete_task, Ledger!Complete, Ledger!Open, OpenState
    <3> QED
      BY <1>0, <3>1 DEF Ledger!Next
  <2>3. CASE FailTask(w)
    <3>1. Ledger!Fail(t)
      BY <1>0, <1>1, <1>2, <1>4, <2>3
      DEF FailTask, fail_task, Ledger!Fail, Ledger!Open, OpenState
    <3> QED
      BY <1>0, <3>1 DEF Ledger!Next
  <2> QED
    BY <2>1, <2>2, <2>3
<1> QED
  BY <1>3, <1>4

\* create_tasks inserts rows nobody counts yet; add_total_tasks counts exactly those.
LEMMA LedgerFanOut ==
    ASSUME IInv, NEW w \in Worker, CreateTasks(w) \/ CountTasks(w)
    PROVE  [Ledger!Next]_(Ledger!vars)
<1> DEFINE me == worker[w]
<1>0. /\ worker \in Slots /\ me.task \in Task /\ me.fresh \in SUBSET Task
      /\ run \in [state : RunState, total : Nat, done : Nat, failed : Nat]
      /\ UNCHANGED <<planner, lost>>
  BY SlotFields DEF IInv, TypeOK, CreateTasks, CountTasks, WorkerFrame
<1>1. CASE CreateTasks(w)
  <2> DEFINE new == Inserted(Batches[me.task][me.batch])
             pc  == IF new = {} THEN AfterBatch(me.task, me.batch) ELSE "count"
             b   == IF new = {} THEN me.batch + 1 ELSE me.batch
  <2>1. /\ new \subseteq Task \ Rows /\ Rows' = Rows \union new /\ UNCHANGED run
        /\ task' = [u \in Task |-> IF u \in new THEN "queued" ELSE task[u]]
    BY <1>1 DEF CreateTasks, Inserted, RowsAfter, Rows
  <2>2. worker' = [worker EXCEPT ![w].pc = pc, ![w].batch = b, ![w].fresh = new]
    BY <1>1 DEF CreateTasks
  <2>3. pc = "count" <=> new # {}
    BY DEF AfterBatch
  <2> HIDE DEF new, pc, b
  <2>4. /\ \A v \in Worker \ {w} : worker'[v] = worker[v]
        /\ worker'[w].pc = pc /\ worker'[w].fresh = new
    BY <1>0, <2>2 DEF Slots, WorkerRecord
  <2>5. worker[w].pc # "count"
    BY <1>1 DEF CreateTasks
  <2>6. Uncounted' = Uncounted \union new
    <3> SUFFICES ASSUME NEW x PROVE x \in Uncounted' <=> x \in Uncounted \/ x \in new
      OBVIOUS
    <3> QED
      BY <1>0, <2>3, <2>4, <2>5, UncountedMember, UncountedMemberPrime
  <2>7. Rows' \ Uncounted' = Rows \ Uncounted
    BY <2>1, <2>6
  <2>8. CASE new = {}
    <3>1. UNCHANGED task
      BY <2>1, <2>8 DEF IInv, TypeOK
    <3> QED
      BY <2>1, <2>6, <2>8, <3>1, Invisible
  <2>9. CASE new # {}
    <3>1. Ledger!Insert(new)
      BY <2>1, <2>7, <2>9, LedgerRows DEF Ledger!Insert
    <3> QED
      BY <2>1, <3>1 DEF Ledger!Next
  <2> QED
    BY <2>8, <2>9
<1>2. CASE CountTasks(w)
  <2>1. me.pc = "count" /\ UNCHANGED task
    BY <1>2 DEF CountTasks
  <2>2. /\ \A v \in Worker \ {w} : worker'[v] = worker[v]
        /\ worker'[w].pc = "publish"
    BY <1>0, <1>2 DEF CountTasks, Goto, Slots, WorkerRecord
  <2>3. me.fresh \subseteq Rows /\ me.fresh \subseteq Uncounted /\ Rows' = Rows
    BY <2>1, UncountedMember DEF IInv, UncountedInv, Rows
  <2>4. Uncounted' = Uncounted \ me.fresh
    <3> SUFFICES ASSUME NEW x PROVE x \in Uncounted' <=> x \in Uncounted /\ x \notin me.fresh
      OBVIOUS
    <3>1. x \in me.fresh => x \notin lost /\ x # Root
      BY <2>1 DEF IInv, UncountedInv
    <3>2. \A v \in Worker \ {w} : x \in me.fresh /\ worker[v].pc = "count" => x \notin worker[v].fresh
      BY <2>1 DEF IInv, UncountedInv
    <3> QED
      BY <1>0, <2>1, <2>2, <3>1, <3>2, UncountedMember, UncountedMemberPrime
  <2>5. Rows' \ Uncounted' = (Rows \ Uncounted) \union me.fresh
    BY <2>3, <2>4
  <2>6. /\ run'.total = run.total + Cardinality(me.fresh)
        /\ run'.state = run.state /\ run'.done = run.done /\ run'.failed = run.failed
    BY <1>0, <1>2 DEF CountTasks
  <2>7. CASE me.fresh = {}
    <3>1. run'.total = run.total
      BY <1>0, <2>6, <2>7, FS_EmptySet
    <3> QED
      BY <2>1, <2>5, <2>6, <2>7, <3>1 DEF Ledger!vars
  <2>8. CASE me.fresh # {}
    <3>1. me.fresh \subseteq Rows \ (Rows \ Uncounted)
      BY <2>3
    <3>2. Ledger!Count(me.fresh)
      BY <2>1, <2>5, <2>6, <2>8, <3>1, LedgerRows, LedgerFiniteSets DEF Ledger!Count
    <3> QED
      BY <1>0, <3>2 DEF Ledger!Next
  <2> QED
    BY <2>7, <2>8
<1> QED
  BY <1>1, <1>2

\* The broker, the aggregator, the reconciler and the operator.
LEMMA LedgerControl ==
    ASSUME IInv,
           \/ Reconciler \/ HandleProgress \/ HandleProgressFails \/ RepairLaneFails
           \/ FinalEventLost \/ CancelRun
           \/ \E t \in Task, c \in Copy : AckLapse(t, c) \/ HeartbeatLost(t, c)
    PROVE  [Ledger!Next]_(Ledger!vars)
<1>0. /\ run \in [state : RunState, total : Nat, done : Nat, failed : Nat]
      /\ task \in [Task -> TaskState] /\ UNCHANGED <<lost, planner, worker>>
  BY DEF IInv, TypeOK, Reconciler, ReadLanes, ReadBacklog, RepublishStranded, FinaliseSettledRun,
     FailAbandonedRun, HandleProgress, HandleProgressFails, RepairLaneFails, FinalEventLost,
     CancelRun, AckLapse, HeartbeatLost, RecFrame, BrokerFrame
<1>1. Uncounted' = Uncounted
  BY <1>0, UncountedMember, UncountedMemberPrime
<1>2. CASE CancelRun
  <2>1. Rows' = Rows
    BY <1>0, <1>2 DEF CancelRun, Rows, OpenState
  <2>2. Ledger!Cancel
    BY <1>0, <1>1, <1>2, <2>1 DEF CancelRun, Ledger!Cancel, Ledger!Open, OpenState, Active
  <2> QED
    BY <2>2 DEF Ledger!Next
<1>3. CASE FailAbandonedRun
  <2>1. Ledger!Abandon
    BY <1>0, <1>1, <1>3 DEF FailAbandonedRun, Ledger!Abandon, RecFrame, Rows
  <2> QED
    BY <2>1 DEF Ledger!Next
<1>4. ASSUME Finalizable, run' = [run EXCEPT !.state = FinalState], UNCHANGED task
      PROVE  [Ledger!Next]_(Ledger!vars)
  <2>1. Ledger!Finish
    BY <1>0, <1>1, <1>4 DEF Finalizable, should_finalize, FinalState, Ledger!Finish, Rows
  <2> QED
    BY <2>1 DEF Ledger!Next
<1>5. CASE UNCHANGED <<run, task>>
  BY <1>1, <1>5, Invisible
<1> QED
  BY <1>2, <1>3, <1>4, <1>5 DEF Reconciler, ReadLanes, ReadBacklog, RepublishStranded,
     FinaliseSettledRun, HandleProgress, HandleProgressFails, RepairLaneFails, FinalEventLost,
     AckLapse, HeartbeatLost, RecFrame, BrokerFrame

\* Every step of the run is a move of the ledger, or leaves it alone.
LEMMA LedgerNext == IInv /\ [Next]_vars => [Ledger!Next]_(Ledger!vars)
<1> SUFFICES ASSUME IInv, [Next]_vars PROVE [Ledger!Next]_(Ledger!vars)
  OBVIOUS
<1>1. CASE UNCHANGED vars
  <2>1. UNCHANGED <<run, task>> /\ Uncounted' = Uncounted
    BY <1>1, UncountedMember, UncountedMemberPrime DEF vars
  <2> QED
    BY <2>1, Invisible
<1>2. CASE Next
  BY <1>2, LedgerPlanner, LedgerSlotMoves, LedgerSettle, LedgerFanOut, LedgerControl
  DEF Next, Failures, RunTask
<1> QED
  BY <1>1, <1>2

\* Every behaviour of the scan run is a behaviour of the ledger: whatever planner, workers,
\* broker, aggregator, reconciler and operator do to the scan_runs and scan_tasks rows, and
\* wherever they fail, is one of its moves.
THEOREM Implements == Spec => ImplementsLedger
<1>1. Spec => []IInv
  BY InvInit, InvNext, PTL DEF Spec
<1> QED
  BY <1>1, LedgerInit, LedgerNext, PTL DEF Spec, ImplementsLedger, Ledger!Spec

-----------------------------------------------------------------------------
(* What the run inherits from the ledger.                                  *)

\* The ledger has finitely many rows.
LEMMA LedgerTasksFinite == Ledger!IsFiniteSet(Task)
  BY ScanRunAssumption, LedgerFiniteSets

\* The counters of a balanced ledger are the counters of the run.
LEMMA BalancedRun == Ledger!LedgerInv => CountersMatchRows /\ TotalMatchesRows
<1> SUFFICES ASSUME Ledger!LedgerInv PROVE CountersMatchRows /\ TotalMatchesRows
  OBVIOUS
<1>1. Ledger!RowsIn("done") = RowsIn("done") /\ Ledger!RowsIn("failed") = RowsIn("failed")
  BY DEF Ledger!RowsIn, RowsIn
<1>2. /\ run.done = Cardinality(RowsIn("done"))
      /\ run.failed = Cardinality(RowsIn("failed"))
      /\ run.total = Cardinality(Rows \ Uncounted)
  BY <1>1, LedgerFiniteSets DEF Ledger!LedgerInv, Ledger!Balanced
<1> QED
  BY <1>2 DEF CountersMatchRows, TotalMatchesRows

\* done_tasks and failed_tasks are the numbers of done and failed rows, for any number of
\* tasks, workers, copies and faults.
THEOREM CountersCorrect == Spec => []CountersMatchRows
<1>1. Ledger!Spec => []Ledger!LedgerInv
  BY Ledger!LedgerBalanced, LedgerTasksFinite
<1> QED
  BY <1>1, Implements, BalancedRun, PTL DEF ImplementsLedger

\* total_tasks misses exactly the rows that create_task(s) has inserted and add_total_tasks
\* has not counted, however often a parent is delivered.
THEOREM TotalCorrect == Spec => []TotalMatchesRows
<1>1. Ledger!Spec => []Ledger!LedgerInv
  BY Ledger!LedgerBalanced, LedgerTasksFinite
<1> QED
  BY <1>1, Implements, BalancedRun, PTL DEF ImplementsLedger

\* No interleaving of claim_task, complete_task, fail_task and cancel_run moves a settled row.
THEOREM SettledRowsFinal == Spec => SettledIsFinal
<1>1. Ledger!Spec => Ledger!SettledIsFinal
  BY Ledger!LedgerSettledIsFinal, LedgerTasksFinite
<1>2. [\A t \in Task : task[t] \in {"done", "failed", "skipped"} => task'[t] = task[t]]_(Ledger!vars)
        => [\A t \in Task : task[t] \in {"done", "failed", "skipped"} => task'[t] = task[t]]_vars
  BY DEF Ledger!vars
<1> QED
  BY <1>1, <1>2, Implements, PTL DEF ImplementsLedger, Ledger!SettledIsFinal, SettledIsFinal

\* A run that finalize_if_complete completes with an open row has a row that total_tasks misses.
THEOREM CompletionSettled == Spec => CompletesSettled
<1>1. Ledger!Spec => Ledger!CompletesSettled
  BY Ledger!LedgerCompletesSettled, LedgerTasksFinite
<1>2. [run.state = "running" /\ run.state' = "completed" /\ Rows \ Uncounted = Ledger!Rows
          => Ledger!OpenRows = {}]_(Ledger!vars)
        => [run.state = "running" /\ run'.state = "completed"
              => OpenRows = {} \/ Uncounted # {}]_vars
  <2>1. Ledger!OpenRows = OpenRows
    BY DEF Ledger!OpenRows, Ledger!Open, OpenRows, OpenState
  <2>2. Uncounted = {} => Rows \ Uncounted = Ledger!Rows
    BY LedgerRows
  <2>3. UNCHANGED Ledger!vars => run'.state = run.state
    BY DEF Ledger!vars
  <2> QED
    BY <2>1, <2>2, <2>3
<1> QED
  BY <1>1, <1>2, Implements, PTL DEF ImplementsLedger, Ledger!CompletesSettled, CompletesSettled

-----------------------------------------------------------------------------
(* A cancellation reaches the work in flight.                              *)

\* Where a slot is after its claim, on the way to complete_task.
Executing == {"fetch", "create", "count", "publish", "complete"}

\* No slot of a cancelled run is executing a row that is still open.
CancelInv ==
    run.state = "cancelled" =>
        \A w \in Worker : worker[w].pc \in Executing => task[worker[w].task] \notin OpenState

\* A step that takes no slot into an execution and opens no row keeps it.
LEMMA CancelKept ==
    ASSUME CancelInv, IInv, run'.state = "cancelled" => run.state = "cancelled",
           \A w \in Worker : worker'[w].pc \in Executing
              => worker[w].pc \in Executing /\ worker'[w].task = worker[w].task,
           \A t \in Rows : task'[t] \in OpenState => task[t] \in OpenState
    PROVE  CancelInv'
  BY DEF CancelInv, IInv, RootFirst, Executing

\* Fan-out keeps the slot's task and leaves the other slots alone.
LEMMA FanOutSlot ==
    ASSUME worker \in Slots, NEW w \in Worker, CreateTasks(w) \/ PublishTask(w)
    PROVE  worker'[w].task = worker[w].task /\ \A v \in Worker \ {w} : worker'[v] = worker[v]
<1>1. ASSUME NEW pc, NEW b, NEW f,
             worker' = [worker EXCEPT ![w].pc = pc, ![w].batch = b, ![w].fresh = f]
      PROVE  worker'[w].task = worker[w].task /\ \A v \in Worker \ {w} : worker'[v] = worker[v]
  BY <1>1 DEF Slots, WorkerRecord
<1>2. CASE CreateTasks(w)
  BY <1>1, <1>2 DEF CreateTasks
<1>3. CASE PublishTask(w)
  <2>1. PICK u \in worker[w].fresh :
          LET left == worker[w].fresh \ {u}
              i    == worker[w].batch
          IN  worker' = [worker EXCEPT
                 ![w].pc    = IF left = {} THEN AfterBatch(worker[w].task, i) ELSE "publish",
                 ![w].batch = IF left = {} THEN i + 1 ELSE i,
                 ![w].fresh = left]
    BY <1>3 DEF PublishTask
  <2> QED
    BY <1>1, <2>1
<1> QED
  BY <1>2, <1>3

\* A step of one slot keeps the invariant of a cancelled run.
LEMMA CancelSlot ==
    ASSUME CancelInv, IInv, NEW w \in Worker,
           \/ RunTask(w) \/ HandleFails(w) \/ SettleFails(w) \/ ReportLost(w) \/ AckLost(w)
           \/ WorkerCrash(w) \/ \E t \in Task, c \in Copy : Deliver(w, t, c)
    PROVE  CancelInv'
<1>0. /\ worker \in Slots /\ task \in [Task -> TaskState] /\ worker[w].task \in Task
      /\ run \in [state : RunState, total : Nat, done : Nat, failed : Nat]
  BY SlotFields DEF IInv, TypeOK
<1>1. CASE ClaimTask(w)
  BY <1>1 DEF ClaimTask, Claimable, CancelInv
<1>2. CASE ~ClaimTask(w)
  <2>1. run'.state = run.state
    BY <1>0, <1>2 DEF RunTask, DeclineTask, FetchOk, FetchFails, RequeueTask, CreateTasks,
       CountTasks, PublishTask, CompleteTask, complete_task, FailTask, fail_task, ReportAndAck,
       HandleFails, SettleFails, ReportLost, AckLost, WorkerCrash, Deliver
  <2>2. \A t \in Rows : task'[t] \in OpenState => task[t] \in OpenState
    <3>1. CASE CreateTasks(w)
      BY <3>1 DEF CreateTasks, RowsAfter, Inserted, Rows
    <3>2. CASE CompleteTask(w) \/ FailTask(w)
      BY <1>0, <3>2 DEF CompleteTask, complete_task, FailTask, fail_task, Rows, OpenState
    <3> QED
      BY <1>2, <3>1, <3>2 DEF RunTask, DeclineTask, FetchOk, FetchFails, RequeueTask,
         CountTasks, PublishTask, ReportAndAck, HandleFails, SettleFails, ReportLost, AckLost,
         WorkerCrash, Deliver
  <2>3. \A v \in Worker : worker'[v].pc \in Executing
              => worker[v].pc \in Executing /\ worker'[v].task = worker[v].task
    <3>1. CASE FetchFails(w) \/ CountTasks(w) \/ CompleteTask(w) \/ FailTask(w)
               \/ SettleFails(w) \/ HandleFails(w)
      BY <1>0, <3>1 DEF FetchFails, CountTasks, CompleteTask, FailTask, SettleFails,
         HandleFails, Goto, Slots, WorkerRecord, Executing
    <3>2. CASE DeclineTask(w) \/ RequeueTask(w) \/ ReportAndAck(w) \/ ReportLost(w)
               \/ AckLost(w) \/ WorkerCrash(w)
      BY <1>0, <3>2 DEF DeclineTask, RequeueTask, ReportAndAck, ReportLost, AckLost, WorkerCrash,
         Idle, Slots, Executing
    <3>3. CASE FetchOk(w)
      BY <1>0, <3>3 DEF FetchOk, AfterBatch, Slots, WorkerRecord, Executing
    <3>4. CASE CreateTasks(w) \/ PublishTask(w)
      <4>1. worker[w].pc \in Executing
        BY <3>4 DEF CreateTasks, PublishTask, Executing
      <4> QED
        BY <1>0, <3>4, <4>1, FanOutSlot
    <3>5. CASE \E t \in Task, c \in Copy : Deliver(w, t, c)
      BY <1>0, <3>5 DEF Deliver, Slots, Executing
    <3> QED
      BY <1>2, <3>1, <3>2, <3>3, <3>4, <3>5 DEF RunTask
  <2> QED
    BY <2>1, <2>2, <2>3, CancelKept
<1> QED
  BY <1>1, <1>2

\* The steps that are not a slot's keep it too.
LEMMA CancelOthers ==
    ASSUME CancelInv, IInv,
           \/ Planner \/ DispatchFails \/ PlannerCrash
           \/ Reconciler \/ HandleProgress \/ HandleProgressFails \/ RepairLaneFails
           \/ FinalEventLost \/ CancelRun
           \/ \E t \in Task, c \in Copy : AckLapse(t, c) \/ HeartbeatLost(t, c)
    PROVE  CancelInv'
<1>0. /\ run \in [state : RunState, total : Nat, done : Nat, failed : Nat]
      /\ task \in [Task -> TaskState] /\ worker \in Slots
      /\ \A w \in Worker : worker[w].task \in Task
      /\ UNCHANGED worker
  BY SlotFields DEF IInv, TypeOK, Planner, StartRun, CreateRootTask, CountRootTask,
     PublishRootTask, AbortPlan, DispatchFails, PlannerCrash, PlannerFrame,
     Reconciler, ReadLanes, ReadBacklog, RepublishStranded, FinaliseSettledRun,
     FailAbandonedRun, HandleProgress, HandleProgressFails, RepairLaneFails, FinalEventLost,
     CancelRun, AckLapse, HeartbeatLost, RecFrame, BrokerFrame
<1>1. CASE CancelRun
  BY <1>0, <1>1 DEF CancelRun, CancelInv, OpenState
<1>2. CASE CreateRootTask
  <2>1. \A t \in Rows : task'[t] = task[t]
    BY <1>2 DEF CreateRootTask, RowsAfter, Inserted, Rows
  <2> QED
    BY <1>0, <1>2, <2>1, CancelKept DEF CreateRootTask
<1>3. CASE ~CancelRun /\ ~CreateRootTask
  <2>1. UNCHANGED task /\ (run'.state = "cancelled" => run.state = "cancelled")
    BY <1>0, <1>3 DEF Planner, StartRun, CountRootTask, PublishRootTask, AbortPlan,
       DispatchFails, PlannerCrash, Reconciler, ReadLanes, ReadBacklog, RepublishStranded,
       FinaliseSettledRun, FailAbandonedRun, HandleProgress, HandleProgressFails,
       RepairLaneFails, FinalEventLost, FinalState, AckLapse, HeartbeatLost, RecFrame, BrokerFrame
  <2> QED
    BY <1>0, <2>1, CancelKept
<1> QED
  BY <1>1, <1>2, <1>3

\* While a run stays cancelled, complete_task counts nothing, whichever tasks were in flight.
THEOREM CancelCountsNothing == Spec => CancelStopsCounting
<1>1. Spec => []IInv
  BY InvInit, InvNext, PTL DEF Spec
<1>2. Init => CancelInv
  BY DEF Init, CancelInv
<1>3. IInv /\ CancelInv /\ [Next]_vars => CancelInv'
  <2> SUFFICES ASSUME IInv, CancelInv, [Next]_vars PROVE CancelInv'
    OBVIOUS
  <2>1. CASE UNCHANGED vars
    BY <2>1 DEF vars, CancelInv
  <2>2. CASE Next
    BY <2>2, CancelSlot, CancelOthers DEF Next, Failures
  <2> QED
    BY <2>1, <2>2
<1>4. IInv /\ CancelInv /\ [Next]_vars
        => [run.state = "cancelled" /\ run'.state = "cancelled" => run'.done = run.done]_vars
  <2> SUFFICES ASSUME IInv, CancelInv, Next, run.state = "cancelled"
               PROVE  run'.done = run.done
    OBVIOUS
  <2>0. run \in [state : RunState, total : Nat, done : Nat, failed : Nat]
    BY DEF IInv, TypeOK
  <2>1. ASSUME NEW w \in Worker, CompleteTask(w) PROVE run'.done = run.done
    <3>1. task[worker[w].task] \notin OpenState
      BY <2>1 DEF CompleteTask, CancelInv, Executing
    <3> QED
      BY <2>1, <3>1 DEF CompleteTask, complete_task
  <2>2. CASE ~ \E w \in Worker : CompleteTask(w)
    BY <2>0, <2>2 DEF Next, Failures, RunTask, Planner, StartRun, CreateRootTask, CountRootTask,
       PublishRootTask, AbortPlan, DispatchFails, PlannerCrash, Reconciler, ReadLanes,
       ReadBacklog, RepublishStranded, FinaliseSettledRun, FailAbandonedRun, HandleProgress,
       HandleProgressFails, RepairLaneFails, FinalEventLost, AckLapse, HeartbeatLost, RecFrame,
       BrokerFrame, CancelRun, ClaimTask, DeclineTask, FetchOk, FetchFails, RequeueTask,
       CreateTasks, CountTasks, PublishTask, FailTask, fail_task, ReportAndAck, HandleFails,
       SettleFails, ReportLost, AckLost, WorkerCrash, Deliver
  <2> QED
    BY <2>1, <2>2
<1> QED
  BY <1>1, <1>2, <1>3, <1>4, PTL DEF Spec, CancelStopsCounting

-----------------------------------------------------------------------------
(* One terminal event.                                                     *)

\* Nothing is counted before the run is started, so a run is finalised after it is started
\* and is then never running again.
TermInv ==
    /\ planner \in {"start", "create"} => run.total = 0
    /\ \/ terminals = 0
       \/ terminals = 1 /\ run.state # "running" /\ planner \notin {"start", "create"}

\* dispatch_run restarts a run only before any terminal event can have been published.
LEMMA TermPlanner ==
    ASSUME TermInv, IInv, Planner \/ DispatchFails \/ PlannerCrash
    PROVE  TermInv'
<1>0. run \in [state : RunState, total : Nat, done : Nat, failed : Nat]
  BY DEF IInv, TypeOK
<1>1. CASE StartRun \/ CountRootTask \/ AbortPlan
  BY <1>0, <1>1 DEF TermInv, StartRun, CountRootTask, AbortPlan, PlannerFrame
<1>2. CASE CreateRootTask \/ PublishRootTask \/ DispatchFails \/ PlannerCrash
  BY <1>2 DEF TermInv, CreateRootTask, PublishRootTask, DispatchFails, PlannerCrash, PlannerFrame
<1> QED
  BY <1>1, <1>2 DEF Planner

\* Workers and the broker publish no terminal event and finalise no run.
LEMMA TermSlot ==
    ASSUME TermInv, IInv, NEW w \in Worker,
           \/ RunTask(w) \/ HandleFails(w) \/ SettleFails(w) \/ ReportLost(w) \/ AckLost(w)
           \/ WorkerCrash(w) \/ \E t \in Task, c \in Copy : Deliver(w, t, c)
    PROVE  TermInv'
<1>0. /\ run \in [state : RunState, total : Nat, done : Nat, failed : Nat]
      /\ UNCHANGED <<planner, terminals>>
  BY DEF IInv, TypeOK, RunTask, ClaimTask, DeclineTask, FetchOk, FetchFails, RequeueTask,
     CreateTasks, CountTasks, PublishTask, CompleteTask, FailTask, ReportAndAck, HandleFails,
     SettleFails, ReportLost, AckLost, WorkerCrash, Deliver, WorkerFrame
<1>1. CASE CountTasks(w)
  <2>1. planner \notin {"start", "create"}
    BY <1>1 DEF CountTasks, IInv, RootFirst
  <2> QED
    BY <1>0, <1>1, <2>1 DEF CountTasks, TermInv
<1>2. CASE ~CountTasks(w)
  <2>1. run'.state = run.state /\ run'.total = run.total
    BY <1>0, <1>2 DEF RunTask, ClaimTask, DeclineTask, FetchOk, FetchFails, RequeueTask,
       CreateTasks, PublishTask, CompleteTask, complete_task, FailTask, fail_task, ReportAndAck,
       HandleFails, SettleFails, ReportLost, AckLost, WorkerCrash, Deliver
  <2> QED
    BY <1>0, <2>1 DEF TermInv
<1> QED
  BY <1>1, <1>2

\* Who finalises a run publishes its terminal event, and a finalised run is not finalised again.
LEMMA TermControl ==
    ASSUME TermInv, IInv,
           \/ Reconciler \/ HandleProgress \/ HandleProgressFails \/ RepairLaneFails
           \/ FinalEventLost \/ CancelRun
           \/ \E t \in Task, c \in Copy : AckLapse(t, c) \/ HeartbeatLost(t, c)
    PROVE  TermInv'
<1>0. /\ run \in [state : RunState, total : Nat, done : Nat, failed : Nat]
      /\ UNCHANGED planner
  BY DEF IInv, TypeOK, Reconciler, ReadLanes, ReadBacklog, RepublishStranded, FinaliseSettledRun,
     FailAbandonedRun, HandleProgress, HandleProgressFails, RepairLaneFails, FinalEventLost,
     CancelRun, AckLapse, HeartbeatLost, RecFrame, BrokerFrame
<1>1. ASSUME Finalizable, run' = [run EXCEPT !.state = FinalState],
             terminals' \in {terminals, terminals + 1}
      PROVE  TermInv'
  <2>1. terminals = 0 /\ planner \notin {"start", "create"}
    BY <1>0, <1>1 DEF TermInv, Finalizable, should_finalize
  <2>2. run'.state # "running"
    BY <1>0, <1>1 DEF FinalState
  <2> QED
    BY <1>0, <1>1, <2>1, <2>2 DEF TermInv
<1>2. CASE CancelRun \/ FailAbandonedRun
  BY <1>0, <1>2 DEF CancelRun, FailAbandonedRun, TermInv
<1>3. CASE UNCHANGED <<run, terminals>>
  BY <1>0, <1>3 DEF TermInv
<1> QED
  BY <1>1, <1>2, <1>3 DEF Reconciler, ReadLanes, ReadBacklog, RepublishStranded,
     FinaliseSettledRun, HandleProgress, HandleProgressFails, RepairLaneFails, FinalEventLost,
     AckLapse, HeartbeatLost, BrokerFrame

\* The aggregator and the reconciler between them publish one terminal event at most, even if
\* start_run or finish_run changes the run's state under them.
THEOREM TerminalOnce == Spec => []OneTerminalEvent
<1>1. Spec => []IInv
  BY InvInit, InvNext, PTL DEF Spec
<1>2. Init => TermInv
  BY DEF Init, TermInv
<1>3. IInv /\ TermInv /\ [Next]_vars => TermInv'
  <2> SUFFICES ASSUME IInv, TermInv, [Next]_vars PROVE TermInv'
    OBVIOUS
  <2>1. CASE UNCHANGED vars
    BY <2>1 DEF vars, TermInv
  <2>2. CASE Next
    BY <2>2, TermPlanner, TermSlot, TermControl DEF Next, Failures
  <2> QED
    BY <2>1, <2>2
<1>4. TermInv => OneTerminalEvent
  BY DEF TermInv, OneTerminalEvent
<1> QED
  BY <1>1, <1>2, <1>3, <1>4, PTL DEF Spec
=============================================================================
