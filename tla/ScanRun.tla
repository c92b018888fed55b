------------------------------ MODULE ScanRun ------------------------------
(***************************************************************************)
(* One scan run, from its `queued` row to its terminal state: the planner  *)
(* that opens it, the workers that execute and fan out its tasks, the      *)
(* JetStream work queue between them, the progress aggregator and the      *)
(* reconciler that close it, and the operator who cancels it.              *)
(*                                                                         *)
(* Two stores hold the truth and are never written together: Postgres      *)
(* (`run`, `task`) and the broker (`msg`, `events`).  Every SQL statement  *)
(* and every broker call is one step, because a process may die, a call    *)
(* may fail or another process may run between any two of them.            *)
(* A definition marked Variant is the next one with a plausible defect:    *)
(* each property below fails when a variant takes its place.               *)
(*                                                                         *)
(* Calls fail and processes die at most MaxFaults times in a behaviour.    *)
(***************************************************************************)
EXTENDS Integers, Sequences, FiniteSets

CONSTANTS
    Task,           \* the (kind, target) pairs a task row can be created for
    Root,           \* the task the planner creates: catalogue page 1 or the latest feed
    Batches,        \* Batches[t]: the chunks of children t fans out, in order
    Worker,         \* worker slots; one slot serves one task of a provider at a time
    Copy,           \* bound: messages of one task that exist at the same time
    NoCopy,         \* not a message
    MaxDeliveries,  \* MAX_TASK_DELIVERIES
    Pauses,         \* whether a process may be paused for longer than AGED_AFTER
    MaxFaults       \* bound: failed calls and crashes in a behaviour

ASSUME ScanRunAssumption ==
    /\ IsFiniteSet(Task) /\ IsFiniteSet(Copy)
    /\ Root \in Task
    /\ Batches \in [Task -> Seq(SUBSET Task)]
    /\ \A t \in Task : \A i \in DOMAIN Batches[t] : Root \notin Batches[t][i]
    /\ NoCopy \notin Copy
    /\ MaxDeliveries \in Nat \ {0}
    /\ Pauses \in BOOLEAN
    /\ MaxFaults \in Nat

VARIABLES
    run,        \* the scan_runs row
    task,       \* the scan_tasks rows: Task -> state, "absent" where there is no row
    planner,    \* where dispatch_run is
    msg,        \* task messages in the SCAN_TASKS work queue
    worker,     \* where run_task is in each worker slot
    events,     \* whether an undelivered ProgressEvent's counters say the run is over
    rec,        \* where the reconciler's pass is, and what it has read
    faults,     \* failures injected so far
    lost,       \* history: rows whose total_tasks increment was lost for good
    terminals   \* history: terminal progress events published for this run

vars == <<run, task, planner, msg, worker, events, rec, faults, lost, terminals>>

-----------------------------------------------------------------------------
RunState  == {"queued", "running", "completed", "failed", "cancelled"}
Active    == {"queued", "running"}
OpenState == {"queued", "claimed"}
TaskState == {"absent", "done", "failed", "skipped"} \union OpenState

PlannerPc == {"start", "create", "count", "publish", "abort", "stopped"}
WorkerPc  == {"idle", "claim", "fetch", "create", "count", "publish",
              "complete", "fail", "report"}
RecPc     == {"idle", "backlog", "stranded"}

Idle == [pc |-> "idle", task |-> Root, copy |-> NoCopy, deliveries |-> 0, batch |-> 0, fresh |-> {}]

Rows       == {t \in Task : task[t] # "absent"}
OpenRows   == {t \in Task : task[t] \in OpenState}
RowsIn(st) == {t \in Task : task[t] = st}

Fault == faults < MaxFaults /\ faults' = faults + 1

-----------------------------------------------------------------------------
(* The broker: an explicit-ack work queue, external to the repository.     *)

Holds(w, t, c) == worker[w].pc # "idle" /\ worker[w].task = t /\ worker[w].copy = c

\* Copies of t's message nobody holds and the stream has not stored.
FreeCopies(m, t) ==
    {c \in Copy : m[t][c].st = "none" /\ \A w \in Worker : ~Holds(w, t, c)}

\* What publish_task(t) can make of the stream; beyond Copy, a duplicate is not tracked.
Published(m, t) ==
    IF FreeCopies(m, t) = {} THEN {m}
    ELSE {[m EXCEPT ![t][c] = [st |-> "ready", deliveries |-> 0]] : c \in FreeCopies(m, t)}

\* An ack settles the message even when its delivery is not the latest one.
Acked(w) == [msg EXCEPT ![worker[w].task][worker[w].copy] = [st |-> "none", deliveries |-> 0]]

\* A nak hands the message back; one already settled stays settled.
Naked(w) ==
    [msg EXCEPT ![worker[w].task][worker[w].copy].st = IF @ = "held" THEN "ready" ELSE @]

\* Messages the lane's consumer has pending or awaiting an ack.
LaneBacklog == Cardinality({tc \in Task \X Copy : msg[tc[1]][tc[2]].st # "none"})

\* delivery_count is only ever compared with MaxDeliveries, so it saturates there.
Bump(n) == IF n < MaxDeliveries THEN n + 1 ELSE n

-----------------------------------------------------------------------------
(* The repository layer: what each SQL statement does to the two tables.   *)

\* Variant: a conflicting row is returned as if it had been inserted.
InsertedOrNot(S) == S

\* create_task / create_tasks: insert what is not there, return what was inserted.
Inserted(S)  == {t \in Task : t \in S /\ task[t] = "absent"}
RowsAfter(S) == [t \in Task |-> IF t \in Inserted(S) THEN "queued" ELSE task[t]]

\* Variant: a settled row can be claimed again.
ClaimableDone(t) == task[t] # "absent" /\ run.state # "cancelled"

\* The guard of claim_task.
Claimable(t) == task[t] \in OpenState /\ run.state # "cancelled"

\* Variant: the state guard of complete_task is missing.
complete_task_again(t) ==
    /\ task' = [task EXCEPT ![t] = "done"]
    /\ run'  = [run EXCEPT !.done = @ + 1]

\* Variant: fail_task may still fail a task that is done.
fail_task_done(t) ==
    IF task[t] # "failed"
    THEN /\ task' = [task EXCEPT ![t] = "failed"]
         /\ run'  = [run EXCEPT !.failed = @ + 1]
    ELSE UNCHANGED <<task, run>>

\* complete_task and fail_task: settle once, and count in the same statement.
complete_task(t) ==
    IF task[t] \in OpenState
    THEN /\ task' = [task EXCEPT ![t] = "done"]
         /\ run'  = [run EXCEPT !.done = @ + 1]
    ELSE UNCHANGED <<task, run>>

fail_task(t) ==
    IF task[t] \in OpenState
    THEN /\ task' = [task EXCEPT ![t] = "failed"]
         /\ run'  = [run EXCEPT !.failed = @ + 1]
    ELSE UNCHANGED <<task, run>>

\* Variant: strictly more tasks settled than there are.
should_finalize_strict == run.total > 0 /\ run.done + run.failed > run.total

\* should_finalize, the aggregator's gate: over the row's counters now, and over an event's
\* counters when the event is published.
should_finalize == run.total > 0 /\ run.done + run.failed >= run.total

\* Variant: the UPDATE does not require the run to be running.
FinalizableTwice == run.state # "cancelled" /\ should_finalize

\* The guard and the new state of finalize_if_complete.
Finalizable == run.state = "running" /\ should_finalize
FinalState  == IF run.done = 0 /\ run.failed > 0 THEN "failed" ELSE "completed"

\* publish_progress of the row's counters.  An event that does not pass the gate is consumed
\* without effect and is not tracked.
ProgressPublished == events \/ should_finalize

-----------------------------------------------------------------------------
(* plan_run after create_run: dispatch_run, and finish_run(Failed) when it  *)
(* fails.  Planner steps leave the workers and the reconciler alone.        *)

PlannerFrame == UNCHANGED <<worker, events, rec, terminals>>

\* start_run has no guard on the run's state.
StartRun ==
    /\ planner = "start"
    /\ run' = [run EXCEPT !.state = "running"]
    /\ planner' = "create"
    /\ UNCHANGED <<task, msg, faults, lost>> /\ PlannerFrame

CreateRootTask ==
    /\ planner = "create"
    /\ task' = RowsAfter({Root})
    /\ planner' = "count"
    /\ UNCHANGED <<run, msg, faults, lost>> /\ PlannerFrame

CountRootTask ==
    /\ planner = "count"
    /\ run' = [run EXCEPT !.total = @ + 1]
    /\ planner' = "publish"
    /\ UNCHANGED <<task, msg, faults, lost>> /\ PlannerFrame

PublishRootTask ==
    /\ planner = "publish"
    /\ msg' \in Published(msg, Root)
    /\ planner' = "stopped"
    /\ UNCHANGED <<run, task, faults, lost>> /\ PlannerFrame

\* The row a planner in the "count" step has inserted and not counted.
PlannerUncounted == IF planner = "count" THEN {Root} ELSE {}

\* A dispatch step returns an error; a failed publish may still have been stored.
DispatchFails ==
    /\ planner \in {"start", "create", "count", "publish"}
    /\ Fault
    /\ \/ UNCHANGED msg
       \/ planner = "publish" /\ msg' \in Published(msg, Root)
    /\ lost' = lost \union PlannerUncounted
    /\ planner' = "abort"
    /\ UNCHANGED <<run, task>> /\ PlannerFrame

\* finish_run(Failed) is unconditional.
AbortPlan ==
    /\ planner = "abort"
    /\ run' = [run EXCEPT !.state = "failed"]
    /\ planner' = "stopped"
    /\ UNCHANGED <<task, msg, faults, lost>> /\ PlannerFrame

\* The process dies, or finish_run itself fails.
PlannerCrash ==
    /\ planner # "stopped"
    /\ Fault
    /\ lost' = lost \union PlannerUncounted
    /\ planner' = "stopped"
    /\ UNCHANGED <<run, task, msg>> /\ PlannerFrame

-----------------------------------------------------------------------------
(* A worker slot: deliver, handle_task, settle, report, ack.               *)

WorkerFrame == UNCHANGED <<planner, rec, terminals>>

Goto(w, pc) == worker' = [worker EXCEPT ![w].pc = pc]

\* FairQueue::try_next hands a message to an idle slot.
Deliver(w, t, c) ==
    /\ worker[w].pc = "idle"
    /\ msg[t][c].st = "ready"
    /\ LET n == Bump(msg[t][c].deliveries) IN
       /\ msg' = [msg EXCEPT ![t][c] = [st |-> "held", deliveries |-> n]]
       /\ worker' = [worker EXCEPT ![w] =
              [pc |-> "claim", task |-> t, copy |-> c, deliveries |-> n, batch |-> 0, fresh |-> {}]]
    /\ UNCHANGED <<run, task, events, faults, lost>> /\ WorkerFrame

ClaimTask(w) ==
    /\ worker[w].pc = "claim"
    /\ Claimable(worker[w].task)
    /\ task' = [task EXCEPT ![worker[w].task] = "claimed"]
    /\ Goto(w, "fetch")
    /\ UNCHANGED <<run, msg, events, faults, lost>> /\ WorkerFrame

\* Handled::Declined: ack, no counter moves, no progress is reported.
DeclineTask(w) ==
    /\ worker[w].pc = "claim"
    /\ ~Claimable(worker[w].task)
    /\ msg' = Acked(w)
    /\ worker' = [worker EXCEPT ![w] = Idle]
    /\ UNCHANGED <<run, task, events, faults, lost>> /\ WorkerFrame

\* What dispatch does after batch i of t: the next chunk, or Handled::Executed.
AfterBatch(t, i) == IF i < Len(Batches[t]) THEN "create" ELSE "complete"

\* list_catalog, list_latest or process_series answers.
FetchOk(w) ==
    /\ worker[w].pc = "fetch"
    /\ worker' = [worker EXCEPT ![w].pc = AfterBatch(worker[w].task, 0), ![w].batch = 1]
    /\ UNCHANGED <<run, task, msg, events, faults, lost>> /\ WorkerFrame

\* The provider fails for good, or transiently with no delivery left: Disposition::Failed.
FetchFails(w) ==
    /\ worker[w].pc = "fetch"
    /\ Goto(w, "fail")
    /\ UNCHANGED <<run, task, msg, events, faults, lost>> /\ WorkerFrame

\* Variant: no delivery budget.
RequeueForEver(w) ==
    /\ worker[w].pc = "fetch"
    /\ msg' = Naked(w)
    /\ worker' = [worker EXCEPT ![w] = Idle]
    /\ UNCHANGED <<run, task, events, faults, lost>> /\ WorkerFrame

\* The provider fails transiently and the delivery this slot was handed is not the last one:
\* Disposition::Requeued, a nak with a delay, without report or ack.
RequeueTask(w) ==
    /\ worker[w].pc = "fetch"
    /\ worker[w].deliveries < MaxDeliveries
    /\ msg' = Naked(w)
    /\ worker' = [worker EXCEPT ![w] = Idle]
    /\ UNCHANGED <<run, task, events, faults, lost>> /\ WorkerFrame

\* create_tasks for one chunk, or create_task for the chained page; nothing new: skip it.
CreateTasks(w) ==
    /\ worker[w].pc = "create"
    /\ LET t == worker[w].task
           i == worker[w].batch
           new == Inserted(Batches[t][i])
       IN /\ task' = RowsAfter(Batches[t][i])
          /\ worker' = [worker EXCEPT
                ![w].pc    = IF new = {} THEN AfterBatch(t, i) ELSE "count",
                ![w].batch = IF new = {} THEN i + 1 ELSE i,
                ![w].fresh = new]
    /\ UNCHANGED <<run, msg, events, faults, lost>> /\ WorkerFrame

CountTasks(w) ==
    /\ worker[w].pc = "count"
    /\ run' = [run EXCEPT !.total = @ + Cardinality(worker[w].fresh)]
    /\ Goto(w, "publish")
    /\ UNCHANGED <<task, msg, events, faults, lost>> /\ WorkerFrame

PublishTask(w) ==
    /\ worker[w].pc = "publish"
    /\ \E u \in worker[w].fresh :
         LET left == worker[w].fresh \ {u}
             i    == worker[w].batch
         IN /\ msg' \in Published(msg, u)
            /\ worker' = [worker EXCEPT
                  ![w].pc    = IF left = {} THEN AfterBatch(worker[w].task, i) ELSE "publish",
                  ![w].batch = IF left = {} THEN i + 1 ELSE i,
                  ![w].fresh = left]
    /\ UNCHANGED <<run, task, events, faults, lost>> /\ WorkerFrame

\* The rows worker w has inserted and not counted.
WorkerUncounted(w) == IF worker[w].pc = "count" THEN worker[w].fresh ELSE {}

\* A database or broker call of handle_task fails, which is never retryable.
HandleFails(w) ==
    /\ worker[w].pc \in {"claim", "create", "count", "publish"}
    /\ Fault
    /\ \/ UNCHANGED msg
       \/ worker[w].pc = "publish" /\ \E u \in worker[w].fresh : msg' \in Published(msg, u)
    /\ lost' = lost \union WorkerUncounted(w)
    /\ worker' = [worker EXCEPT ![w].pc = "fail", ![w].fresh = {}]
    /\ UNCHANGED <<run, task, events>> /\ WorkerFrame

CompleteTask(w) ==
    /\ worker[w].pc = "complete"
    /\ complete_task(worker[w].task)
    /\ Goto(w, "report")
    /\ UNCHANGED <<msg, events, faults, lost>> /\ WorkerFrame

\* fail_task of requeue_or_fail.
FailTask(w) ==
    /\ worker[w].pc = "fail"
    /\ fail_task(worker[w].task)
    /\ Goto(w, "report")
    /\ UNCHANGED <<msg, events, faults, lost>> /\ WorkerFrame

\* The settling statement fails: logged or discarded, and the task goes on to its ack.
SettleFails(w) ==
    /\ worker[w].pc \in {"complete", "fail"}
    /\ Fault
    /\ Goto(w, "report")
    /\ UNCHANGED <<run, task, msg, events, lost>> /\ WorkerFrame

\* report_progress, then ack.
ReportAndAck(w) ==
    /\ worker[w].pc = "report"
    /\ events' = ProgressPublished
    /\ msg' = Acked(w)
    /\ worker' = [worker EXCEPT ![w] = Idle]
    /\ UNCHANGED <<run, task, faults, lost>> /\ WorkerFrame

\* The event is lost on its way, and the message is acked all the same.
ReportLost(w) ==
    /\ worker[w].pc = "report"
    /\ Fault
    /\ msg' = Acked(w)
    /\ worker' = [worker EXCEPT ![w] = Idle]
    /\ UNCHANGED <<run, task, events, lost>> /\ WorkerFrame

\* The event is published, and the ack is lost.
AckLost(w) ==
    /\ worker[w].pc = "report"
    /\ Fault
    /\ events' = ProgressPublished
    /\ worker' = [worker EXCEPT ![w] = Idle]
    /\ UNCHANGED <<run, task, msg, lost>> /\ WorkerFrame

\* The process is killed or the task panics: the message stays delivered and unacked.
\* A nak or a declined delivery's ack that is lost leaves the same state.
WorkerCrash(w) ==
    /\ worker[w].pc # "idle"
    /\ Fault
    /\ lost' = lost \union WorkerUncounted(w)
    /\ worker' = [worker EXCEPT ![w] = Idle]
    /\ UNCHANGED <<run, task, msg, events>> /\ WorkerFrame

\* ack_wait lapses: nobody holds the message any more, or its heartbeats were lost.
BrokerFrame == UNCHANGED <<run, task, planner, worker, events, rec, lost, terminals>>

AckLapse(t, c) ==
    /\ msg[t][c].st = "held"
    /\ \A w \in Worker : ~Holds(w, t, c)
    /\ msg' = [msg EXCEPT ![t][c].st = "ready"]
    /\ UNCHANGED faults /\ BrokerFrame

HeartbeatLost(t, c) ==
    /\ msg[t][c].st = "held"
    /\ \E w \in Worker : Holds(w, t, c)
    /\ Fault
    /\ msg' = [msg EXCEPT ![t][c].st = "ready"]
    /\ BrokerFrame

-----------------------------------------------------------------------------
(* The aggregator, the reconciler, the operator and the clock.             *)

\* handle_progress: the event's counters gate the UPDATE, the row decides it.  The terminal
\* event comes back to the aggregator, which finds the run finalised and publishes nothing.
HandleProgress ==
    /\ events
    /\ events' = Finalizable
    /\ run' = IF Finalizable THEN [run EXCEPT !.state = FinalState] ELSE run
    /\ terminals' = IF Finalizable THEN terminals + 1 ELSE terminals
    /\ UNCHANGED <<task, planner, msg, worker, rec, faults, lost>>

\* The UPDATE fails and the deliveries run out, or it commits and the terminal event's
\* publish fails: every redelivery then finds the run finalised and publishes nothing.
HandleProgressFails ==
    /\ events
    /\ Fault
    /\ events' = FALSE
    /\ \/ UNCHANGED run
       \/ Finalizable /\ run' = [run EXCEPT !.state = FinalState]
    /\ UNCHANGED <<task, planner, msg, worker, rec, lost, terminals>>

NoPass == [pc |-> "idle", count |-> 0]

RecFrame == UNCHANGED <<task, planner, worker, lost>>

\* Rows a process has inserted and not yet published, and not died on.
InTransit ==
    (IF planner \in {"count", "publish"} THEN {Root} ELSE {})
    \union UNION {worker[w].fresh : w \in Worker}

\* Open rows that may be older than AGED_AFTER.  The gap between a row's INSERT and its publish
\* is far shorter, unless the process is paused in it; else a row's age is the clock's choice.
MayBeAged == IF Pauses THEN OpenRows ELSE OpenRows \ InTransit

\* open_task_lanes: n rows of the lane are open and aged.
ReadLanes(n) ==
    /\ rec.pc = "idle"
    /\ run.state \in Active
    /\ n \in 1..Cardinality(MayBeAged)
    /\ rec' = [pc |-> "backlog", count |-> n]
    /\ UNCHANGED <<run, msg, events, faults, terminals>> /\ RecFrame

\* Variant: the subtraction does not saturate at zero.
deficit_unsaturated == rec.count - LaneBacklog

\* deficit: rows with no message behind them, by count.
deficit == IF rec.count > LaneBacklog THEN rec.count - LaneBacklog ELSE 0

\* lane_backlog, then deficit: what the broker holds is read after the rows were.
ReadBacklog ==
    /\ rec.pc = "backlog"
    /\ rec' = IF deficit = 0 THEN NoPass ELSE [pc |-> "stranded", count |-> deficit]
    /\ UNCHANGED <<run, msg, events, faults, terminals>> /\ RecFrame

\* t's row was inserted before u's: it is u's parent or an earlier chunk of u's parent.
Older(t, u) ==
    \/ \E i \in DOMAIN Batches[t] : u \in Batches[t][i]
    \/ \E p \in Task : \E i, j \in DOMAIN Batches[p] :
          i < j /\ t \in Batches[p][i] /\ u \in Batches[p][j]

\* What stranded_tasks can return: the oldest aged open rows, at most the deficit.
Stranded ==
    {S \in SUBSET MayBeAged :
        /\ run.state \in Active
        /\ Cardinality(S) <= rec.count
        /\ \A t \in S, u \in OpenRows \ S : ~Older(u, t)}

\* republish each of them.
RepublishStranded(S) ==
    /\ rec.pc = "stranded"
    /\ S \in Stranded \union {{}}
    /\ \E pick \in [S -> Copy] :
         msg' = [t \in Task |-> [c \in Copy |->
                   IF t \in S /\ c = pick[t] /\ c \in FreeCopies(msg, t)
                   THEN [st |-> "ready", deliveries |-> 0] ELSE msg[t][c]]]
    /\ rec' = NoPass
    /\ UNCHANGED <<run, events, faults, terminals>> /\ RecFrame

\* The guard of fail_unplanned_runs; a run whose planner is alive and not paused is too young.
Unplanned ==
    /\ run.state \in Active /\ run.total = 0 /\ Rows = {}
    /\ Pauses \/ planner = "stopped"

\* finalise_settled_runs: the lane pass is over and the run is one its SELECT returns.
FinaliseSettledRun ==
    /\ rec.pc = "idle"
    /\ Finalizable
    /\ run' = [run EXCEPT !.state = FinalState]
    /\ events' = TRUE
    /\ terminals' = terminals + 1
    /\ UNCHANGED <<msg, rec, faults>> /\ RecFrame

\* fail_abandoned_runs, for a run that is old enough.
FailAbandonedRun ==
    /\ rec.pc = "idle"
    /\ Unplanned
    /\ run' = [run EXCEPT !.state = "failed"]
    /\ UNCHANGED <<msg, events, rec, faults, terminals>> /\ RecFrame

\* A lane that cannot be read or republished in full is left for the next pass.
RepairLaneFails ==
    /\ rec.pc \in {"backlog", "stranded"}
    /\ Fault
    /\ \/ UNCHANGED msg
       \/ rec.pc = "stranded" /\ \E S \in Stranded : \E t \in S : msg' \in Published(msg, t)
    /\ rec' = NoPass
    /\ UNCHANGED <<run, events, terminals>> /\ RecFrame

\* The reconciler finalises the run and cannot publish its terminal event.
FinalEventLost ==
    /\ rec.pc = "idle"
    /\ Finalizable
    /\ Fault
    /\ run' = [run EXCEPT !.state = FinalState]
    /\ UNCHANGED <<msg, events, rec, terminals>> /\ RecFrame

\* Variant: only rows no worker has claimed are skipped.
CancelQueuedOnly ==
    /\ run.state \in Active
    /\ run' = [run EXCEPT !.state = "cancelled"]
    /\ task' = [t \in Task |-> IF task[t] = "queued" THEN "skipped" ELSE task[t]]
    /\ UNCHANGED <<planner, msg, worker, events, rec, faults, lost, terminals>>

\* cancel_run: open rows are skipped and nothing is counted.
CancelRun ==
    /\ run.state \in Active
    /\ run' = [run EXCEPT !.state = "cancelled"]
    /\ task' = [t \in Task |-> IF task[t] \in OpenState THEN "skipped" ELSE task[t]]
    /\ UNCHANGED <<planner, msg, worker, events, rec, faults, lost, terminals>>

-----------------------------------------------------------------------------
Init ==
    /\ run = [state |-> "queued", total |-> 0, done |-> 0, failed |-> 0]
    /\ task = [t \in Task |-> "absent"]
    /\ planner = "start"
    /\ msg = [t \in Task |-> [c \in Copy |-> [st |-> "none", deliveries |-> 0]]]
    /\ worker = [w \in Worker |-> Idle]
    /\ events = FALSE
    /\ rec = NoPass
    /\ faults = 0
    /\ lost = {}
    /\ terminals = 0

Planner == StartRun \/ CreateRootTask \/ CountRootTask \/ PublishRootTask \/ AbortPlan

\* run_task from its claim to its ack, when no call fails.
RunTask(w) ==
    \/ ClaimTask(w) \/ DeclineTask(w) \/ FetchOk(w) \/ FetchFails(w)
    \/ CreateTasks(w) \/ CountTasks(w) \/ PublishTask(w)
    \/ CompleteTask(w) \/ RequeueTask(w) \/ FailTask(w) \/ ReportAndAck(w)

Reconciler ==
    \/ \E n \in 1..Cardinality(Task) : ReadLanes(n)
    \/ ReadBacklog
    \/ \E S \in SUBSET Task : RepublishStranded(S)
    \/ FinaliseSettledRun
    \/ FailAbandonedRun

Failures ==
    \/ DispatchFails \/ PlannerCrash \/ RepairLaneFails \/ FinalEventLost
    \/ \E w \in Worker :
          HandleFails(w) \/ SettleFails(w) \/ ReportLost(w) \/ AckLost(w) \/ WorkerCrash(w)
    \/ \E t \in Task, c \in Copy : HeartbeatLost(t, c)
    \/ HandleProgressFails

Next ==
    \/ Planner
    \/ \E w \in Worker, t \in Task, c \in Copy : Deliver(w, t, c)
    \/ \E w \in Worker : RunTask(w)
    \/ \E t \in Task, c \in Copy : AckLapse(t, c)
    \/ HandleProgress
    \/ Reconciler
    \/ CancelRun
    \/ Failures

Spec == Init /\ [][Next]_vars

\* Processes that are up take their next step; a slot frees up for every message in turn,
\* because a lane is served first in, first out; rows and runs do not stay young for ever.
\* Failures are never fair.
Fairness ==
    /\ WF_vars(Planner)
    /\ \A w \in Worker : WF_vars(RunTask(w))
    /\ \A t \in Task, c \in Copy :
         /\ SF_vars(\E w \in Worker : Deliver(w, t, c))
         /\ WF_vars(AckLapse(t, c))
    /\ WF_vars(HandleProgress)
    /\ WF_vars(ReadBacklog \/ \E S \in SUBSET Task : RepublishStranded(S))
    /\ SF_vars(ReadLanes(Cardinality(MayBeAged)))
    /\ SF_vars(\E S \in Stranded : Cardinality(S) = rec.count /\ RepublishStranded(S))
    /\ SF_vars(FinaliseSettledRun)
    /\ SF_vars(FailAbandonedRun)

FairSpec == Spec /\ Fairness

-----------------------------------------------------------------------------
(* Properties.                                                             *)

Message == [st : {"none", "ready", "held"}, deliveries : 0..MaxDeliveries]
Stream  == [Task -> [Copy -> Message]]

WorkerRecord ==
    [pc : WorkerPc, task : Task, copy : Copy \union {NoCopy}, deliveries : 0..MaxDeliveries,
     batch : Nat, fresh : SUBSET Task]
Slots == [Worker -> WorkerRecord]

\* Types of the two tables, the stream and the control state of every process.
TypeOK ==
    /\ run \in [state : RunState, total : Nat, done : Nat, failed : Nat]
    /\ task \in [Task -> TaskState]
    /\ planner \in PlannerPc
    /\ msg \in Stream
    /\ worker \in Slots
    /\ events \in BOOLEAN
    /\ rec \in [pc : RecPc, count : Nat]
    /\ faults \in 0..MaxFaults
    /\ lost \in SUBSET Task
    /\ terminals \in Nat

\* Settle-once: however often a task is delivered, executed, failed after a success or
\* retried, done_tasks and failed_tasks are the numbers of rows in those states
\* (complete_task, fail_task, claim_task, cancel_run).
CountersMatchRows ==
    /\ run.done = Cardinality(RowsIn("done"))
    /\ run.failed = Cardinality(RowsIn("failed"))

\* Rows some process has inserted and not yet counted, or died before counting.
Uncounted == lost \union PlannerUncounted \union UNION {WorkerUncounted(w) : w \in Worker}

\* Fan-out is idempotent: under redelivery and overlap, total_tasks counts each row at most
\* once and misses exactly the rows between their INSERT and their add_total_tasks.
TotalMatchesRows == run.total = Cardinality(Rows \ Uncounted)

\* A settled row keeps its first outcome: no redelivery, late failure or cancellation of the
\* run moves a task out of done, failed or skipped.
SettledIsFinal ==
    [][\A t \in Task : task[t] \in {"done", "failed", "skipped"} => task'[t] = task[t]]_vars

\* A run completes with work outstanding only while a row is missing from total_tasks: if
\* every row has been counted, finalize_if_complete sees every row settled.
CompletesSettled ==
    [][run.state = "running" /\ run'.state = "completed"
         => OpenRows = {} \/ Uncounted # {}]_vars

\* A cancellation reaches work in flight: while a run stays cancelled no task of it can
\* still be counted as done, including one a worker was executing when it was cancelled.
CancelStopsCounting ==
    [][run.state = "cancelled" /\ run'.state = "cancelled" => run'.done = run.done]_vars

\* The aggregator and the reconciler race to finalise a run, and progress events are
\* redelivered; at most one terminal progress event is published for the run.
OneTerminalEvent == terminals <= 1

Ledger == INSTANCE RunLedger WITH
    state <- run.state, rows <- task, counted <- Rows \ Uncounted,
    total <- run.total, done <- run.done, failed <- run.failed

\* A planner, overlapping workers, redeliveries, crashes and a cancellation write the run's
\* books in many small statements; together they only ever make the ledger's moves.
ImplementsLedger == Ledger!Spec

\* The one state the code never leaves: the planner died between inserting the first task and
\* counting it, and no child has been counted since.
Uncountable == Root \in lost /\ run.total = 0

\* Whatever is lost, a run that is open is closed in the end: workers, aggregator and
\* reconciler between them recover lost messages, acks, settles and progress events.
RunSettles ==
    (run.state \in Active /\ ~Uncountable) ~> (run.state \notin Active \/ Uncountable)

\* Every stored message leaves the work queue: the delivery budget ends transient failures,
\* and a message of a settled task or a cancelled run is declined and acked.
MessagesDrain ==
    \A t \in Task, c \in Copy : msg[t][c].st # "none" ~> msg[t][c].st = "none"

-----------------------------------------------------------------------------
(* What comments of the code promise and its interleavings do not keep.    *)

\* enqueue_child: "`done + failed` can never reach `total` mid-fan-out, so the run cannot
\* finalise early".  It does when the reconciler has republished a parent in execution, which
\* claim_task gives to a second worker.
NeverFinishesEarly ==
    [][run.state = "running" /\ run'.state = "completed" => OpenRows = {}]_vars

\* fail_unplanned_runs and the reconciler's header: a run opened by a planner that was killed
\* is closed in the end, whichever of its steps it was killed between.
EveryRunSettles == run.state \in Active ~> run.state \notin Active
=============================================================================
