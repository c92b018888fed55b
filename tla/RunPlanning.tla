---------------------------- MODULE RunPlanning ----------------------------
(***************************************************************************)
(* Who plans the runs of one provider in one mode.  Replicas of the        *)
(* control plane that think they lead sweep, operators trigger, and both   *)
(* go through plan_run, which reads whether a run is in flight and then    *)
(* inserts one with no lock in between.  Failed runs earn a cooldown, and  *)
(* a run that never ends stops suppressing others once it is stale.        *)
(*                                                                         *)
(* Time is relative: a row keeps its age and the time since it ended, in   *)
(* ticks, saturated where the code no longer tells them apart.  The flag   *)
(* that the leader election sets is refreshed every ten seconds and never  *)
(* runs out, so any replica may think that it leads at any time.  What a   *)
(* run does once it is dispatched is ScanRun's; here it ends, or does not, *)
(* as it pleases.                                                          *)
(*                                                                         *)
(* A definition marked Variant is the next one with a plausible defect.    *)
(***************************************************************************)
EXTENDS Integers, Sequences, FiniteSets, SequencesExt, Ordered

CONSTANTS
    Planner,       \* sweeps and "Scan now" requests, of all replicas, that can be in plan_run at once
    Interval,      \* the sweep interval
    MaxCooldown,   \* the ceiling of the cooldown, 0 for none
    Window,        \* FAILURE_STREAK_WINDOW
    StaleAfter,    \* run_stale_after
    MaxRuns,       \* bound: older runs are never heard of again
    MaxFaults,     \* bound: failed calls and crashes
    None

ASSUME PlanningAssumption ==
    /\ IsFiniteSet(Planner) /\ Planner # {} /\ None \notin Planner
    /\ Interval \in Nat \ {0} /\ MaxCooldown \in Nat /\ Window \in Nat \ {0}
    /\ StaleAfter \in Nat \ {0} /\ MaxRuns \in Nat \ {0} /\ MaxFaults \in Nat

VARIABLES
    stage,     \* where each planner is before it has a run
    runs,      \* scan_runs of the provider and mode, in the order of created_at
    faults     \* faults so far

vars == <<stage, runs, faults>>

-----------------------------------------------------------------------------
Open     == {"queued", "running"}
Finished == {"completed", "failed"}
Run      == [state : Open \union Finished \union {"cancelled"},
             age   : 0..StaleAfter,                     \* since created_at
             since : 0..MaxCooldown,                    \* since finished_at
             tasks : {"none", "open", "settled"},       \* none: total_tasks = 0
             by    : Planner \union {None}]             \* the planner that is still dispatching it

\* in_flight_run: a settled run is not in flight, nor one that is too old to be waited for.
in_flight(run) ==
    /\ run.state \in Open
    /\ run.age < StaleAfter
    /\ run.tasks # "settled"

InFlight == {i \in DOMAIN runs : in_flight(runs[i])}

\* Variant: a run suppresses others only once it has been started.
CoalescesStarted == \E i \in InFlight : runs[i].state = "running"

\* Variant: a run that never ends suppresses the others for ever.
CoalescesForEver == \E i \in DOMAIN runs : runs[i].state \in Open /\ runs[i].tasks # "settled"

Coalesces == InFlight # {}

Busy(p) == stage[p] # "idle" \/ \E i \in DOMAIN runs : runs[i].by = p

-----------------------------------------------------------------------------
(* The cooldown.                                                           *)

FAILURES_BEFORE_BACKOFF == 2

\* failure_streak: the finished runs newest first, and those ahead of the first success.
recent == Reverse(SelectSeq(runs, LAMBDA x : x.state \in Finished))
streak == {i \in DOMAIN recent : \A j \in 1..i : recent[j].state = "failed"}

cooldown(n) ==
    IF n < FAILURES_BEFORE_BACKOFF THEN 0
    ELSE LET d == Interval * 2 ^ (n - FAILURES_BEFORE_BACKOFF)
         IN  IF d < MaxCooldown THEN d ELSE MaxCooldown

\* ScanBackoff::remaining: the newest failure of the streak is younger than the cooldown.
cooling_down ==
    /\ MaxCooldown > 0
    /\ \E i \in streak : recent[i].since < cooldown(Cardinality(streak))

-----------------------------------------------------------------------------
(* The rows.  A run that nobody dispatches any more keeps only what some   *)
(* statement still reads of it.                                            *)

Settled(run) == run.state \notin Open /\ run.by = None
AtRest(run)  ==
    IF Settled(run) THEN [run EXCEPT !.age = 0, !.tasks = "none"]
    ELSE IF run.tasks = "settled" THEN [run EXCEPT !.age = StaleAfter]
    ELSE run

\* The rows a later read can tell from none: cancelled runs, finished ones beyond the streak's
\* window and those beyond MaxRuns are left out.
Trim(s) ==
    LET newer(i)   == {j \in DOMAIN s : j > i /\ s[j].by = None}
        counted(i) == {j \in newer(i) : s[j].state \in Finished}
        kept(i)    == s[i].by = None =>
                        /\ s[i].state # "cancelled"
                        /\ Cardinality(newer(i)) < MaxRuns
                        /\ s[i].state \in Finished => Cardinality(counted(i)) < Window
    IN  Selected([i \in DOMAIN s |-> AtRest(s[i])], {i \in DOMAIN s : kept(i)})

Update(i, run) == runs' = Trim([runs EXCEPT ![i] = run])

-----------------------------------------------------------------------------
Init ==
    /\ stage = [p \in Planner |-> "idle"]
    /\ runs = <<>>
    /\ faults = 0

Fault == faults < MaxFaults /\ faults' = faults + 1

Tick ==
    /\ runs' = [i \in DOMAIN runs |->
         [runs[i] EXCEPT !.age   = IF Settled(runs[i]) \/ @ = StaleAfter THEN @ ELSE @ + 1,
                         !.since = IF runs[i].state \in Open \/ @ = MaxCooldown THEN @ ELSE @ + 1]]
    /\ UNCHANGED <<stage, faults>>

\* A replica dies with the plan it was carrying out, and is started again.
Crash(p) ==
    /\ Fault
    /\ stage' = [stage EXCEPT ![p] = "idle"]
    /\ runs' = Trim([i \in DOMAIN runs |-> IF runs[i].by = p THEN [runs[i] EXCEPT !.by = None] ELSE runs[i]])

-----------------------------------------------------------------------------
(* scheduler.rs and handlers.rs: what leads to plan_run.                   *)

Enter(p) == stage' = [stage EXCEPT ![p] = "planning"]

\* maybe_sweep and cooling_down; a sweep that finds the provider cooling down does nothing.
Sweep(p) ==
    /\ ~Busy(p)
    /\ \/ ~cooling_down /\ UNCHANGED faults
       \/ Fault                      \* the streak cannot be read: plan anyway
    /\ Enter(p)
    /\ UNCHANGED <<runs>>

\* trigger_scan asks neither the leader flag nor the cooldown.
Trigger(p) ==
    /\ ~Busy(p)
    /\ Enter(p)
    /\ UNCHANGED <<runs, faults>>

-----------------------------------------------------------------------------
(* planning.rs: plan_run.                                                  *)

\* in_flight_run: leave it at that, or go on to create one.
Check(p) ==
    /\ stage[p] = "planning"
    /\ stage' = [stage EXCEPT ![p] = IF Coalesces THEN "idle" ELSE "checked"]
    /\ UNCHANGED <<runs, faults>>

\* Variant: the planner goes on as if it had not created one.
CreateRunAgain(p) ==
    /\ stage[p] = "checked"
    /\ runs' = Trim(Append(runs, [state |-> "queued", age |-> 0, since |-> 0, tasks |-> "none", by |-> p]))
    /\ UNCHANGED <<stage, faults>>

CreateRun(p) ==
    /\ stage[p] = "checked"
    /\ stage' = [stage EXCEPT ![p] = "idle"]
    /\ runs' = Trim(Append(runs, [state |-> "queued", age |-> 0, since |-> 0, tasks |-> "none", by |-> p]))
    /\ UNCHANGED faults

\* start_run has no guard on the run's state.
StartRun(i) ==
    /\ runs[i].by # None /\ runs[i].state # "running"
    /\ Update(i, [runs[i] EXCEPT !.state = "running", !.since = 0])
    /\ UNCHANGED <<stage, faults>>

\* create_task, add_total_tasks and publish_task.
Dispatch(i) ==
    /\ runs[i].by # None /\ runs[i].state = "running"
    /\ Update(i, [runs[i] EXCEPT !.tasks = "open", !.by = None])
    /\ UNCHANGED <<stage, faults>>

\* A read or the insert fails, which leaves nothing behind.
PlanFails(p) ==
    /\ stage[p] # "idle"
    /\ Fault
    /\ stage' = [stage EXCEPT ![p] = "idle"]
    /\ UNCHANGED <<runs>>

\* dispatch_run fails before or after the task is in the table: the run is failed, or stays
\* behind when that fails too.
DispatchFails(i) ==
    /\ runs[i].by # None
    /\ Fault
    /\ \E tasks \in {"none", "open"}, state \in {runs[i].state, "failed"} :
         Update(i, [runs[i] EXCEPT !.tasks = tasks, !.state = state, !.since = 0, !.by = None])
    /\ UNCHANGED <<stage>>

PlanRun ==
    \/ \E p \in Planner : Check(p) \/ CreateRun(p)
    \/ \E i \in DOMAIN runs : StartRun(i) \/ Dispatch(i)

-----------------------------------------------------------------------------
(* What else happens to a run.                                             *)

\* Its last open task settles.
TasksSettle(i) ==
    /\ runs[i].state = "running" /\ runs[i].tasks = "open"
    /\ Update(i, [runs[i] EXCEPT !.tasks = "settled"])
    /\ UNCHANGED <<stage, faults>>

\* It is finalised, or given up because it was never planned.
Close(i) ==
    /\ runs[i].state \in Open /\ runs[i].by = None
    /\ \/ /\ runs[i].tasks = "settled"
          /\ \E state \in Finished : Update(i, [runs[i] EXCEPT !.state = state])
       \/ /\ runs[i].tasks = "none" /\ runs[i].age = StaleAfter
          /\ Update(i, [runs[i] EXCEPT !.state = "failed"])
    /\ UNCHANGED <<stage, faults>>

Cancel(i) ==
    /\ runs[i].state \in Open
    /\ Update(i, [runs[i] EXCEPT !.state = "cancelled",
                                 !.tasks = IF @ = "open" THEN "settled" ELSE @])
    /\ UNCHANGED <<stage, faults>>

Next ==
    \/ Tick
    \/ \E p \in Planner : Sweep(p) \/ Trigger(p) \/ Crash(p)
    \/ PlanRun
    \/ \E p \in Planner : PlanFails(p)
    \/ \E i \in DOMAIN runs : DispatchFails(i) \/ TasksSettle(i) \/ Close(i) \/ Cancel(i)

Spec == Init /\ [][Next]_vars

\* Time passes, a replica that leads sweeps again and again, and a plan is carried on with.
\* Nothing makes a run end.
FairSpec ==
    /\ Spec
    /\ WF_vars(Tick)
    /\ SF_vars(\E p \in Planner : Sweep(p))
    /\ WF_vars(PlanRun)

-----------------------------------------------------------------------------
(* Properties.                                                             *)

\* Rows and places have the values their tables and types give them, and a planner dispatches one
\* run at a time.
TypeOK ==
    /\ stage \in [Planner -> {"idle", "planning", "checked"}]
    /\ runs \in Seq(Run)
    /\ \A p \in Planner : Cardinality({i \in DOMAIN runs : runs[i].by = p}) <= 1
    /\ faults \in 0..MaxFaults

\* No more runs are in flight than there are planners that can race, however many replicas think
\* that they lead: what coalescing really guarantees without a lock between in_flight_run and create_run.
InFlightBounded == Cardinality(InFlight) <= Cardinality(Planner)

\* The provider is scanned again and again: no lost lease, dead replica, failed dispatch, cooldown
\* or run that hangs for good retires it.
ProviderRescanned == []<>(\E i \in DOMAIN runs : runs[i].by # None)
=============================================================================
