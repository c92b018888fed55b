# TankoVault in TLA+

TankoVault aggregates manga catalogues: it scans providers, matches their series, tells readers of
new chapters and keeps their progress in step with external trackers. This directory holds TLA+
models of its concurrent parts, the TLC runs that check them, and TLAPS proofs about them. Paths
below are relative to the repository root.

## Inventory

| Part | State it keeps | Operations | Talks to |
|---|---|---|---|
| Scan accounting `crates/db/src/repo/scans` | `scan_runs` (state, total, done, failed), `scan_tasks` (state) | create, start, count, claim, complete, fail, finalise, cancel | everyone, by single SQL statements |
| Planner `control-plane/planning.rs` | none of its own | `plan_run`, `dispatch_run` | accounting, bus |
| Scheduler, leader, cooldown `control-plane` | a Redis lease and an in-process flag | ticks, acquire or renew, cooldown | planner, reconciler |
| Bus `crates/bus` | work queue of tasks, stream of events | publish, pull, ack, nak, heartbeat | all services |
| Worker loop `worker/main.rs`, `queue.rs` | lanes, cursors, streak, in-flight set | one round at a time, join, refresh, drain | bus, tasks |
| Worker tasks `worker/engine` | none of its own | claim, fetch, fan out, settle, report, ack | accounting, bus, fetch stack |
| Aggregator `control-plane/aggregator.rs` | none of its own | `handle_progress` | events, accounting |
| Reconciler `control-plane/reconcile.rs` | none of its own | republish, finalise, fail abandoned | accounting, bus |
| Notifier `services/notifier` | deduplication claims, notifications | `fan_out`, dispatch | events, channels |
| Tracker sync `services/sync` | snapshots, mappings, conflicts | pull, push, three-way merge, revert | external trackers |
| Matching `crates/matcher`, `repo/matching`, `control-plane/dedupe` | candidates, decisions, undo journals | sweep, merge, revert | catalogue |
| API sessions `api/auth` | token families | rotate, revoke | browsers |
| Fetch stack `crates/fetch` | solved sessions, back-off, rate limits | get, solve, retry | providers |
| Flags, tunables, recommender, adapters, frontend | caches and derived tables | reads, batch builds, parsing | |

What makes it hard. Postgres is the truth for progress and JetStream the truth for dispatch, and
nothing writes both at once: every pair of statements can come apart by a crash, a failed call or
another process in between. Messages are delivered at least once, and a task's message can exist
twice. Runs are closed by two processes that race. One worker loop multiplexes many lanes over a
set of in-flight tasks that only it can update. `PROJECT.json` lists the hazards at their lines.

Correctness, part by part: a run's counters agree with its rows and a run ends exactly when its
work has ended (accounting, planner, worker, aggregator, reconciler); a lane that can be served is
served within a bounded number of turns, one task per provider (worker loop); a provider is
scanned again and again, by one run per mode but for planners that race (planner, scheduler); a chapter is announced once to each reader (notifier); a merge never
loses an edit and comes to rest (sync); a revert restores what its merge moved (matching); a family
has one live token (sessions).

## Modules

| Module | What it is |
|---|---|
| `ScanRun` | one scan run and every process that touches it |
| `RunLedger` | the abstract books of a run, and the proofs about them |
| `ScanRunProofs` | the proofs about `ScanRun` |
| `MCScanRun` | small instances of `ScanRun` |
| `FairQueue` | the consumer loop and the fair queue of one worker process |
| `RunPlanning` | who plans the runs of one provider and mode, and when |
| `Notifier` | from a discovered chapter to the readers who watch its series |
| `SyncMerge` | one reader's linked series, their tracker entry and everything that writes either |
| `MatchMerge` | merges of series, their journals and their reverts |
| `Ordered` | the part of a sequence at some of its indexes, without recursion, with its lemmas |
| `FairQueueProofs`, `RunPlanningProofs`, `NotifierProofs`, `SyncMergeProofs`, `MatchMergeProofs` | the proofs about these |
| `MCFairQueue`, `MCRunPlanning`, `MCNotifier`, `MCSyncMerge`, `MCMatchMerge` | small instances of these |

### ScanRun

One SQL statement, one broker call or one stretch of local computation is one step, with two exceptions:
`ReportAndAck` joins the progress report of a settled task to its ack, whose failures are `ReportLost` and
`AckLost`, and `RepublishStranded` joins the reconciler's `stranded_tasks` to the publishes. A lane that no
worker has opened yet, which the reconciler skips (`lane_backlog` answers nothing), is not modelled.

* `run` and `task` are the `scan_runs` row and the `scan_tasks` rows. A task is its (kind, target)
  pair; `Batches[t]` are the chunks that task `t` fans out, in order: the chunks of
  `enqueue_children` and then the chained page of `enqueue_child`.
* `planner` is the place of `dispatch_run`; `DispatchFails` and `AbortPlan` are its error path,
  `PlannerCrash` the death of the process.
* `msg` is the work queue: `Copy` messages of a task, each stored (`ready`), delivered and unacked
  (`held`) or gone, with its delivery count. A copy beyond the bound is not stored.
* `worker[w]` is the place of `run_task` in one slot. Slots belong to any number of worker
  processes; the limit of one task per provider holds inside a process only, so two slots may hold
  tasks of the same run.
* `events` says whether an undelivered progress event passes `should_finalize`. An event that does
  not is consumed without effect, so it is not kept.
* `rec` is the reconciler's pass: the rows it has counted, then the deficit. `MayBeAged` is the
  clock: a row may be older than `AGED_AFTER` whenever no live process is between its INSERT and its
  publish, and, with `Pauses`, even then.
* `lost` and `terminals` are history variables: rows whose count was lost for good, and the terminal
  events published.

Left out: stage timings, log lines, the data a series scan ingests, and the run's provider and mode.

### RunLedger and the refinement

`RunLedger` states what the books promise without workers, messages or failures: rows are inserted
once, counted once some time later, claimed any number of times while open, settled once, and
skipped by a cancellation; a run is closed when its counters say so. `ScanRun` implements it under
the mapping in `Ledger`: the run's row and the task rows are themselves, and `counted` is the set of
rows minus those that some process has inserted and not counted, or died before counting.

### FairQueue

`pc`, `order` and `free` are the place of `run_consumer` and of the round in progress; a round pulls
its lanes one by one, and messages arrive, are taken by other workers and tasks end between any two
pulls. `busy` is the loop's set; `running` and `finished` are what has really happened to the tasks.
`release` treats a panic like a return, as the code does by keying on the task id. `passed` and
`owed` are history variables that count how often a lane that could be served was passed over.
`OpenLanes` is what `refresh_lanes` appends: the lanes that are missing and could be opened, in slug
order. `FullTierEvery` is at least one (the code's `FULL_TIER_EVERY` is a positive constant). The idle back-off is the step `IdleLapses`; how long it takes is left out.

### RunPlanning

The runs of one provider in one mode, as the rows of `scan_runs` in the order of their creation.
`Sweep` (the scheduler of a replica that thinks it leads) and `Trigger` (the operator) enter
`plan_run`: `Check` is `in_flight_run`, `CreateRun` the insert, `StartRun` and `Dispatch` the rest,
`PlanFails`, `DispatchFails` and `Crash` its failures. What a run does after its dispatch is
`ScanRun`'s business; here its tasks settle, it is closed or cancelled, or it hangs for good. Ages are
ticks, saturated where no statement tells them apart, and a row that no statement can read any more is
trimmed (`Trim`, `AtRest`), so that the state space is finite although the system runs for ever. The Redis lease is not
modelled. The flag it sets is refreshed every ten seconds and does not run out in the process, so any
replica may sweep at any time; that is more than the lease allows, and what holds here holds with it.

### Notifier

`Discover` is the end of a series scan: a chapter new to a provider's source is committed, then
published once, or the publish fails. `Pull` to `Ack` are `consume` and `fan_out` of a replica, one
action for each statement, since each commits by itself: `watchers_for_series`, `dedup_claim_many`,
the filter with its early-access lookup, `notifications_upsert_many`, the alert to the channels.
`StatementFails` ends the handler with the statement rolled back or committed, `Crash` and `Lapse` are
the replica's death, a lost answer and the broker's deadline. Readers change their watchlist entry,
preferences, early access and progress, and mark notifications read, at any time. `since`, `told` and
`muted` are history: a reader is `Lost` for a chapter when the slot is taken, nothing was announced or
muted, and no replica holds the claim any more. The live push and the display fields are left out.

### SyncMerge

One reader and one tracker; of the other readers of the group, what they share with this one.
`local` has the reader's progress, status and exclusion for each series of the group that one remote
entry stands for; `remote`, `ancestor` and `conflict` are the entry, the recorded snapshot and the
pending conflict rows. The snapshot is the freshest `last_synced_*` of the group in `sync_mappings`,
which has a row for a series and a provider and none for a reader: `OtherReader` is a `record_snapshot`
by another reader's pass, push or revert, with any pair of `Foreign`, at any time. `own` is history: the
pair that this reader's own processes recorded last. `Pass` (fetch, load, plan, write), the targeted push after an edit, and the
operator's `Resolve` and `Revert` are processes that read, plan and then carry out a sequence of
writes one by one (`todo`), with no lock between them; `Fail` drops the rest of a plan. A `Member` item
is the write-back of one member (`MirrorWrite`): the fields that are due, one step each, and then its
snapshot. `plan_merge`,
`plan_group` and `plan_mirror` are operators. `MergeAgrees` compares every plan with the rule the code
documents, written as a relation on outcomes (`Outcomes`) and not as the code computes it; the ancestor
it merges against is the recorded one, whosever.

### MatchMerge

One table of each shape the undo journal knows: re-pointed (`source`), unioned with DO NOTHING
(`titles`, `watch`) and folded with DO UPDATE (`progress`). Tags, authors, mappings and deduplication
claims have the shape of `watch`, overrides and feedback that of `progress`. A merge and a revert are
one transaction each, and one step. That is an abstraction: they run at READ COMMITTED and lock no
`series` row, so that b merged into a beside a merged into c can delete the address of b with a
(`series_merges` cascades); the models' merges come one after the other. A sweep may die before it journals its merge, and the console's
merge keeps no journal at all: both are decisions in state `lost`. Which pairs look alike is left to
choice, but not which are asked for: `listed` holds the pairs on the shortlists of the passes under way.
`DrawShortlist` is the `shortlist` of a pass, without the dismissed pairs, while an older pass may still be
working on its own; `SweepMerge` merges a listed pair without asking again. The clean-up of orphans, which
opens an exhaustive sweep, has a list of its own (`find_orphan_twins`) that knows no dismissals:
`MergeTwin` merges a series without a source into one with a source and the same canonical title, and
`DeleteOrphan` is `delete_unreferenced_orphans`. `trail` is a history variable: the merges that can be unwound newest first, with nothing read,
watched or left and no older merge reverted since.

## Runs

| Run | Bounds | Shows |
|---|---|---|
| `scan_safety` | a feed with one series, 2 slots, 2 copies, 2 deliveries, 2 faults | the books survive any two failures, redeliveries and overlaps; refinement of `RunLedger` |
| `scan_liveness` | 1 slot, 1 copy, 2 deliveries, 2 faults, fair | every run ends and every message drains |
| `scan_early_finish` | a page with a series and a chained page, 2 slots, no fault | counterexample, see below |
| `scan_stuck` | an empty feed, 1 slot, 1 fault, fair | counterexample |
| `queue` | 2 providers, one added late, 2 slots, concession after 2, 1 fault, fair | one task per provider, bounded waiting, nobody starves, a shutdown drains |
| `planning` | 2 planners, streak window 2, stale after 2 ticks, 1 fault, fair | runs in flight bounded by the planners that race; the provider is never retired |
| `notify_fanout` | 2 readers, 2 providers with a common chapter, a part release, 2 replicas, 2 deliveries, 1 change, 1 fault | told once, counted right, alerted once, nobody skipped |
| `notify_lost` | 1 reader, 1 chapter, 1 replica, 1 fault | counterexample |
| `sync_merge` | 2 linked series, chapters 0 to 2, 2 statuses, 1 edit or request, 1 fault or snapshot of another reader, fair | every merge is the documented one, the sides come to rest |
| `sync_revert` | 1 series, 1 request, no fault | counterexample |
| `sync_shared` | 1 series, 1 edit, 1 snapshot of another reader | counterexample |
| `match` | 3 series, one a sourceless twin, 2 names, 1 reader, every start, 3 merges or other steps | forwarding one hop deep, exact reverts newest first, names separated, dismissed pairs off new shortlists |

The bounds are the smallest at which the interesting cases occur. A parent and a child are enough for
every race of a fan-out with itself; two slots and two copies for every overlap of two deliveries;
two deliveries for a retry and a last attempt; two faults for a failure of the recovery from a
failure. Two lanes are the least that pass each other over while a lane is blocked, a lane is opened
late and the cursor wraps; that the bound grows with the lanes and no faster is `RoundRobin`, for any
number of them. `TotalMatchesRows`, `CountersMatchRows` and the other safety properties of `ScanRun` are also
proved for all bounds, and for processes paused beyond `AGED_AFTER` (`Pauses`), which no run has.

Two planners are the least that can race, and two failed runs earn a cooldown. Two replicas with two
events of one chapter and one of another cover both races of the notifier, on the claim and on the
open row; one fault shows what redelivery recovers and `faults < MaxDeliveries` keeps the exhausted
budget apart. Two linked series are the least that can disagree with each other and with the tracker;
`sync_merge` starts from every drifted state, where passes alone must settle it, from agreement through
no series, one or both, with an edit or a request and one upset to come, and from a first sync that
disagrees, with a request to come: all three at once are out of reach. An upset is a fault or a snapshot
of another reader, who is a chapter ahead (`Foreign`), at any step. Other readers of the group have no
tables of their own: they share nothing with this one but the ancestor.

Three series are the least with a chain of merges, and two names let two series share an alias that is
the canonical title of one of them or of none; two share their canonical title, one of them without a
source, so that it can be deleted or merged as a twin. Progress is read or not (`MaxRead` = 1), so a merge
inserts a row or finds one that is as far; a fold that raises one reader's row from one chapter to another
is out of the run's reach (323 s at two) and left to the theorem `RevertsUnwind`. There is one reader,
because the journal has a row for each and no statement of a merge joins two.

Symmetry is used over slots, copies, replicas, readers and like series in safety runs only. Runs and workers
may stop, so deadlock is not checked; the liveness runs cover what must happen.

### Fairness

`ScanRun`: a process that is up takes its next step; a message is delivered in the end, strongly,
because `FairQueue` serves every lane and a lane is first in, first out; ack deadlines lapse; the
scheduler starts a reconciler pass again and again, and rows and runs do not stay young, hence the
strong fairness of the passes that find all aged rows. Failures are never fair. `FairQueue`: the
loop runs, a task ends (its fetches have timeouts), and a lane refresh falls due again and again.
`RunPlanning`: time passes, a plan is carried on with, and some replica that leads sweeps again and
again, strongly, because a tick that falls into a cooldown does nothing and the next one comes.
Nothing makes a run end, nor a trigger come. `SyncMerge`: passes are scheduled again and again, some push
that was asked for starts (of several owed ones, any), and a plan's next write is carried out. Edits,
requests, failures and other readers' snapshots are never fair. `Notifier` and `MatchMerge` are checked for safety only.

### Counterexamples

* `scan_early_finish`: the reconciler reads its rows before its backlog, so that a message acked in
  between makes the deficit too large, and it republishes the oldest open row: a page that is being
  executed. `claim_task` takes rows that are already claimed, as a redelivery after a crash requires,
  so both deliveries execute, although comments in both `reconcile.rs` files say that the second one
  is declined. The second then finds a chunk's rows inserted by
  the first and goes on to complete the page before the first has counted them. The run completes
  with a task queued, which the comment on `enqueue_child` rules out. `CompletesSettled` is what does
  hold: the run can end early only while a row is missing from `total_tasks`.
* `scan_stuck`: a planner that dies between `create_task` and `add_total_tasks` leaves
  `total_tasks = 0`. `fail_unplanned_runs` wants a run without rows, `finalize_if_complete` a run
  with a total, so neither closes it. `RunSettles` shows that this is the only such state.
* `sync_revert`: the revert of a push restores the tracker's entry and records it as what both sides
  agreed on. The reader's side still has the pushed value, so the next pass sees a local change and
  pushes it again. The comment in `revert_push` says the record is what makes the revert stick.
* `sync_shared`: `sync_mappings` keeps the last synced pair by series and provider (`snapshots.rs`,
  migrations 0005 and 0014), so any reader's pass, push or revert overwrites what every other reader of
  the series merges against. A reader un-reads a chapter; before the next pass another reader's pass
  records a pair of their own; the next pass finds that this reader's side differs from that pair and
  so does the tracker's, and pulls over the edit, or queues a conflict that is none. The comment on
  `SyncSnapshot` says the snapshot is there to tell which side has changed. What does hold: each merge is
  the documented one against the recorded pair (`MergeAgrees`), a reader's own processes record only what
  their tracker has held (`RecordedWasHeld`), and the two sides still come to rest (`ComesToRest`), on
  one side's value or the other's.
* `notify_lost`: the claim commits, a later statement of the fan-out fails, and the redelivery finds
  the claim taken and acks. The comment in `run_consumer` says that the claim makes redelivery safe;
  `ToldOnce` is the half of it that holds, `LossNeedsFault` says that nothing is lost without a fault.

Met on the way, and without a run of their own: `run_task` acks a task whose `complete_task` failed,
though its log line and the comment on `complete_task` count on a redelivery (the reconciler recovers
it, which `RunSettles` checks); `start_run` and `finish_run` have no guard on the run's state, so a
cancellation that falls between `create_run` and `start_run` is undone; a terminal event whose
publish fails after the run was finalised is never published.

* Planning: "at most one in-flight run per mode" (`planning.rs`) holds up to planners that race;
  `InFlightBounded` is what there is.
* Notifier: a locked chapter claims its readers' slots, so that the same chapter found free at another
  provider is announced to nobody; the channels are alerted again when a second provider's event claims
  a reader who began to watch in between, which the comment "once per genuinely-new chapter" leaves
  open; a chapter whose publish failed is announced by no later scan of that source.
* Sync: a push or a pull writes what its process read, so a chapter marked in between can be un-read
  until the next edit; a conflict is resolved with the values of its first detection. Nothing keeps a
  manual and a scheduled pass of one account apart; one pass at a time is modelled.
* Matching: reverting two merges into one survivor in the order they were made leaves the survivor
  with the first one's progress and can take away a watchlist entry that the second also brought, and
  `check_revertible` admits it, hence "newest first" in `UnwindsExactly`. Once a merge has been reverted
  out of turn, even newest first no longer restores what was there: with four series, merge a, c and d
  into b and revert c's, then d's, then a's (`trail` starts anew with the revert out of turn). Dismissals live in rows that
  are deleted with either series, so that absorbing one of the pair elsewhere and reverting forgets
  the "permanent" suppression, hence the exception in `SeparatedStaysApart`. The clean-up of orphans
  asks no dismissal at all: `find_orphan_twins` (`pairs.rs`) goes by title and sources, so a reverted
  merge of a sourceless series into its twin is done again by the next exhaustive sweep, with no third
  series in it, although the comment on `revert_merge_decision` has "every sweep shortlist" exclude the
  pair. A pass that drew its shortlist before the dismissal merges the pair as well. Hence
  `SeparatedStaysApart` is about the lists a pass draws and not about merges; `MergeTwin` is an action,
  and the other properties hold across it. The statement that reopens the candidates of a reverted merge
  finds none, since they went with the series; an operator's merge cannot be reverted, and neither can
  an earlier merge whose survivor it absorbed; a journal that names a deleted account can never be applied.

## Proofs

Every invariant and every action property that a run checks is also a theorem, for every value of the
constants that meets the named assumption of its module, with one exception (`MergeAgrees`).

### The scan run

Assumed of the constants (`ScanRunAssumption`): tasks and copies are finite, the root is a task and
nobody's child, `MaxDeliveries` is at least one. Nothing is assumed of the number of slots or faults.

1. `TypeCorrect`: `TypeOK` is inductive.
2. The other invariants are not inductive by themselves: from `TotalMatchesRows` alone, a step that
   counts a chunk could count rows that another process is about to count too. `IInv` adds that a
   row waiting to be counted exists and waits in one place only (`UncountedInv`), that a slot about
   to create a chunk has one (`BatchInv`), and that nothing is inserted, stored or delivered before
   the root (`RootFirst`).
3. `Implements`: under `IInv` every step maps to a step of `RunLedger` or to a stutter, one lemma for
   each group of actions.
4. `RunLedger` proves its own balance (`LedgerBalanced`), that a completed run has no open row
   unless one is uncounted (`LedgerCompletesSettled`, from the cardinalities of the sets of settled
   and counted rows) and that settled rows stay (`LedgerSettledIsFinal`). `CountersCorrect`,
   `TotalCorrect`, `SettledRowsFinal` and `CompletionSettled` carry these over to the run.
5. `CancelCountsNothing` and `TerminalOnce` rest on invariants of their own: no slot executes an open
   row of a cancelled run, and after a terminal event the run is not running and its planner is past
   the steps that could restart it.

### The fair queue

Assumed (`FairQueueAssumption`): the providers have a finite slug order without repetition; the limit,
the depth of a lane and the concession are at least one.

* `QueueTypeCorrect` needs `QueueInv`: a round in progress has a tier to poll and no more pulls left
  than that tier has free lanes, so `next_free_lane` finds one. It holds because `busy` stands
  still while a round goes on and a pull that serves ends the round.
* `OneTaskEach` needs that a round in progress has room below the limit (`TaskInv`).
* `RoundRobin`: all that the tier serves of other lanes while one could be served is less than the number
  of lanes. The lane's count, plus the turns it is still behind the cursor, is less than the number
  of lanes (`PassInv`). A turn of another lane moves one from the second to the first; opening a lane
  appends it, and the distances of the others grow by no more than the bound does. The
  lemmas on turns and distances are arithmetic modulo the number of lanes.
* `FullTierServed`: a fast task is taken with the streak at the concession only after the full tier was
  polled first in the same round; by then every free full lane has been pulled and found empty, so
  that nothing is owed to it (`OwedInv`).

### Planning

Assumed (`PlanningAssumption`): planners are finitely many and there is one; windows and ages are at
least one. `CoalescingBound` needs `PlanInv`, which counts three things at once: runs in flight, runs
that their planner is still dispatching (a cancelled one comes back with `start_run`), and planners
that have passed their check. `Trim` keeps the runs it keeps apart and in order (`SelectedFrom`).

### The notifier

Assumed (`NotifierAssumption`): readers, providers, chapters and replicas are finite, chapters are
numbers, `MaxDeliveries` is at least one.

* `ReadersToldOnce` from `ClaimInv`: claims are in the table, held by one replica at a time, and those
  not yet announced are to readers who have not been told.
* `NotificationsSumUp` from it: a write adds a chapter the row does not list, so count and range stay
  those of a set (`SumsUp`, with the cardinality of a set that grows by one).
* `AlertsStandForClaims`: alerts are bounded by the slots that are taken and no longer held (`AlertInv`).
* `NoLossWithoutFault`: without a fault whoever is in the table was told, has muted the series or is
  about to be told by the replica that holds the claim (`LossInv`).
* `SettledAreClaimed`: a message is delivered at most once more than things have failed
  (`DeliveryInv`), so a budget that is spent means that many faults; otherwise its ack comes after a
  claim of everybody it was for (`SettledInv`).

### Sync

Assumed (`SyncAssumption`): the group is a non-empty sequence of different series, the policies are
the four there are, and other readers record pairs. `SnapshotsHeld` needs `HeldInv`: what this reader's
processes recorded last was held by the tracker, and whatever a plan has still to record was held too,
or is saved by an earlier write of the same plan. Of the shared ancestor `HeldInv` says only that it
is a pair: no plan depends on where it came from, since a merge records what it fetched or saved. The plan of a merge that saves nothing
agrees on the fetched pair (`AgreedFetched`, from `three_way`: a side that is not pushed is pulled,
equal or in conflict). A failure drops the end of a plan, so the invariant survives it; the settle of
a push computes its items from rows read then, but its pair from what was saved.

### Matching

Assumed (`MatchAssumption`): finite sets of series, names, sources and readers.

* `ForwardingOneHop` from `ForwardInv`: the merges in force have each an absent series of their own,
  each journal's re-addressed ids are closed under the other merges, and an absorbed id is addressed
  to its survivor or to where that went.
* `SeparatedPairsStayApart` from `Separated`: the dismissal of a reverted pair stands, or a third series
  has absorbed one of the two since, or one of them is gone and comes back, if at all, by a revert of the
  pair itself, which dismisses it anew. Deletions of orphans, twins merged again and merges from older
  shortlists are cases of the proof, which uses `ForwardInv`. `RevertsSeparate` from the journal's two series
  being different.
* `RevertsUnwind` from `TrailInv`: the merges on the trail are one chain of states that ends in the
  tables as they are. Attempting the proof with the earlier, weaker notion of "newest first" led to
  the counterexample on four series above.

### Only model-checked

`RunSettles`, `MessagesDrain`, `ProviderServed`, `ShutdownDrains`, `ProviderRescanned` and
`ComesToRest` are liveness under fairness, which the prover does not reach. `MergeAgrees` carries out a
plan of any length (`FoldLeft`), and what a fold computes needs an induction over the plan. The runs
that expect a violation show what does not hold, so there is nothing to prove about them.

## Plan

1. `MergeAgrees` for every group: state the outcome of a plan cell by cell (the last write to it), so
   that the comparison with the documented rule needs no fold, and prove it.
2. `SessionRotation`: raced rotations of one token family, with the row locks of the statements.
3. The operator's queue edits (`clear_failures`, `skip_task`) as further actions of `ScanRun`, and the
   part frontier of `progress_mark_read` and `progress_mark_unread`.

## Not modelled

The map covers a small part of the repository, and most of the rest has no state to check. The
largest file is the generated API client (`crates/api-client`, 43 thousand lines); the web frontend,
its desktop shell and installer are user interface; the adapters, the solver and the renderer parse
third-party pages and drive a browser; the API handlers and the catalogue queries read and format
rows; `xtask` is build tooling. The matcher's scores and the recommender are arithmetic over strings
and vectors, flags and tunables cached reads. The fetch stack appears in `ScanRun` as an answer or a
failure. The parts that are modelled are those in which several processes write the same rows.
