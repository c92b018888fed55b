----------------------------- MODULE FairQueue -----------------------------
(***************************************************************************)
(* One worker process: the consumer loop of run_consumer and the           *)
(* prioritised round-robin queue it takes tasks from.  A lane is one       *)
(* provider's durable consumer in one tier (scan mode).  A round pulls the *)
(* lanes one at a time, and messages arrive and tasks finish between any   *)
(* two pulls, while `busy` stays what the loop last made it.               *)
(***************************************************************************)
EXTENDS Integers, Sequences, FiniteSets

CONSTANTS
    Sorted,         \* every provider slug, in slug order
    Late,           \* the providers added while the worker runs
    Limit,          \* max_concurrent_providers
    FullTierEvery,  \* FULL_TIER_EVERY
    MaxDepth,       \* bound: messages waiting in one lane
    MaxFaults       \* bound: failed pulls, lane openings and reads, and undecodable messages

ASSUME FairQueueAssumption ==
    /\ Sorted \in Seq({Sorted[i] : i \in DOMAIN Sorted})
    /\ \A i, j \in DOMAIN Sorted : i # j => Sorted[i] # Sorted[j]
    /\ Late \subseteq {Sorted[i] : i \in DOMAIN Sorted}
    /\ Limit \in Nat \ {0}
    /\ FullTierEvery \in Nat \ {0}
    /\ MaxDepth \in Nat \ {0}
    /\ MaxFaults \in Nat

Provider == {Sorted[i] : i \in DOMAIN Sorted}

\* How the providers in S are listed in slug order.
InSlugOrder(S) ==
    {t \in [1..Cardinality(S) -> S] :
        \A i, j \in DOMAIN t : i < j =>
            \E a, b \in DOMAIN Sorted : a < b /\ Sorted[a] = t[i] /\ Sorted[b] = t[j]}

Mode     == {"fast", "full"}

VARIABLES
    known,      \* providers in the database, or with a consumer left in the stream
    depth,      \* messages waiting in each lane's consumer
    lanes,      \* the lanes of each tier, in the order they were opened
    cursor,     \* each tier's cursor
    streak,     \* fast_streak; only compared with FullTierEvery, so it saturates there
    pc,         \* where the consumer loop is
    order,      \* tiers the current round has still to poll, the current one first
    free,       \* pulls left in the current tier
    busy,       \* providers the loop holds to be in flight
    running,    \* tasks of each provider that are running
    finished,   \* tasks of each provider that have ended and are not yet joined
    shutdown,   \* the cancellation token
    faults,
    passed,     \* history: serves of other lanes of the tier while a lane was waiting
    owed        \* history: fast serves in a row while a full lane was waiting

vars == <<known, depth, lanes, cursor, streak, pc, order, free, busy, running, finished,
          shutdown, faults, passed, owed>>

loopVars == <<pc, order, free>>
laneVars == <<known, lanes>>
turnVars == <<cursor, streak>>
taskVars == <<busy, running, finished>>
history  == <<passed, owed>>

-----------------------------------------------------------------------------
Inflight(p) == running[p] + finished[p]
LaneSet(m)  == {lanes[m][i] : i \in DOMAIN lanes[m]}
FreeLanes(m) == {i \in DOMAIN lanes[m] : lanes[m][i] \notin busy}

\* Providers with a task in flight: what inflight.len() counts, at one task per provider.
InflightProviders == {p \in Provider : Inflight(p) > 0}

\* Variant: strict priority.
tier_order_strict == <<"fast", "full">>
tier_order == IF streak >= FullTierEvery THEN <<"full", "fast">> ELSE <<"fast", "full">>

\* take_turn, as often as next_free_lane calls it: the lane k turns after the cursor.
Turn(m, k) == (cursor[m] + k) % Len(lanes[m])

\* Variant: every round starts at the first lane.
next_lane_of_round(m) ==
    LET n == Len(lanes[m])
        Free(k) == lanes[m][k + 1] \notin busy
    IN  CHOOSE k \in 0..(n - 1) : Free(k) /\ \A j \in 0..(k - 1) : ~Free(j)

\* Variant: the lane whose turn it is, in flight or not.
next_lane_even_if_busy(m) == Turn(m, 0)

\* The first lane from the cursor on whose provider is not in flight, counted from 0.
next_free_lane(m) ==
    LET n == Len(lanes[m])
        Free(k) == lanes[m][Turn(m, k) + 1] \notin busy
    IN  Turn(m, CHOOSE k \in 0..(n - 1) : Free(k) /\ \A j \in 0..(k - 1) : ~Free(j))

\* A lane that could be served: it is open, holds a message, and its provider is free.
Waiting(m, p) == p \in LaneSet(m) /\ depth[m][p] > 0 /\ p \notin busy

Fault == faults < MaxFaults /\ faults' = faults + 1

\* Variant: the slug rides back as the task's output, and a panic loses it.
release_on_return_only(S) ==
    /\ finished' = [p \in Provider |-> IF p \in S THEN 0 ELSE finished[p]]
    /\ UNCHANGED <<busy, running>>

\* release, for the tasks of the providers in S, whether they returned or panicked.
release(S) ==
    /\ busy' = busy \ S
    /\ finished' = [p \in Provider |-> IF p \in S THEN 0 ELSE finished[p]]
    /\ UNCHANGED running

-----------------------------------------------------------------------------
(* The loop.                                                               *)

\* refresh_lanes: a lane for every provider in fast and in full, behind the ones there are.
OpenLanes(fast, full) ==
    \E s \in InSlugOrder(fast \ LaneSet("fast")), t \in InSlugOrder(full \ LaneSet("full")) :
        lanes' = [m \in Mode |-> lanes[m] \o (IF m = "fast" THEN s ELSE t)]

\* poll_round begins: tier_order, and the count of the first tier's free lanes.
BeginRound(ls, tiers, nowBusy) ==
    /\ pc' = "poll"
    /\ order' = tiers
    /\ free' = Cardinality({i \in DOMAIN ls[tiers[1]] : ls[tiers[1]][i] \notin nowBusy})

\* poll_round returns.
EndRound(next) == pc' = next /\ order' = << >> /\ free' = 0

\* The top of the loop joins what has ended.
Ended == {p \in Provider : finished[p] > 0}

\* The loop sees the cancellation and starts to drain.
BeginDrain ==
    /\ pc = "loop"
    /\ shutdown
    /\ pc' = "drain"
    /\ UNCHANGED <<order, free, depth, faults, shutdown>>
    /\ UNCHANGED <<laneVars, turnVars, taskVars, history>>

\* Every slot is taken: wait for a task to end.
AwaitSlot ==
    /\ pc = "loop"
    /\ ~shutdown
    /\ Cardinality(InflightProviders \ Ended) >= Limit
    /\ release(Ended)
    /\ pc' = "full"
    /\ UNCHANGED <<order, free, depth, faults, shutdown>>
    /\ UNCHANGED <<laneVars, turnVars, history>>

\* try_next, while the lanes are not due for a refresh.
StartRound ==
    /\ pc = "loop"
    /\ ~shutdown
    /\ Cardinality(InflightProviders \ Ended) < Limit
    /\ release(Ended)
    /\ BeginRound(lanes, tier_order, busy')
    /\ UNCHANGED <<depth, faults, shutdown>> /\ UNCHANGED <<laneVars, turnVars, history>>

\* try_next, after a refresh that opened every lane it wanted.
RefreshAndStart ==
    /\ pc = "loop"
    /\ ~shutdown
    /\ Cardinality(InflightProviders \ Ended) < Limit
    /\ release(Ended)
    /\ OpenLanes(known, known)
    /\ BeginRound(lanes', tier_order, busy')
    /\ UNCHANGED <<known, depth, faults, shutdown>> /\ UNCHANGED <<turnVars, history>>

\* A read or a lane fails: some lanes open now and the others at a later refresh.
PartialRefresh(S) ==
    /\ pc = "loop"
    /\ ~shutdown
    /\ Cardinality(InflightProviders \ Ended) < Limit
    /\ S \subseteq known
    /\ Fault
    /\ release(Ended)
    /\ \E T \in SUBSET known : OpenLanes(S, T)
    /\ BeginRound(lanes', tier_order, busy')
    /\ UNCHANGED <<known, depth, shutdown>> /\ UNCHANGED <<turnVars, history>>

\* The current tier has nothing left to offer: the next tier, or an empty round.
NextTier ==
    /\ pc = "poll"
    /\ free = 0
    /\ \/ /\ Len(order) > 1
          /\ order' = Tail(order)
          /\ free' = Cardinality(FreeLanes(order[2]))
          /\ UNCHANGED pc
       \/ /\ Len(order) = 1
          /\ EndRound("idle")
    /\ UNCHANGED <<depth, faults, shutdown>> /\ UNCHANGED <<laneVars, turnVars, taskVars, history>>

\* The lane whose turn it is, and the cursor past it.
Lane == lanes[order[1]][next_free_lane(order[1]) + 1]

\* Variant: take_turn without the modulo on write.
TurnTakenUnwrapped ==
    cursor' = [cursor EXCEPT ![order[1]] = next_free_lane(order[1]) + 1]

TurnTaken ==
    cursor' = [cursor EXCEPT ![order[1]] = (next_free_lane(order[1]) + 1) % Len(lanes[order[1]])]

\* take_one finds the lane empty.
PullEmpty ==
    /\ pc = "poll" /\ free > 0
    /\ depth[order[1]][Lane] = 0
    /\ TurnTaken
    /\ free' = free - 1
    /\ UNCHANGED <<pc, order, streak, depth, faults, shutdown>>
    /\ UNCHANGED <<laneVars, taskVars, history>>

\* take_one fails: the lane's turn is spent and the round goes on.
PullFails ==
    /\ pc = "poll" /\ free > 0
    /\ Fault
    /\ TurnTaken
    /\ free' = free - 1
    /\ passed' = [passed EXCEPT ![order[1]][Lane] = 0]
    /\ owed' = IF order[1] = "full" THEN [owed EXCEPT ![Lane] = 0] ELSE owed
    /\ UNCHANGED <<pc, order, streak, depth, shutdown>> /\ UNCHANGED <<laneVars, taskVars>>

\* The streak counts what was served, not what was offered.
StreakAfter(m) ==
    IF m = "full" THEN 0 ELSE IF streak < FullTierEvery THEN streak + 1 ELSE streak

\* History: lane q of tier m is served.
Recorded(m, q) ==
    /\ passed' = [n \in Mode |-> [p \in Provider |->
          IF p = q \/ ~Waiting(n, p) THEN 0 ELSE IF n = m THEN passed[n][p] + 1 ELSE passed[n][p]]]
    /\ owed' = [p \in Provider |->
          IF m = "full" \/ p = q \/ ~Waiting("full", p) THEN 0 ELSE owed[p] + 1]

\* take_one finds a message: the round ends and the task is spawned.
Serve ==
    /\ pc = "poll" /\ free > 0
    /\ depth[order[1]][Lane] > 0
    /\ TurnTaken
    /\ streak' = StreakAfter(order[1])
    /\ depth' = [depth EXCEPT ![order[1]][Lane] = @ - 1]
    /\ busy' = busy \union {Lane}
    /\ running' = [running EXCEPT ![Lane] = @ + 1]
    /\ EndRound("loop")
    /\ Recorded(order[1], Lane)
    /\ UNCHANGED <<finished, faults, shutdown>> /\ UNCHANGED laneVars

\* The message does not decode: it is acked and dropped, and nothing is spawned.
DropUndecodable ==
    /\ pc = "poll" /\ free > 0
    /\ depth[order[1]][Lane] > 0
    /\ Fault
    /\ TurnTaken
    /\ streak' = StreakAfter(order[1])
    /\ depth' = [depth EXCEPT ![order[1]][Lane] = @ - 1]
    /\ EndRound("loop")
    /\ Recorded(order[1], Lane)
    /\ UNCHANGED shutdown /\ UNCHANGED <<laneVars, taskVars>>

\* Variant: the drain does not join.
JoinOneBeforeShutdown(p) ==
    /\ pc \in {"idle", "full"}
    /\ finished[p] > 0
    /\ release({p})
    /\ pc' = "loop"
    /\ UNCHANGED <<order, free, depth, faults, shutdown>>
    /\ UNCHANGED <<laneVars, turnVars, history>>

\* wait_while_idle, and the wait for a slot: a task that has ended is joined at once.
JoinOne(p) ==
    /\ pc \in {"idle", "full", "drain"}
    /\ finished[p] > 0
    /\ release({p})
    /\ pc' = IF pc = "drain" THEN "drain" ELSE "loop"
    /\ UNCHANGED <<order, free, depth, faults, shutdown>>
    /\ UNCHANGED <<laneVars, turnVars, history>>

\* The backoff lapses, or the shutdown wakes the wait.
IdleLapses ==
    /\ pc = "idle"
    /\ pc' = "loop"
    /\ UNCHANGED <<order, free, depth, faults, shutdown>>
    /\ UNCHANGED <<laneVars, turnVars, taskVars, history>>

\* Nothing is in flight any more and the worker stops.
Stop ==
    /\ pc = "drain"
    /\ InflightProviders = {}
    /\ pc' = "stopped"
    /\ UNCHANGED <<order, free, depth, faults, shutdown>>
    /\ UNCHANGED <<laneVars, turnVars, taskVars, history>>

-----------------------------------------------------------------------------
(* What happens around the loop.                                           *)

\* run_task returns or panics.
Finish(p) ==
    /\ running[p] > 0
    /\ running' = [running EXCEPT ![p] = @ - 1]
    /\ finished' = [finished EXCEPT ![p] = @ + 1]
    /\ UNCHANGED <<busy, depth, faults, shutdown>>
    /\ UNCHANGED <<loopVars, laneVars, turnVars, history>>

\* A task is published to a lane.
Arrive(m, p) ==
    /\ p \in known
    /\ depth[m][p] < MaxDepth
    /\ depth' = [depth EXCEPT ![m][p] = @ + 1]
    /\ UNCHANGED <<known, lanes, faults, shutdown>>
    /\ UNCHANGED <<loopVars, turnVars, taskVars, history>>

\* Another worker pulls the same consumer and takes the message.
TakenElsewhere(m, p) ==
    /\ depth[m][p] > 0
    /\ depth' = [depth EXCEPT ![m][p] = @ - 1]
    /\ passed' = [passed EXCEPT ![m][p] = 0]
    /\ owed' = IF m = "full" THEN [owed EXCEPT ![p] = 0] ELSE owed
    /\ UNCHANGED <<known, lanes, faults, shutdown>>
    /\ UNCHANGED <<loopVars, turnVars, taskVars>>

\* A provider is added.
AddProvider(p) ==
    /\ p \notin known
    /\ known' = known \union {p}
    /\ UNCHANGED <<lanes, depth, faults, shutdown>>
    /\ UNCHANGED <<loopVars, turnVars, taskVars, history>>

RequestShutdown ==
    /\ ~shutdown
    /\ shutdown' = TRUE
    /\ UNCHANGED <<depth, faults>>
    /\ UNCHANGED <<loopVars, laneVars, turnVars, taskVars, history>>

\* FairQueue::open, with whatever lanes it could open.
Init ==
    /\ known = Provider \ Late
    /\ depth = [m \in Mode |-> [p \in Provider |-> 0]]
    /\ \E fast, full \in SUBSET known :
          /\ \E s \in InSlugOrder(fast), t \in InSlugOrder(full) :
                lanes = [m \in Mode |-> IF m = "fast" THEN s ELSE t]
          /\ faults = IF fast = known /\ full = known THEN 0 ELSE 1
    /\ faults <= MaxFaults
    /\ cursor = [m \in Mode |-> 0]
    /\ streak = 0
    /\ pc = "loop" /\ order = << >> /\ free = 0
    /\ busy = {}
    /\ running = [p \in Provider |-> 0]
    /\ finished = [p \in Provider |-> 0]
    /\ shutdown = FALSE
    /\ passed = [m \in Mode |-> [p \in Provider |-> 0]]
    /\ owed = [p \in Provider |-> 0]

Loop ==
    \/ BeginDrain \/ AwaitSlot \/ StartRound \/ RefreshAndStart
    \/ NextTier \/ PullEmpty \/ Serve \/ IdleLapses \/ Stop
    \/ \E p \in Provider : JoinOne(p)

Failures == PullFails \/ DropUndecodable \/ \E S \in SUBSET Provider : PartialRefresh(S)

Next ==
    \/ Loop
    \/ Failures
    \/ \E p \in Provider : Finish(p) \/ AddProvider(p)
    \/ \E m \in Mode, p \in Provider : Arrive(m, p) \/ TakenElsewhere(m, p)
    \/ RequestShutdown

Spec == Init /\ [][Next]_vars

\* The loop runs, every task ends, and the refresh falls due time and again.
Fairness ==
    /\ WF_vars(Loop)
    /\ \A p \in Provider : WF_vars(Finish(p))
    /\ SF_vars(RefreshAndStart)

FairSpec == Spec /\ Fairness

-----------------------------------------------------------------------------
(* Properties.                                                             *)

\* Types; the cursor of a tier is always one of its lanes.
TypeOK ==
    /\ known \in SUBSET Provider
    /\ depth \in [Mode -> [Provider -> 0..MaxDepth]]
    /\ \A m \in Mode : LaneSet(m) \subseteq known /\ cursor[m] \in {0} \union 0..(Len(lanes[m]) - 1)
    /\ streak \in 0..FullTierEvery
    /\ pc \in {"loop", "full", "poll", "idle", "drain", "stopped"}
    /\ order \in {<< >>, <<"fast">>, <<"full">>, <<"fast", "full">>, <<"full", "fast">>}
    /\ free \in 0..Len(Sorted)
    /\ busy \in SUBSET Provider
    /\ running \in [Provider -> Nat] /\ finished \in [Provider -> Nat]
    /\ faults \in 0..MaxFaults

\* A provider never has two tasks in flight in one worker, the worker never exceeds its limit,
\* and the loop's `busy` is never stale about a provider it could serve: a provider stays in
\* it exactly as long as its task is in flight, even if the task panics.
OneTaskPerProvider ==
    /\ \A p \in Provider : Inflight(p) <= 1
    /\ Cardinality(InflightProviders) <= Limit
    /\ busy = InflightProviders

\* Round robin: while a lane could be served all along, its tier serves the other lanes less often,
\* all of them together, than the tier has lanes, whatever is in flight and whichever lanes are opened.
BoundedWaiting ==
    \A m \in Mode : \A p \in LaneSet(m) : passed[m][p] < Len(lanes[m])

\* The fast tier's debt: while one full lane could be served all along, at most
\* FULL_TIER_EVERY fast tasks in a row are taken ahead of the full tier.
FullTierNotStarved == \A p \in Provider : owed[p] <= FullTierEvery

\* A provider with a message waiting in an open or yet unopened lane is scanned, however many
\* messages the other providers and the other tier have queued and whichever of its own tasks
\* have just ended or panicked.  Another worker may take the message, and a shutdown ends it.
ProviderServed ==
    \A m \in Mode, p \in Provider :
        depth[m][p] > 0 ~> running[p] > 0 \/ depth[m][p] = 0 \/ shutdown

\* A shutdown ends: the loop never waits for something that has already happened.
ShutdownDrains == shutdown ~> pc = "stopped"
=============================================================================
