------------------------- MODULE RunPlanningProofs -------------------------
(***************************************************************************)
(* Proofs about RunPlanning: the rows keep their types, and the runs in    *)
(* flight are no more than the planners, for any number of planners, any   *)
(* window, cooldown and staleness.                                         *)
(*                                                                         *)
(* InFlightBounded is not inductive: a run that was cancelled while its    *)
(* planner is between create_run and start_run is not in flight, yet       *)
(* start_run brings it back, and a planner that has passed its check adds  *)
(* a run whatever is in flight by then.  PlanInv counts all three: the     *)
(* runs in flight or still being dispatched, and the planners past their   *)
(* check, are together at most the planners.  A check that finds nothing   *)
(* in flight keeps that, because every run that still counts belongs to a  *)
(* planner of its own, and that planner is not checking.                   *)
(***************************************************************************)
EXTENDS RunPlanning

\* Rows that are in flight, or that a planner is dispatching.
Counts(run) == in_flight(run) \/ run.by # None
Counting(s) == {i \in DOMAIN s : Counts(s[i])}

\* Planners that are about to create a run.
Checked == {p \in Planner : stage[p] = "checked"}

\* A planner dispatches one run.
OneEach(s) == \A i, j \in DOMAIN s : i # j /\ s[i].by # None => s[i].by # s[j].by

Places ==
    /\ stage \in [Planner -> {"idle", "planning", "checked"}]
    /\ runs \in Seq(Run)
    /\ faults \in 0..MaxFaults
    /\ OneEach(runs)
    /\ \A i \in DOMAIN runs : runs[i].by # None => stage[runs[i].by] = "idle"

PlanInv == Places /\ Cardinality(Counting(runs)) + Cardinality(Checked) <= Cardinality(Planner)

-----------------------------------------------------------------------------
(* Rows.                                                                   *)

\* A row is left with its planner, and is not in flight again.
LEMMA AtRestKeeps ==
    ASSUME NEW run \in Run
    PROVE  AtRest(run) \in Run /\ AtRest(run).by = run.by /\ (Counts(AtRest(run)) => Counts(run))
<1>1. StaleAfter \in Nat \ {0} /\ 0 \in 0..StaleAfter /\ StaleAfter \in 0..StaleAfter
  BY PlanningAssumption
<1>2. CASE Settled(run)
  <2>1. AtRest(run) = [run EXCEPT !.age = 0, !.tasks = "none"]
    BY <1>2 DEF AtRest
  <2>2. AtRest(run) \in Run /\ AtRest(run).by = run.by /\ AtRest(run).state = run.state
    BY <1>1, <2>1 DEF Run
  <2> QED
    BY <1>2, <2>2 DEF Settled, Counts, in_flight
<1>3. CASE ~Settled(run) /\ run.tasks = "settled"
  <2>1. AtRest(run) = [run EXCEPT !.age = StaleAfter]
    BY <1>3 DEF AtRest
  <2>2. AtRest(run) \in Run /\ AtRest(run).by = run.by /\ AtRest(run).tasks = "settled"
    BY <1>1, <1>3, <2>1 DEF Run
  <2> QED
    BY <1>3, <2>2 DEF Counts, in_flight
<1>4. CASE ~Settled(run) /\ run.tasks # "settled"
  BY <1>4 DEF AtRest
<1> QED
  BY <1>2, <1>3, <1>4

\* The rows of a table that count are finitely many.
LEMMA CountingFinite ==
    ASSUME NEW s \in Seq(Run)
    PROVE  IsFiniteSet(Counting(s)) /\ Cardinality(Counting(s)) \in Nat
<1>1. Len(s) \in Nat /\ Counting(s) \in SUBSET (1..Len(s)) /\ IsFiniteSet(1..Len(s))
  BY FS_Interval DEF Counting
<1> QED
  BY <1>1, FS_Subset, FS_CardinalityType

\* A table whose rows come from different rows of another, with the same planners and none back in
\* flight, counts no more.
LEMMA FewerCount ==
    ASSUME NEW s \in Seq(Run), NEW t \in Seq(Run), NEW f \in [DOMAIN t -> DOMAIN s],
           \A n, m \in DOMAIN t : n # m => f[n] # f[m],
           \A n \in DOMAIN t : Counts(t[n]) => Counts(s[f[n]])
    PROVE  Cardinality(Counting(t)) <= Cardinality(Counting(s))
<1>1. PICK g : g = [n \in Counting(t) |-> f[n]]
  OBVIOUS
<1>2. g \in [Counting(t) -> Counting(s)]
  BY <1>1 DEF Counting
<1>3. g \in Injection(Counting(t), Counting(s))
  BY <1>1, <1>2 DEF Injection, IsInjective, Counting
<1> QED
  BY <1>3, CountingFinite, FS_Injection

\* Trimming a table: what stays are rows of it, at rest.
LEMMA TrimKeeps ==
    ASSUME NEW s \in Seq(Run), OneEach(s)
    PROVE  /\ Trim(s) \in Seq(Run) /\ OneEach(Trim(s))
           /\ \A n \in DOMAIN Trim(s) : \E i \in DOMAIN s : Trim(s)[n].by = s[i].by
           /\ Cardinality(Counting(Trim(s))) <= Cardinality(Counting(s))
<1>1. PICK K \in SUBSET DOMAIN s : Trim(s) = Selected([i \in DOMAIN s |-> AtRest(s[i])], K)
  BY DEF Trim
<1>2. PICK u : u = [i \in DOMAIN s |-> AtRest(s[i])]
  OBVIOUS
<1>3. u \in Seq(Run) /\ DOMAIN u = DOMAIN s /\ \A i \in DOMAIN s : u[i] = AtRest(s[i])
  <2>1. \A i \in DOMAIN s : AtRest(s[i]) \in Run
    BY AtRestKeeps
  <2>2. DOMAIN s = 1..Len(s) /\ Len(s) \in Nat
    OBVIOUS
  <2>3. u \in [1..Len(s) -> Run]
    BY <1>2, <2>1, <2>2
  <2> QED
    BY <1>2, <2>2, <2>3
<1>4. PICK t : t = Trim(s)
  OBVIOUS
<1>5. /\ t \in Seq(Run) /\ DOMAIN t = 1..Cardinality(K)
      /\ \A n \in DOMAIN t : Nth(K, n) \in K /\ t[n] = u[Nth(K, n)]
      /\ \A n, m \in DOMAIN t : n # m => Nth(K, n) # Nth(K, m)
  <2>1. t = Selected(u, K) /\ K \in SUBSET DOMAIN u
    BY <1>1, <1>2, <1>3, <1>4
  <2>2. /\ Selected(u, K) \in Seq(Run)
        /\ DOMAIN Selected(u, K) = 1..Cardinality(K)
        /\ \A n \in 1..Cardinality(K) : Nth(K, n) \in K /\ Selected(u, K)[n] = u[Nth(K, n)]
        /\ \A n, m \in 1..Cardinality(K) : n # m => Nth(K, n) # Nth(K, m)
    BY <1>3, <2>1, SelectedFrom
  <2> QED
    BY <2>1, <2>2
<1>6. \A n \in DOMAIN t : Nth(K, n) \in DOMAIN s /\ t[n] = AtRest(s[Nth(K, n)]) /\ s[Nth(K, n)] \in Run
  BY <1>3, <1>5
<1>7. \A n \in DOMAIN t : t[n].by = s[Nth(K, n)].by /\ (Counts(t[n]) => Counts(s[Nth(K, n)]))
  BY <1>6, AtRestKeeps
<1>8. OneEach(t)
  BY <1>5, <1>6, <1>7 DEF OneEach
<1>9. PICK f \in [DOMAIN t -> DOMAIN s] : \A n \in DOMAIN t : f[n] = Nth(K, n)
  <2>1. [n \in DOMAIN t |-> Nth(K, n)] \in [DOMAIN t -> DOMAIN s]
    BY <1>6
  <2> QED
    BY <2>1
<1>10. Cardinality(Counting(t)) <= Cardinality(Counting(s))
  <2>1. \A n, m \in DOMAIN t : n # m => f[n] # f[m]
    BY <1>5, <1>9
  <2>2. \A n \in DOMAIN t : Counts(t[n]) => Counts(s[f[n]])
    BY <1>7, <1>9
  <2> QED
    BY <1>5, <2>1, <2>2, FewerCount
<1> QED
  BY <1>4, <1>5, <1>6, <1>7, <1>8, <1>10

-----------------------------------------------------------------------------
(* Steps.                                                                  *)

\* Planners past their check are finitely many.
LEMMA CheckedFinite == IsFiniteSet(Checked) /\ Cardinality(Checked) \in Nat /\ Cardinality(Planner) \in Nat
  BY PlanningAssumption, FS_Subset, FS_CardinalityType DEF Checked

\* The rows are those of a table with the same planners at work or fewer, that counts no more.
LEMMA RowsReplaced ==
    ASSUME PlanInv, NEW s \in Seq(Run), DOMAIN s = DOMAIN runs,
           \A j \in DOMAIN runs : s[j].by \in {None, runs[j].by} /\ (Counts(s[j]) => Counts(runs[j])),
           runs' = s \/ runs' = Trim(s)
    PROVE  /\ runs' \in Seq(Run) /\ OneEach(runs')
           /\ \A n \in DOMAIN runs' : \E j \in DOMAIN runs : runs'[n].by \in {None, runs[j].by}
           /\ Cardinality(Counting(runs')) \in Nat /\ Cardinality(Counting(runs)) \in Nat
           /\ Cardinality(Counting(runs')) <= Cardinality(Counting(runs))
<1>1. runs \in Seq(Run) /\ OneEach(runs)
  BY DEF PlanInv, Places
<1>2. OneEach(s)
  BY <1>1 DEF OneEach
<1>3. Cardinality(Counting(s)) <= Cardinality(Counting(runs))
  <2>1. PICK f : f = [j \in DOMAIN s |-> j]
    OBVIOUS
  <2>2. f \in [DOMAIN s -> DOMAIN runs] /\ \A j \in DOMAIN s : f[j] = j
    BY <2>1
  <2>3. \A j \in DOMAIN s : Counts(s[j]) => Counts(runs[f[j]])
    BY <2>2
  <2> QED
    BY <1>1, <2>2, <2>3, FewerCount
<1>4. /\ runs' \in Seq(Run) /\ OneEach(runs')
      /\ \A n \in DOMAIN runs' : \E j \in DOMAIN s : runs'[n].by = s[j].by
      /\ Cardinality(Counting(runs')) <= Cardinality(Counting(s))
  <2>1. CASE runs' = s
    <3>1. Cardinality(Counting(s)) \in Nat
      BY CountingFinite
    <3> QED
      BY <1>2, <2>1, <3>1
  <2>2. CASE runs' = Trim(s)
    BY <1>2, <2>2, TrimKeeps
  <2> QED
    BY <2>1, <2>2
<1>5. /\ Cardinality(Counting(runs')) \in Nat /\ Cardinality(Counting(s)) \in Nat
      /\ Cardinality(Counting(runs)) \in Nat
  BY <1>1, <1>4, CountingFinite
<1>6. Cardinality(Counting(runs')) <= Cardinality(Counting(runs))
  BY <1>3, <1>4, <1>5
<1> QED
  BY <1>4, <1>5, <1>6

\* A step that writes one row keeps the count if the row counted, or does not.
LEMMA UpdateKeeps ==
    ASSUME PlanInv, NEW i \in DOMAIN runs, NEW run \in Run, Update(i, run),
           run.by \in {None, runs[i].by}, Counts(run) => Counts(runs[i]),
           UNCHANGED stage, faults' \in 0..MaxFaults
    PROVE  PlanInv'
<1>1. runs \in Seq(Run) /\ OneEach(runs)
  BY DEF PlanInv, Places
<1>2. PICK s : s = [runs EXCEPT ![i] = run]
  OBVIOUS
<1>3. s \in Seq(Run) /\ DOMAIN s = DOMAIN runs /\ \A j \in DOMAIN runs : s[j] = IF j = i THEN run ELSE runs[j]
  BY <1>1, <1>2
<1>4. runs' = Trim(s)
  BY <1>2 DEF Update
<1>5. /\ runs' \in Seq(Run) /\ OneEach(runs')
      /\ \A n \in DOMAIN runs' : \E j \in DOMAIN runs : runs'[n].by \in {None, runs[j].by}
      /\ Cardinality(Counting(runs')) \in Nat /\ Cardinality(Counting(runs)) \in Nat
      /\ Cardinality(Counting(runs')) <= Cardinality(Counting(runs))
  BY <1>3, <1>4, RowsReplaced
<1>6. \A n \in DOMAIN runs' : runs'[n].by # None => stage[runs'[n].by] = "idle"
  BY <1>5 DEF PlanInv, Places
<1>7. Places' /\ Checked' = Checked
  BY <1>5, <1>6 DEF PlanInv, Places, Checked
<1>8. Cardinality(Counting(runs')) + Cardinality(Checked) <= Cardinality(Planner)
  BY <1>5, CheckedFinite DEF PlanInv
<1> QED
  BY <1>7, <1>8 DEF PlanInv

\* A planner goes somewhere else than past its check.
LEMMA StageKeeps ==
    ASSUME PlanInv, NEW p \in Planner, NEW at \in {"idle", "planning"},
           stage' = [stage EXCEPT ![p] = at], UNCHANGED runs, faults' \in 0..MaxFaults,
           at = "planning" => ~Busy(p)
    PROVE  PlanInv'
<1>1. stage' \in [Planner -> {"idle", "planning", "checked"}] /\ \A q \in Planner : stage'[q] = IF q = p THEN at ELSE stage[q]
  BY DEF PlanInv, Places
<1>2. \A i \in DOMAIN runs : runs[i].by \in Planner \union {None}
  <2>1. \A i \in DOMAIN runs : runs[i] \in Run
    BY DEF PlanInv, Places
  <2> QED
    BY <2>1 DEF Run
<1>3. \A i \in DOMAIN runs : runs[i].by # None => stage'[runs[i].by] = "idle"
  BY <1>1, <1>2 DEF PlanInv, Places, Busy
<1>4. Places'
  BY <1>1, <1>3 DEF PlanInv, Places
<1>5. Checked' \in SUBSET Checked
  BY <1>1 DEF Checked
<1>6. Cardinality(Checked') <= Cardinality(Checked) /\ Cardinality(Checked') \in Nat
  BY <1>5, CheckedFinite, FS_Subset, FS_CardinalityType
<1>7. Cardinality(Counting(runs)) \in Nat
  BY CountingFinite DEF PlanInv, Places
<1>8. Cardinality(Counting(runs)) + Cardinality(Checked') <= Cardinality(Planner)
  BY <1>6, <1>7, CheckedFinite DEF PlanInv
<1> QED
  BY <1>4, <1>8 DEF PlanInv

\* Time passes.
LEMMA TickKeeps ==
    ASSUME PlanInv, Tick
    PROVE  PlanInv'
<1>1. runs \in Seq(Run) /\ StaleAfter \in Nat \ {0} /\ MaxCooldown \in Nat
  BY PlanningAssumption DEF PlanInv, Places
<1>2. DOMAIN runs = 1..Len(runs) /\ Len(runs) \in Nat /\ DOMAIN runs' = DOMAIN runs
  <2>1. DOMAIN runs' = DOMAIN runs
    BY DEF Tick
  <2> QED
    BY <1>1, <2>1
<1>3. ASSUME NEW i \in DOMAIN runs
      PROVE  /\ runs'[i] \in Run /\ runs'[i].by = runs[i].by
             /\ Counts(runs'[i]) => Counts(runs[i])
  <2>1. PICK r \in Run : r = runs[i]
    BY <1>1
  <2>2. PICK a, b : /\ a = IF Settled(r) \/ r.age = StaleAfter THEN r.age ELSE r.age + 1
                    /\ b = IF r.state \in Open \/ r.since = MaxCooldown THEN r.since ELSE r.since + 1
    OBVIOUS
  <2>3. runs'[i] = [r EXCEPT !.age = a, !.since = b]
    BY <2>1, <2>2 DEF Tick
  <2>4. r.age \in 0..StaleAfter /\ r.since \in 0..MaxCooldown
    BY DEF Run
  <2>5. a \in 0..StaleAfter /\ b \in 0..MaxCooldown /\ a >= r.age
    BY <1>1, <2>2, <2>4
  <2>6. /\ runs'[i] \in Run /\ runs'[i].by = r.by /\ runs'[i].state = r.state /\ runs'[i].tasks = r.tasks
        /\ runs'[i].age = a
    BY <2>3, <2>5 DEF Run
  <2>7. a < StaleAfter => r.age < StaleAfter
    BY <1>1, <2>4, <2>5
  <2> QED
    BY <2>1, <2>6, <2>7 DEF Counts, in_flight
<1>4. runs' \in Seq(Run)
  <2>1. runs' \in [1..Len(runs) -> Run]
    BY <1>2, <1>3 DEF Tick
  <2> QED
    BY <1>2, <2>1
<1>5. PICK s \in Seq(Run) : s = runs'
  BY <1>4
<1>6. /\ OneEach(runs')
      /\ \A n \in DOMAIN runs' : runs'[n].by = runs[n].by
      /\ Cardinality(Counting(runs')) \in Nat /\ Cardinality(Counting(runs)) \in Nat
      /\ Cardinality(Counting(runs')) <= Cardinality(Counting(runs))
  <2>1. \A j \in DOMAIN runs : s[j].by \in {None, runs[j].by} /\ (Counts(s[j]) => Counts(runs[j]))
    BY <1>3, <1>5
  <2> QED
    BY <1>2, <1>3, <1>5, <2>1, RowsReplaced
<1>7. Places' /\ Checked' = Checked
  BY <1>2, <1>4, <1>6 DEF PlanInv, Places, Tick, Checked
<1>8. Cardinality(Counting(runs')) + Cardinality(Checked) <= Cardinality(Planner)
  BY <1>6, CheckedFinite DEF PlanInv
<1> QED
  BY <1>7, <1>8 DEF PlanInv

\* A replica dies, and its planner starts again from nothing.
LEMMA CrashKeeps ==
    ASSUME PlanInv, NEW p \in Planner, Crash(p)
    PROVE  PlanInv'
<1>1. runs \in Seq(Run) /\ DOMAIN runs = 1..Len(runs) /\ Len(runs) \in Nat
  BY DEF PlanInv, Places
<1>2. PICK s : s = [i \in DOMAIN runs |-> IF runs[i].by = p THEN [runs[i] EXCEPT !.by = None] ELSE runs[i]]
  OBVIOUS
<1>3. ASSUME NEW i \in DOMAIN runs
      PROVE  /\ s[i] \in Run /\ s[i].by \in {None, runs[i].by} /\ s[i].by # p
             /\ Counts(s[i]) => Counts(runs[i])
  <2>1. PICK r \in Run : r = runs[i]
    BY <1>1
  <2>2. CASE r.by = p
    <3>1. s[i] = [r EXCEPT !.by = None]
      BY <1>2, <2>1, <2>2
    <3>2. /\ s[i] \in Run /\ s[i].by = None /\ s[i].state = r.state /\ s[i].tasks = r.tasks
          /\ s[i].age = r.age
      BY <3>1 DEF Run
    <3> QED
      BY <2>1, <3>2, PlanningAssumption DEF Counts, in_flight
  <2>3. CASE r.by # p
    <3>1. s[i] = r
      BY <1>2, <2>1, <2>3
    <3> QED
      BY <2>1, <2>3, <3>1
  <2> QED
    BY <2>2, <2>3
<1>4. s \in Seq(Run) /\ DOMAIN s = DOMAIN runs
  <2>1. s \in [1..Len(runs) -> Run]
    BY <1>1, <1>2, <1>3
  <2> QED
    BY <1>1, <2>1
<1>5. runs' = Trim(s)
  BY <1>2 DEF Crash
<1>6. /\ runs' \in Seq(Run) /\ OneEach(runs')
      /\ \A n \in DOMAIN runs' : \E j \in DOMAIN s : runs'[n].by = s[j].by
  <2>1. OneEach(s)
    BY <1>3, <1>4 DEF OneEach, PlanInv, Places
  <2> QED
    BY <1>4, <1>5, <2>1, TrimKeeps
<1>7. /\ Cardinality(Counting(runs')) \in Nat /\ Cardinality(Counting(runs)) \in Nat
      /\ Cardinality(Counting(runs')) <= Cardinality(Counting(runs))
  BY <1>3, <1>4, <1>5, RowsReplaced
<1>8. stage' \in [Planner -> {"idle", "planning", "checked"}] /\ \A q \in Planner : stage'[q] = IF q = p THEN "idle" ELSE stage[q]
  BY DEF PlanInv, Places, Crash
<1>9. ASSUME NEW n \in DOMAIN runs', runs'[n].by # None
      PROVE  stage'[runs'[n].by] = "idle"
  <2>1. PICK j \in DOMAIN s : runs'[n].by = s[j].by
    BY <1>6
  <2>2. s[j].by = runs[j].by /\ runs[j].by # None
    BY <1>3, <1>4, <1>9, <2>1
  <2>3. runs[j].by \in Planner
    <3>1. runs[j] \in Run
      BY <1>1, <1>4
    <3> QED
      BY <2>2, <3>1 DEF Run
  <2>4. stage[runs[j].by] = "idle"
    BY <1>4, <2>2 DEF PlanInv, Places
  <2> QED
    BY <1>8, <2>1, <2>2, <2>3, <2>4
<1>10. faults' \in 0..MaxFaults
  BY PlanningAssumption DEF Crash, Fault, PlanInv, Places
<1>11. Places'
  BY <1>6, <1>8, <1>9, <1>10 DEF Places
<1>12. Cardinality(Checked') <= Cardinality(Checked) /\ Cardinality(Checked') \in Nat
  <2>1. Checked' \in SUBSET Checked
    BY <1>8 DEF Checked
  <2> QED
    BY <2>1, CheckedFinite, FS_Subset, FS_CardinalityType
<1>13. Cardinality(Counting(runs')) + Cardinality(Checked') <= Cardinality(Planner)
  BY <1>7, <1>12, CheckedFinite DEF PlanInv
<1> QED
  BY <1>11, <1>13 DEF PlanInv

\* in_flight_run finds nothing: the rows that still count belong to planners of their own, which are
\* neither the one that checks nor one that has checked.
LEMMA CheckKeeps ==
    ASSUME PlanInv, NEW p \in Planner, Check(p)
    PROVE  PlanInv'
<1>1. CASE Coalesces
  <2>1. stage' = [stage EXCEPT ![p] = "idle"] /\ UNCHANGED runs /\ faults' \in 0..MaxFaults
    BY <1>1 DEF Check, PlanInv, Places
  <2> QED
    BY <2>1, StageKeeps
<1>2. CASE ~Coalesces
  <2>1. stage' = [stage EXCEPT ![p] = "checked"] /\ UNCHANGED runs /\ stage[p] = "planning" /\ UNCHANGED faults
    BY <1>2 DEF Check
  <2>2. /\ stage' \in [Planner -> {"idle", "planning", "checked"}]
        /\ \A q \in Planner : stage'[q] = IF q = p THEN "checked" ELSE stage[q]
    BY <2>1 DEF PlanInv, Places
  <2>3. ASSUME NEW i \in Counting(runs)
        PROVE  i \in DOMAIN runs /\ runs[i].by \in Planner \ Checked' /\ stage[runs[i].by] = "idle"
    <3>1. i \in DOMAIN runs /\ runs[i].by # None
      BY <1>2 DEF Counting, Counts, Coalesces, InFlight
    <3>2. runs[i] \in Run
      BY <3>1 DEF PlanInv, Places
    <3>3. runs[i].by \in Planner /\ stage[runs[i].by] = "idle"
      BY <3>1, <3>2 DEF Run, PlanInv, Places
    <3> QED
      BY <2>1, <2>2, <3>1, <3>3 DEF Checked
  <2>4. \A i \in DOMAIN runs : runs[i].by # None => stage'[runs[i].by] = "idle"
    <3>1. ASSUME NEW i \in DOMAIN runs, runs[i].by # None PROVE runs[i].by \in Planner /\ stage[runs[i].by] = "idle"
      <4>1. runs[i] \in Run
        BY DEF PlanInv, Places
      <4> QED
        BY <3>1, <4>1 DEF Run, PlanInv, Places
    <3> QED
      BY <2>1, <2>2, <3>1
  <2>5. PICK g : g = [i \in Counting(runs) |-> runs[i].by]
    OBVIOUS
  <2>6. PICK F : F = Planner \ Checked'
    OBVIOUS
  <2>7. g \in Injection(Counting(runs), F)
    <3>1. g \in [Counting(runs) -> F]
      BY <2>3, <2>5, <2>6
    <3>2. \A i, j \in Counting(runs) : i # j => g[i] # g[j]
      <4>1. \A i \in Counting(runs) : i \in DOMAIN runs /\ runs[i].by # None
        BY <2>3, PlanningAssumption
      <4> QED
        BY <2>5, <4>1 DEF PlanInv, Places, OneEach
    <3> QED
      BY <3>1, <3>2 DEF Injection, IsInjective
  <2>8. PICK C \in SUBSET Planner : C = Checked'
    BY DEF Checked
  <2>9. IsFiniteSet(Planner) /\ IsFiniteSet(C) /\ IsFiniteSet(F)
    BY <2>6, PlanningAssumption, FS_Subset
  <2>10. Cardinality(F) = Cardinality(Planner) - Cardinality(C)
    <3>1. Cardinality(Planner \ C) = Cardinality(Planner) - Cardinality(Planner \intersect C)
      BY <2>9, FS_Difference
    <3>2. Planner \intersect C = C
      OBVIOUS
    <3> QED
      BY <2>6, <2>8, <3>1, <3>2
  <2>11. Cardinality(Counting(runs)) <= Cardinality(F)
    BY <2>7, <2>9, FS_Injection
  <2>12. Cardinality(Counting(runs)) \in Nat
    BY CountingFinite DEF PlanInv, Places
  <2>13. Cardinality(Planner) \in Nat /\ Cardinality(C) \in Nat /\ Cardinality(F) \in Nat
    BY <2>9, FS_CardinalityType
  <2>14. Cardinality(Counting(runs)) + Cardinality(C) <= Cardinality(Planner)
    BY <2>10, <2>11, <2>12, <2>13
  <2>15. Places'
    BY <2>1, <2>2, <2>4 DEF PlanInv, Places
  <2> QED
    BY <2>1, <2>8, <2>14, <2>15 DEF PlanInv
<1> QED
  BY <1>1, <1>2

\* create_run: a planner past its check becomes a row that counts.
LEMMA CreateKeeps ==
    ASSUME PlanInv, NEW p \in Planner, CreateRun(p)
    PROVE  PlanInv'
<1>1. runs \in Seq(Run) /\ OneEach(runs) /\ Len(runs) \in Nat /\ DOMAIN runs = 1..Len(runs)
  BY DEF PlanInv, Places
<1>2. PICK r : r = [state |-> "queued", age |-> 0, since |-> 0, tasks |-> "none", by |-> p]
  OBVIOUS
<1>3. r \in Run /\ r.by = p
  BY <1>2, PlanningAssumption DEF Run, Open
<1>4. PICK s : s = Append(runs, r)
  OBVIOUS
<1>5. /\ s \in Seq(Run) /\ DOMAIN s = 1..(Len(runs) + 1) /\ s[Len(runs) + 1] = r
      /\ \A i \in DOMAIN runs : s[i] = runs[i]
  BY <1>1, <1>3, <1>4
<1>6. \A i \in DOMAIN runs : runs[i].by # p
  BY PlanningAssumption DEF CreateRun, PlanInv, Places
<1>7. \A i \in DOMAIN s : i \in DOMAIN runs \/ i = Len(runs) + 1
  BY <1>1, <1>5
<1>8. OneEach(s)
  <2> SUFFICES ASSUME NEW i \in DOMAIN s, NEW j \in DOMAIN s, i # j, s[i].by # None
               PROVE  s[i].by # s[j].by
    BY DEF OneEach
  <2>1. CASE i \in DOMAIN runs /\ j \in DOMAIN runs
    BY <1>1, <1>5, <2>1 DEF OneEach
  <2>2. CASE i = Len(runs) + 1 /\ j \in DOMAIN runs
    BY <1>3, <1>5, <1>6, <2>2
  <2>3. CASE i \in DOMAIN runs /\ j = Len(runs) + 1
    BY <1>3, <1>5, <1>6, <2>3
  <2> QED
    BY <1>7, <2>1, <2>2, <2>3
<1>9. runs' = Trim(s)
  BY <1>2, <1>4 DEF CreateRun
<1>10. /\ runs' \in Seq(Run) /\ OneEach(runs')
       /\ \A n \in DOMAIN runs' : \E j \in DOMAIN s : runs'[n].by = s[j].by
       /\ Cardinality(Counting(runs')) <= Cardinality(Counting(s))
  BY <1>5, <1>8, <1>9, TrimKeeps
<1>11. Cardinality(Counting(s)) <= Cardinality(Counting(runs)) + 1
  <2>1. PICK T : T = Counting(runs)
    OBVIOUS
  <2>2. Counting(s) \in SUBSET (T \union {Len(runs) + 1})
    BY <1>5, <1>7, <2>1 DEF Counting
  <2>3. IsFiniteSet(T) /\ Len(runs) + 1 \notin T
    BY <1>1, <2>1, CountingFinite DEF Counting
  <2>4. IsFiniteSet(T \union {Len(runs) + 1}) /\ Cardinality(T \union {Len(runs) + 1}) = Cardinality(T) + 1
    BY <2>3, FS_AddElement
  <2>5. Cardinality(Counting(s)) <= Cardinality(T \union {Len(runs) + 1})
    BY <2>2, <2>4, FS_Subset
  <2> QED
    BY <2>1, <2>4, <2>5
<1>12. /\ stage' \in [Planner -> {"idle", "planning", "checked"}] /\ stage[p] = "checked"
       /\ \A q \in Planner : stage'[q] = IF q = p THEN "idle" ELSE stage[q]
  BY DEF CreateRun, PlanInv, Places
<1>13. ASSUME NEW n \in DOMAIN runs', runs'[n].by # None
       PROVE  stage'[runs'[n].by] = "idle"
  <2>1. PICK j \in DOMAIN s : runs'[n].by = s[j].by
    BY <1>10
  <2>2. CASE j = Len(runs) + 1
    BY <1>3, <1>5, <1>12, <2>1, <2>2
  <2>3. CASE j \in DOMAIN runs
    <3>1. s[j] = runs[j] /\ runs[j] \in Run /\ runs[j].by # None
      BY <1>1, <1>5, <1>13, <2>1, <2>3
    <3>2. runs[j].by \in Planner /\ stage[runs[j].by] = "idle"
      BY <2>3, <3>1 DEF Run, PlanInv, Places
    <3> QED
      BY <1>12, <2>1, <3>1, <3>2
  <2> QED
    BY <1>7, <2>2, <2>3
<1>14. Places'
  BY <1>10, <1>12, <1>13 DEF PlanInv, Places, CreateRun
<1>15. Cardinality(Checked') = Cardinality(Checked) - 1
  <2>1. PICK C : C = Checked
    OBVIOUS
  <2>2. Checked' = C \ {p} /\ p \in C /\ IsFiniteSet(C)
    BY <1>12, <2>1, CheckedFinite DEF Checked
  <2> QED
    BY <2>1, <2>2, FS_RemoveElement
<1>16. /\ Cardinality(Counting(runs')) \in Nat /\ Cardinality(Counting(runs)) \in Nat
       /\ Cardinality(Counting(s)) \in Nat
  BY <1>1, <1>5, <1>10, CountingFinite
<1>17. Cardinality(Counting(runs')) + Cardinality(Checked') <= Cardinality(Planner)
  BY <1>10, <1>11, <1>15, <1>16, CheckedFinite DEF PlanInv
<1> QED
  BY <1>14, <1>17 DEF PlanInv

\* What happens to one row.
LEMMA RowSteps ==
    ASSUME PlanInv, NEW i \in DOMAIN runs,
           StartRun(i) \/ Dispatch(i) \/ DispatchFails(i) \/ TasksSettle(i) \/ Close(i) \/ Cancel(i)
    PROVE  PlanInv'
<1>1. runs[i] \in Run /\ faults \in 0..MaxFaults
  BY DEF PlanInv, Places
<1>2. 0 \in 0..MaxCooldown /\ None \notin Planner
  BY PlanningAssumption
<1>3. CASE StartRun(i)
  <2>1. PICK run : run = [runs[i] EXCEPT !.state = "running", !.since = 0]
    OBVIOUS
  <2>2. run \in Run /\ run.by = runs[i].by
    BY <1>1, <1>2, <2>1 DEF Run, Open
  <2>3. Update(i, run) /\ runs[i].by # None /\ UNCHANGED <<stage, faults>>
    BY <1>3, <2>1 DEF StartRun
  <2> QED
    BY <1>1, <2>2, <2>3, UpdateKeeps DEF Counts
<1>4. CASE Dispatch(i)
  <2>1. PICK run : run = [runs[i] EXCEPT !.tasks = "open", !.by = None]
    OBVIOUS
  <2>2. run \in Run /\ run.by = None
    BY <1>1, <2>1 DEF Run
  <2>3. Update(i, run) /\ runs[i].by # None /\ UNCHANGED <<stage, faults>>
    BY <1>4, <2>1 DEF Dispatch
  <2> QED
    BY <1>1, <2>2, <2>3, UpdateKeeps DEF Counts
<1>5. CASE DispatchFails(i)
  <2>1. PICK tasks \in {"none", "open"}, state \in {runs[i].state, "failed"} :
            Update(i, [runs[i] EXCEPT !.tasks = tasks, !.state = state, !.since = 0, !.by = None])
    BY <1>5 DEF DispatchFails
  <2>2. PICK run : run = [runs[i] EXCEPT !.tasks = tasks, !.state = state, !.since = 0, !.by = None]
    OBVIOUS
  <2>3. run \in Run /\ run.by = None
    BY <1>1, <1>2, <2>2 DEF Run, Finished
  <2>4. Update(i, run) /\ runs[i].by # None /\ UNCHANGED stage /\ faults' \in 0..MaxFaults
    BY <1>1, <1>5, <2>1, <2>2, PlanningAssumption DEF DispatchFails, Fault
  <2> QED
    BY <2>3, <2>4, UpdateKeeps DEF Counts
<1>6. CASE TasksSettle(i)
  <2>1. PICK run : run = [runs[i] EXCEPT !.tasks = "settled"]
    OBVIOUS
  <2>2. run \in Run /\ run.by = runs[i].by /\ run.tasks = "settled"
    BY <1>1, <2>1 DEF Run
  <2>3. Update(i, run) /\ UNCHANGED <<stage, faults>>
    BY <1>6, <2>1 DEF TasksSettle
  <2>4. Counts(run) => Counts(runs[i])
    BY <2>2 DEF Counts, in_flight
  <2> QED
    BY <1>1, <2>2, <2>3, <2>4, UpdateKeeps
<1>7. CASE Close(i)
  <2>1. PICK state \in Finished : Update(i, [runs[i] EXCEPT !.state = state])
    BY <1>7 DEF Close, Finished
  <2>2. PICK run : run = [runs[i] EXCEPT !.state = state]
    OBVIOUS
  <2>3. run \in Run /\ run.by = runs[i].by /\ run.state \notin Open
    BY <1>1, <2>2 DEF Run, Finished, Open
  <2>4. Update(i, run) /\ UNCHANGED <<stage, faults>>
    BY <1>7, <2>1, <2>2 DEF Close
  <2>5. Counts(run) => Counts(runs[i])
    BY <2>3 DEF Counts, in_flight
  <2> QED
    BY <1>1, <2>3, <2>4, <2>5, UpdateKeeps
<1>8. CASE Cancel(i)
  <2>1. PICK run : run = [runs[i] EXCEPT !.state = "cancelled", !.tasks = IF @ = "open" THEN "settled" ELSE @]
    OBVIOUS
  <2>2. run \in Run /\ run.by = runs[i].by /\ run.state \notin Open
    BY <1>1, <2>1 DEF Run, Open
  <2>3. Update(i, run) /\ UNCHANGED <<stage, faults>>
    BY <1>8, <2>1 DEF Cancel
  <2>4. Counts(run) => Counts(runs[i])
    BY <2>2 DEF Counts, in_flight
  <2> QED
    BY <1>1, <2>2, <2>3, <2>4, UpdateKeeps
<1> QED
  BY <1>3, <1>4, <1>5, <1>6, <1>7, <1>8

\* Every step keeps the count.
LEMMA PlanStep ==
    ASSUME PlanInv, [Next]_vars
    PROVE  PlanInv'
<1>a. faults \in 0..MaxFaults
  BY DEF PlanInv, Places
<1>1. CASE Tick
  BY <1>1, TickKeeps
<1>2. ASSUME NEW p \in Planner, Sweep(p) \/ Trigger(p) PROVE PlanInv'
  <2>1. /\ stage' = [stage EXCEPT ![p] = "planning"] /\ UNCHANGED runs /\ ~Busy(p)
        /\ faults' \in 0..MaxFaults
    BY <1>2, <1>a, PlanningAssumption DEF Sweep, Trigger, Enter, Fault
  <2> QED
    BY <2>1, StageKeeps
<1>3. ASSUME NEW p \in Planner, Crash(p) PROVE PlanInv'
  BY <1>3, CrashKeeps
<1>4. ASSUME NEW p \in Planner, Check(p) PROVE PlanInv'
  BY <1>4, CheckKeeps
<1>5. ASSUME NEW p \in Planner, CreateRun(p) PROVE PlanInv'
  BY <1>5, CreateKeeps
<1>6. ASSUME NEW p \in Planner, PlanFails(p) PROVE PlanInv'
  <2>1. stage' = [stage EXCEPT ![p] = "idle"] /\ UNCHANGED runs /\ faults' \in 0..MaxFaults
    BY <1>6, <1>a, PlanningAssumption DEF PlanFails, Fault
  <2> QED
    BY <2>1, StageKeeps
<1>7. ASSUME NEW i \in DOMAIN runs,
             StartRun(i) \/ Dispatch(i) \/ DispatchFails(i) \/ TasksSettle(i) \/ Close(i) \/ Cancel(i)
      PROVE  PlanInv'
  BY <1>7, RowSteps
<1>8. CASE UNCHANGED vars
  BY <1>8 DEF PlanInv, Places, OneEach, Counting, Checked, vars
<1> QED
  BY <1>1, <1>2, <1>3, <1>4, <1>5, <1>6, <1>7, <1>8 DEF Next, PlanRun

\* Nothing counts before the first sweep.
LEMMA PlanInit == Init => PlanInv
<1> SUFFICES ASSUME Init PROVE PlanInv
  OBVIOUS
<1>1. Places
  BY PlanningAssumption DEF Init, Places, OneEach
<1>2. Counting(runs) = {} /\ Checked = {}
  BY DEF Init, Counting, Checked
<1>3. Cardinality(Counting(runs)) = 0 /\ Cardinality(Checked) = 0
  BY <1>2, FS_EmptySet
<1> QED
  BY <1>1, <1>3, CheckedFinite DEF PlanInv

\* Every reachable state satisfies the count.
LEMMA PlanHolds == Spec => []PlanInv
  BY PlanInit, PlanStep, PTL DEF Spec

\* The rows and the planners keep their types, and a planner dispatches one run at a time (plan_run,
\* dispatch_run), for any number of planners.
THEOREM PlanningTypeCorrect == Spec => []TypeOK
<1>1. PlanInv => TypeOK
  <2> SUFFICES ASSUME PlanInv, NEW p \in Planner
               PROVE  Cardinality({i \in DOMAIN runs : runs[i].by = p}) <= 1
    BY DEF PlanInv, Places, TypeOK
  <2>1. PICK H : H = {i \in DOMAIN runs : runs[i].by = p}
    OBVIOUS
  <2>2. CASE H = {}
    BY <2>1, <2>2, FS_EmptySet
  <2>3. ASSUME NEW i \in H PROVE Cardinality(H) <= 1
    <3>1. H = {i}
      BY <2>1, <2>3, PlanningAssumption DEF PlanInv, Places, OneEach
    <3> QED
      BY <3>1, FS_Singleton
  <2> QED
    BY <2>1, <2>2, <2>3
<1> QED
  BY <1>1, PlanHolds, PTL

\* No more runs of a provider and mode are in flight than planners can race between in_flight_run and
\* create_run, whatever fails, is cancelled or is started again.
THEOREM CoalescingBound == Spec => []InFlightBounded
<1>1. PlanInv => InFlightBounded
  <2> SUFFICES ASSUME PlanInv PROVE Cardinality(InFlight) <= Cardinality(Planner)
    BY DEF InFlightBounded
  <2>1. IsFiniteSet(Counting(runs)) /\ Cardinality(Counting(runs)) \in Nat
    BY CountingFinite DEF PlanInv, Places
  <2>2. InFlight \in SUBSET Counting(runs)
    BY DEF InFlight, Counting, Counts
  <2>3. Cardinality(InFlight) <= Cardinality(Counting(runs)) /\ Cardinality(InFlight) \in Nat
    BY <2>1, <2>2, FS_Subset, FS_CardinalityType
  <2> QED
    BY <2>1, <2>3, CheckedFinite DEF PlanInv
<1> QED
  BY <1>1, PlanHolds, PTL
=============================================================================
