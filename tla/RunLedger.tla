----------------------------- MODULE RunLedger -----------------------------
(***************************************************************************)
(* What the books of one scan run promise, whoever writes to them and in   *)
(* whatever order: the scan_runs row (`state`, `total`, `done`, `failed`)  *)
(* and the scan_tasks rows (`rows`).  `counted` is the set of rows that    *)
(* total_tasks covers; the code has no such column, and ScanRun gives it a *)
(* value through its refinement mapping.                                   *)
(***************************************************************************)
EXTENDS Integers, FiniteSets, FiniteSetTheorems, TLAPS

CONSTANT Task

VARIABLES state, rows, counted, total, done, failed

vars == <<state, rows, counted, total, done, failed>>

Open     == {"queued", "claimed"}
RowState == {"absent", "done", "failed", "skipped"} \union Open

Rows       == {t \in Task : rows[t] # "absent"}
OpenRows   == {t \in Task : rows[t] \in Open}
RowsIn(st) == {t \in Task : rows[t] = st}

-----------------------------------------------------------------------------
Init ==
    /\ state = "queued"
    /\ rows = [t \in Task |-> "absent"]
    /\ counted = {}
    /\ total = 0 /\ done = 0 /\ failed = 0

\* A run is started before it has any row, whatever happened to it since it was created.
Start ==
    /\ Rows = {}
    /\ state' = "running"
    /\ UNCHANGED <<rows, counted, total, done, failed>>

\* Rows are inserted once.
Insert(S) ==
    /\ S # {} /\ S \subseteq Task \ Rows
    /\ rows' = [t \in Task |-> IF t \in S THEN "queued" ELSE rows[t]]
    /\ UNCHANGED <<state, counted, total, done, failed>>

\* Inserted rows are counted once, some time after.
Count(S) ==
    /\ S # {} /\ S \subseteq Rows \ counted
    /\ counted' = counted \union S
    /\ total' = total + Cardinality(S)
    /\ UNCHANGED <<state, rows, done, failed>>

\* A claim takes an open row, again and again if need be, of a run that is not cancelled.
Claim(t) ==
    /\ rows[t] \in Open /\ state # "cancelled"
    /\ rows' = [rows EXCEPT ![t] = "claimed"]
    /\ UNCHANGED <<state, counted, total, done, failed>>

\* An open row is settled, and counted as what it was settled as.
Complete(t) ==
    /\ rows[t] \in Open
    /\ rows' = [rows EXCEPT ![t] = "done"]
    /\ done' = done + 1
    /\ UNCHANGED <<state, counted, total, failed>>

Fail(t) ==
    /\ rows[t] \in Open
    /\ rows' = [rows EXCEPT ![t] = "failed"]
    /\ failed' = failed + 1
    /\ UNCHANGED <<state, counted, total, done>>

\* A running run whose counters say it is over is closed.
Finish ==
    /\ state = "running" /\ total > 0 /\ done + failed >= total
    /\ state' = IF done = 0 /\ failed > 0 THEN "failed" ELSE "completed"
    /\ UNCHANGED <<rows, counted, total, done, failed>>

\* The planner gives up on a run, or the reconciler fails one that nobody planned.
Abandon ==
    /\ state' = "failed"
    /\ UNCHANGED <<rows, counted, total, done, failed>>

\* A cancellation skips every open row and counts none.
Cancel ==
    /\ state \in {"queued", "running"}
    /\ state' = "cancelled"
    /\ rows' = [t \in Task |-> IF rows[t] \in Open THEN "skipped" ELSE rows[t]]
    /\ UNCHANGED <<counted, total, done, failed>>

Next ==
    \/ Start \/ Finish \/ Abandon \/ Cancel
    \/ \E S \in SUBSET Task : Insert(S) \/ Count(S)
    \/ \E t \in Task : Claim(t) \/ Complete(t) \/ Fail(t)

Spec == Init /\ [][Next]_vars

-----------------------------------------------------------------------------
\* The counters are the numbers of rows they claim to count.
Balanced ==
    /\ done = Cardinality(RowsIn("done"))
    /\ failed = Cardinality(RowsIn("failed"))
    /\ total = Cardinality(counted)

\* The inductive invariant: types, and only rows are counted.
LedgerInv ==
    /\ rows \in [Task -> RowState]
    /\ counted \subseteq Rows
    /\ Balanced

\* A run that completes while all its rows are counted has no row open.
CompletesSettled ==
    [][state = "running" /\ state' = "completed" /\ counted = Rows => OpenRows = {}]_vars

\* A settled row keeps its outcome.
SettledIsFinal ==
    [][\A t \in Task : rows[t] \in {"done", "failed", "skipped"} => rows'[t] = rows[t]]_vars

-----------------------------------------------------------------------------
\* The size of the union of two disjoint finite sets.
LEMMA DisjointUnion ==
    ASSUME NEW S, NEW T, IsFiniteSet(S), IsFiniteSet(T), S \cap T = {}
    PROVE  /\ IsFiniteSet(S \union T)
           /\ Cardinality(S \union T) = Cardinality(S) + Cardinality(T)
<1>1. Cardinality(S \cap T) = 0
  BY FS_EmptySet
<1>2. Cardinality(S) \in Nat /\ Cardinality(T) \in Nat
  BY FS_CardinalityType
<1>3. /\ IsFiniteSet(S \union T)
      /\ Cardinality(S \union T) = Cardinality(S) + Cardinality(T) - Cardinality(S \cap T)
  BY FS_Union, Zenon
<1> QED
  BY <1>1, <1>2, <1>3

\* A run begins balanced, with nothing in it.
LEMMA InitInv == IsFiniteSet(Task) /\ Init => LedgerInv
<1> SUFFICES ASSUME IsFiniteSet(Task), Init PROVE LedgerInv
  OBVIOUS
<1>1. RowsIn("done") = {} /\ RowsIn("failed") = {}
  BY DEF Init, RowsIn
<1> QED
  BY <1>1, FS_EmptySet DEF Init, LedgerInv, Balanced, RowState, Rows

\* The ledger is balanced after every step: a row is settled from an open state and counted
\* by the same step, so no order of claims, failures and cancellations counts it twice.
LEMMA NextInv == IsFiniteSet(Task) /\ LedgerInv /\ [Next]_vars => LedgerInv'
<1> SUFFICES ASSUME IsFiniteSet(Task), LedgerInv, [Next]_vars PROVE LedgerInv'
  OBVIOUS
<1>0. /\ IsFiniteSet(RowsIn("done")) /\ IsFiniteSet(RowsIn("failed")) /\ IsFiniteSet(counted)
      /\ Cardinality(RowsIn("done")) \in Nat /\ Cardinality(RowsIn("failed")) \in Nat
  <2>1. RowsIn("done") \in SUBSET Task /\ RowsIn("failed") \in SUBSET Task
        /\ counted \in SUBSET Task
    BY DEF RowsIn, LedgerInv, Rows
  <2> QED
    BY <2>1, FS_Subset, FS_CardinalityType
<1>1. CASE UNCHANGED vars
  BY <1>1 DEF vars, LedgerInv, Balanced, Rows, RowsIn
<1>2. CASE Start \/ Finish \/ Abandon
  BY <1>2 DEF Start, Finish, Abandon, LedgerInv, Balanced, Rows, RowsIn
<1>3. CASE Cancel
  <2>1. rows' \in [Task -> RowState] /\ Rows' = Rows
    BY <1>3 DEF Cancel, LedgerInv, Rows, RowState, Open
  <2>2. RowsIn("done")' = RowsIn("done") /\ RowsIn("failed")' = RowsIn("failed")
    BY <1>3 DEF Cancel, LedgerInv, RowsIn, Open
  <2> QED
    BY <1>3, <2>1, <2>2 DEF Cancel, LedgerInv, Balanced
<1>4. ASSUME NEW S \in SUBSET Task, Insert(S) PROVE LedgerInv'
  <2>1. rows' \in [Task -> RowState] /\ Rows \subseteq Rows'
    BY <1>4 DEF Insert, LedgerInv, Rows, RowState, Open
  <2>2. RowsIn("done")' = RowsIn("done") /\ RowsIn("failed")' = RowsIn("failed")
    BY <1>4 DEF Insert, LedgerInv, Rows, RowsIn
  <2> QED
    BY <1>4, <2>1, <2>2 DEF Insert, LedgerInv, Balanced
<1>5. ASSUME NEW S \in SUBSET Task, Count(S) PROVE LedgerInv'
  <2>1. counted \cap S = {}
    BY <1>5 DEF Count
  <2>2. IsFiniteSet(S) /\ Cardinality(S) \in Nat
    BY FS_Subset, FS_CardinalityType
  <2>3. Cardinality(counted \union S) = Cardinality(counted) + Cardinality(S)
    BY <1>0, <2>1, <2>2, DisjointUnion
  <2> QED
    BY <1>5, <2>3 DEF Count, LedgerInv, Balanced, Rows, RowsIn
<1>6. ASSUME NEW t \in Task, Claim(t) PROVE LedgerInv'
  <2>1. rows' \in [Task -> RowState] /\ Rows' = Rows
    BY <1>6 DEF Claim, LedgerInv, Rows, RowState, Open
  <2>2. RowsIn("done")' = RowsIn("done") /\ RowsIn("failed")' = RowsIn("failed")
    BY <1>6 DEF Claim, LedgerInv, RowsIn, Open
  <2> QED
    BY <1>6, <2>1, <2>2 DEF Claim, LedgerInv, Balanced
<1>7. ASSUME NEW t \in Task, Complete(t) PROVE LedgerInv'
  <2>1. rows' \in [Task -> RowState] /\ Rows' = Rows
    BY <1>7 DEF Complete, LedgerInv, Rows, RowState, Open
  <2>2. /\ RowsIn("done")' = RowsIn("done") \union {t} /\ t \notin RowsIn("done")
        /\ RowsIn("failed")' = RowsIn("failed")
    BY <1>7 DEF Complete, LedgerInv, RowsIn, Open
  <2>3. Cardinality(RowsIn("done")') = Cardinality(RowsIn("done")) + 1
    BY <1>0, <2>2, FS_AddElement
  <2> QED
    BY <1>7, <2>1, <2>2, <2>3 DEF Complete, LedgerInv, Balanced
<1>8. ASSUME NEW t \in Task, Fail(t) PROVE LedgerInv'
  <2>1. rows' \in [Task -> RowState] /\ Rows' = Rows
    BY <1>8 DEF Fail, LedgerInv, Rows, RowState, Open
  <2>2. /\ RowsIn("failed")' = RowsIn("failed") \union {t} /\ t \notin RowsIn("failed")
        /\ RowsIn("done")' = RowsIn("done")
    BY <1>8 DEF Fail, LedgerInv, RowsIn, Open
  <2>3. Cardinality(RowsIn("failed")') = Cardinality(RowsIn("failed")) + 1
    BY <1>0, <2>2, FS_AddElement
  <2> QED
    BY <1>8, <2>1, <2>2, <2>3 DEF Fail, LedgerInv, Balanced
<1> QED
  BY <1>1, <1>2, <1>3, <1>4, <1>5, <1>6, <1>7, <1>8 DEF Next

\* The ledger is always balanced.
THEOREM LedgerBalanced == IsFiniteSet(Task) => (Spec => []LedgerInv)
<1> SUFFICES ASSUME IsFiniteSet(Task) PROVE Spec => []LedgerInv
  OBVIOUS
<1>1. Init => LedgerInv
  BY InitInv
<1>2. LedgerInv /\ [Next]_vars => LedgerInv'
  BY NextInv
<1> QED
  BY <1>1, <1>2, PTL DEF Spec

\* If the counters say a run is over and every row is counted, every row is done or failed.
LEMMA FinishSettles ==
    ASSUME IsFiniteSet(Task), LedgerInv, Finish, counted = Rows
    PROVE  OpenRows = {}
<1> DEFINE D == RowsIn("done")
           F == RowsIn("failed")
<1>1. D \in SUBSET Task /\ F \in SUBSET Task /\ Rows \in SUBSET Task
  BY DEF RowsIn, Rows
<1>2. IsFiniteSet(D) /\ IsFiniteSet(F) /\ IsFiniteSet(Rows)
  BY <1>1, FS_Subset
<1>3. D \cap F = {} /\ D \union F \in SUBSET Rows
  BY DEF RowsIn, Rows
<1>4. IsFiniteSet(D \union F) /\ Cardinality(D \union F) = Cardinality(D) + Cardinality(F)
  BY <1>2, <1>3, DisjointUnion
<1>5. Cardinality(D \union F) >= Cardinality(Rows)
  BY <1>4 DEF Finish, LedgerInv, Balanced
<1>6. Rows = D \union F
  BY <1>2, <1>3, <1>4, <1>5, FS_Subset, FS_CardinalityType
<1> QED
  BY <1>6 DEF RowsIn, Rows, OpenRows, Open

\* Only Finish completes a run.
LEMMA CompletedByFinish ==
    ASSUME Next, state = "running", state' = "completed"
    PROVE  Finish
  BY DEF Next, Start, Finish, Abandon, Cancel, Insert, Count, Claim, Complete, Fail

\* A run completes with an open row only while some row is not counted.
THEOREM LedgerCompletesSettled == IsFiniteSet(Task) => (Spec => CompletesSettled)
<1> SUFFICES ASSUME IsFiniteSet(Task) PROVE Spec => CompletesSettled
  OBVIOUS
<1>1. LedgerInv /\ [Next]_vars
        => [state = "running" /\ state' = "completed" /\ counted = Rows => OpenRows = {}]_vars
  BY FinishSettles, CompletedByFinish
<1>2. Spec => []LedgerInv
  BY LedgerBalanced
<1> QED
  BY <1>1, <1>2, PTL DEF Spec, CompletesSettled

\* No step moves a settled row.
THEOREM LedgerSettledIsFinal == IsFiniteSet(Task) => (Spec => SettledIsFinal)
<1> SUFFICES ASSUME IsFiniteSet(Task) PROVE Spec => SettledIsFinal
  OBVIOUS
<1> DEFINE Kept == \A t \in Task : rows[t] \in {"done", "failed", "skipped"} => rows'[t] = rows[t]
<1>1. LedgerInv /\ [Next]_vars => [Kept]_vars
  <2> SUFFICES ASSUME LedgerInv, Next PROVE Kept
    OBVIOUS
  <2>1. CASE Start \/ Finish \/ Abandon \/ (\E S \in SUBSET Task : Count(S))
    BY <2>1 DEF Start, Finish, Abandon, Count
  <2>2. CASE Cancel
    BY <2>2 DEF Cancel, Open
  <2>3. CASE \E S \in SUBSET Task : Insert(S)
    BY <2>3 DEF Insert, Rows
  <2>4. CASE \E t \in Task : Claim(t) \/ Complete(t) \/ Fail(t)
    BY <2>4 DEF Claim, Complete, Fail, Open, LedgerInv
  <2> QED
    BY <2>1, <2>2, <2>3, <2>4 DEF Next
<1>2. Spec => []LedgerInv
  BY LedgerBalanced
<1> QED
  BY <1>1, <1>2, PTL DEF Spec, SettledIsFinal
=============================================================================
