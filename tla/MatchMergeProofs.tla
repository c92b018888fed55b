-------------------------- MODULE MatchMergeProofs --------------------------
(***************************************************************************)
(* Proofs about MatchMerge, for any series, names, sources, readers and    *)
(* number of steps.                                                        *)
(*                                                                         *)
(* ForwardsOneHop is not inductive. A revert takes back the addresses its  *)
(* journal lists, and whether the rest still points at something that      *)
(* exists depends on all the merges in force together. ForwardInv says of  *)
(* those that each absorbed series is absent and was absorbed once, that   *)
(* what a journal re-addressed is closed under the others (Closure), and   *)
(* that an absorbed id is addressed to its survivor or to where that went  *)
(* (Hops). SeparatedStaysApart needs to know what became of every          *)
(* dismissal (Separated). UnwindsExactly needs that the merges on the      *)
(* trail are one chain of states: each began where the one before it       *)
(* ended, and the last one ended at what the tables hold now (TrailInv).   *)
(***************************************************************************)
EXTENDS MatchMerge, FiniteSetTheorems, TLAPS

-----------------------------------------------------------------------------
(* Operators of the model.                                                 *)

\* The greater of two frontiers.
LEMMA MaxOfTwo ==
    ASSUME NEW a \in Nat, NEW b \in Nat
    PROVE  Max({a, b}) = IF a >= b THEN a ELSE b
<1>1. \E x \in {a, b} : \A y \in {a, b} : x >= y
  <2>1. CASE a >= b
    BY <2>1
  <2>2. CASE ~(a >= b)
    BY <2>2
  <2> QED
    BY <2>1, <2>2
<1>2. Max({a, b}) \in {a, b} /\ \A y \in {a, b} : Max({a, b}) >= y
  BY <1>1 DEF Max
<1> QED
  BY <1>2

\* The greater of two frontiers is one of them, hence within the bound.
LEMMA MaxFrontier ==
    ASSUME NEW a \in 0..MaxRead, NEW b \in 0..MaxRead
    PROVE  Max({a, b}) \in 0..MaxRead
<1>1. a \in Nat /\ b \in Nat
  BY MatchAssumption
<1> QED
  BY <1>1, MaxOfTwo

\* Two different series are a pair.
LEMMA PairOfTwo ==
    ASSUME NEW k, NEW d, k # d
    PROVE  Cardinality({k, d}) = 2
<1>1. IsFiniteSet({k}) /\ Cardinality({k}) = 1
  BY FS_Singleton
<1>2. Cardinality({k} \union {d}) = 2
  BY <1>1, FS_AddElement
<1>3. {k} \union {d} = {k, d}
  OBVIOUS
<1> QED
  BY <1>2, <1>3

\* What merge_series journals is an undo journal.
LEMMA JournalType ==
    ASSUME TypeOK, NEW k \in Series, NEW d \in Series, NEW state \in {"merged", "lost"}
    PROVE  Journal(k, d, state) \in Decision
<1>1. titles[d] \in SUBSET Name /\ watch[d] \in SUBSET Reader /\ progress[d] \in Frontiers
  BY DEF TypeOK
<1>2. [u \in Reader |-> IF progress[d][u] > 0 THEN progress[k][u] ELSE 0] \in Frontiers
  BY MatchAssumption DEF TypeOK, Frontiers
<1>3. Created(titles[k], Names(d)) \in SUBSET Name /\ Created(watch[k], watch[d]) \in SUBSET Reader
  BY MatchAssumption DEF TypeOK, Created, Names
<1>4. [watch |-> watch, progress |-> progress] \in [watch : [Series -> SUBSET Reader], progress : [Series -> Frontiers]]
  BY DEF TypeOK
<1>5. SourcesOf(d) \in SUBSET Source /\ {s \in Series : forward[s] = d} \in SUBSET Series
  BY DEF SourcesOf
<1> QED
  BY <1>1, <1>2, <1>3, <1>4, <1>5 DEF Journal, Decision

\* A merge appends its journal and leaves the older decisions alone.
LEMMA MergeLog ==
    ASSUME TypeOK, NEW k \in Series, NEW d \in Series, NEW state \in {"merged", "lost"},
           merge_series(k, d, state)
    PROVE  /\ log' \in Seq(Decision)
           /\ Len(log') = Len(log) + 1
           /\ DOMAIN log' = DOMAIN log \union {Len(log) + 1}
           /\ Len(log) + 1 \notin DOMAIN log
           /\ log'[Len(log) + 1] = Journal(k, d, state)
           /\ \A i \in DOMAIN log : log'[i] = log[i]
<1>1. log \in Seq(Decision) /\ Journal(k, d, state) \in Decision /\ log' = Append(log, Journal(k, d, state))
  BY JournalType DEF TypeOK, merge_series
<1> QED
  BY <1>1

\* A revert changes the state of its decision and nothing else of the log.
LEMMA RevertLog ==
    ASSUME TypeOK, NEW i \in DOMAIN log, revert_merge_decision(i)
    PROVE  /\ log' \in Seq(Decision)
           /\ DOMAIN log' = DOMAIN log
           /\ log'[i] = [log[i] EXCEPT !.state = "reverted"]
           /\ \A j \in DOMAIN log : j # i => log'[j] = log[j]
<1>1. log \in Seq(Decision) /\ log[i] \in Decision
  BY DEF TypeOK
<1>2. log' = [log EXCEPT ![i] = [log[i] EXCEPT !.state = "reverted"]]
  BY DEF revert_merge_decision
<1>3. [log[i] EXCEPT !.state = "reverted"] \in Decision
  BY <1>1 DEF Decision
<1> QED
  BY <1>1, <1>2, <1>3

\* What a revert keeps of every decision.
LEMMA RevertKeeps ==
    ASSUME TypeOK, NEW i \in DOMAIN log, revert_merge_decision(i), NEW j \in DOMAIN log
    PROVE  /\ log'[j].keep = log[j].keep
           /\ log'[j].drop = log[j].drop
           /\ log'[j].state = IF j = i THEN "reverted" ELSE log[j].state
           /\ log'[j].watch = log[j].watch
           /\ log'[j].newWatch = log[j].newWatch
           /\ log'[j].progress = log[j].progress
           /\ log'[j].was = log[j].was
           /\ log'[j].recompressed = log[j].recompressed
           /\ log'[j].past = log[j].past
<1>1. log[i] \in Decision
  BY DEF TypeOK
<1>2. CASE j = i
  <2>1. PICK e \in Decision : e = log[i]
    BY <1>1
  <2>2. PICK f : f = [e EXCEPT !.state = "reverted"]
    OBVIOUS
  <2>3. /\ f.keep = e.keep /\ f.drop = e.drop /\ f.state = "reverted" /\ f.watch = e.watch
        /\ f.newWatch = e.newWatch /\ f.progress = e.progress /\ f.was = e.was
        /\ f.recompressed = e.recompressed /\ f.past = e.past
    BY <2>2 DEF Decision
  <2>4. log'[i] = f
    BY <2>1, <2>2, RevertLog
  <2> QED
    BY <1>2, <2>1, <2>3, <2>4
<1>3. CASE j # i
  BY <1>3, RevertLog
<1> QED
  BY <1>2, <1>3

-----------------------------------------------------------------------------
(* Types.                                                                  *)

\* No decision is about a series and itself (series_merges and merge_series refuse it).
Distinct == \A i \in DOMAIN log : log[i].keep # log[i].drop

\* The fields of a decision have their types.
LEMMA DecisionFields ==
    ASSUME TypeOK, NEW i \in DOMAIN log
    PROVE  /\ log[i] \in Decision
           /\ log[i].keep \in Series /\ log[i].drop \in Series
           /\ log[i].titles \in SUBSET Name /\ log[i].watch \in SUBSET Reader
           /\ log[i].progress \in Frontiers /\ log[i].was \in Frontiers
           /\ log[i].newTitles \in SUBSET Name /\ log[i].newWatch \in SUBSET Reader
           /\ log[i].recompressed \in SUBSET Series
<1>1. log[i] \in Decision
  BY DEF TypeOK
<1> QED
  BY <1>1 DEF Decision

\* The log ends where its length says.
LEMMA LogDomain ==
    ASSUME TypeOK
    PROVE  Len(log) \in Nat /\ DOMAIN log = 1..Len(log)
  BY DEF TypeOK

\* A merge keeps the types.
LEMMA MergeType ==
    ASSUME TypeOK, Distinct, NEW k \in Series, NEW d \in Series, NEW state \in {"merged", "lost"},
           merge_series(k, d, state)
    PROVE  TypeOK' /\ Distinct'
<1> USE DEF merge_series
<1>a. k # d /\ k \in live /\ d \in live
  OBVIOUS
<1>1. live' \subseteq Series
  BY DEF TypeOK
<1>2. titles' \in [Series -> SUBSET Name]
  <2>1. titles \in [Series -> SUBSET Name] /\ Names(d) \subseteq Name
    <3>1. titles \in [Series -> SUBSET Name]
      BY DEF TypeOK
    <3>2. Canon[d] \in Name
      BY MatchAssumption
    <3> QED
      BY <3>1, <3>2 DEF Names
  <2>2. titles' = [titles EXCEPT ![k] = titles[k] \union Names(d), ![d] = {}]
    OBVIOUS
  <2> QED
    BY <2>1, <2>2
<1>3. source' \in [Source -> live']
  BY <1>a DEF TypeOK
<1>4. watch' \in [Series -> SUBSET readers']
  <2>1. watch' = [watch EXCEPT ![k] = watch[k] \union watch[d], ![d] = {}] /\ readers' = readers
    OBVIOUS
  <2>2. watch \in [Series -> SUBSET readers]
    BY DEF TypeOK
  <2> QED
    BY <2>1, <2>2
<1>5. progress' \in [Series -> Frontiers]
  <2>1. progress[k] \in Frontiers /\ progress[d] \in Frontiers
    BY DEF TypeOK
  <2>2. [u \in Reader |-> Max({progress[k][u], progress[d][u]})] \in Frontiers
    BY <2>1, MaxFrontier DEF Frontiers
  <2>3. NoRows \in Frontiers
    BY MatchAssumption DEF NoRows, Frontiers
  <2>4. progress' = [progress EXCEPT ![k] = [u \in Reader |-> Max({progress[k][u], progress[d][u]})], ![d] = NoRows]
    OBVIOUS
  <2> QED
    BY <2>2, <2>3, <2>4 DEF TypeOK
<1>6. forward' \in [Series -> Series \union {None}]
  BY DEF TypeOK, Forwarded
<1>7. \A pair \in apart' : pair \subseteq live' /\ Cardinality(pair) = 2
  BY DEF TypeOK
<1>8. readers' \subseteq Reader /\ listed' \subseteq SUBSET Series
  BY DEF TypeOK
<1>9. log' \in Seq(Decision)
  BY MergeLog
<1>10. acts' \in 0..MaxSteps
  BY DEF TypeOK
<1>11. trail' \in Seq(DOMAIN log')
  <2>1. trail \in Seq(DOMAIN log') /\ Len(log) + 1 \in DOMAIN log'
    BY MergeLog DEF TypeOK
  <2>2. trail' = Append(trail, Len(log) + 1)
    OBVIOUS
  <2> QED
    BY <2>1, <2>2
<1>12. \A s \in Series \ live' : titles'[s] = {} /\ watch'[s] = {} /\ \A u \in Reader : progress'[s][u] = 0
  <2> SUFFICES ASSUME NEW s \in Series \ live'
               PROVE  titles'[s] = {} /\ watch'[s] = {} /\ \A u \in Reader : progress'[s][u] = 0
    OBVIOUS
  <2>1. CASE s = d
    <3>1. progress'[s] = NoRows /\ titles'[s] = {} /\ watch'[s] = {}
      BY <2>1 DEF TypeOK
    <3> QED
      BY <3>1 DEF NoRows
  <2>2. CASE s # d
    <3>1. s \notin live /\ s # k
      BY <2>2
    <3>2. titles'[s] = titles[s] /\ watch'[s] = watch[s] /\ progress'[s] = progress[s]
      BY <2>2, <3>1 DEF TypeOK
    <3> QED
      BY <3>1, <3>2 DEF TypeOK
  <2> QED
    BY <2>1, <2>2
<1>13. Distinct'
  <2>1. Journal(k, d, state).keep = k /\ Journal(k, d, state).drop = d
    BY DEF Journal
  <2> QED
    BY <1>a, <2>1, MergeLog DEF Distinct
<1> QED
  BY <1>1, <1>2, <1>3, <1>4, <1>5, <1>6, <1>7, <1>8, <1>9, <1>10, <1>11, <1>12, <1>13 DEF TypeOK

\* A revert keeps the types: what goes back names accounts that exist, and both series exist again.
LEMMA RevertType ==
    ASSUME TypeOK, Distinct, NEW i \in DOMAIN log, revert_merge_decision(i)
    PROVE  TypeOK' /\ Distinct'
<1>a. PICK k \in Series, d \in Series : k = log[i].keep /\ d = log[i].drop
  BY DecisionFields
<1>b. /\ k # d /\ k \in live /\ d \notin live /\ live' = live \union {d} /\ readers' = readers /\ acts' = acts
      /\ listed' = listed
  BY <1>a DEF Distinct, revert_merge_decision, Revertible
<1>1. live' \subseteq Series
  BY <1>b DEF TypeOK
<1>2. titles' \in [Series -> SUBSET Name]
  BY DecisionFields DEF TypeOK, revert_merge_decision
<1>3. source' \in [Source -> live']
  BY <1>a, <1>b DEF TypeOK, revert_merge_decision
<1>4. watch' \in [Series -> SUBSET readers']
  <2>1. log[i].watch \subseteq readers
    BY DEF revert_merge_decision
  <2>2. watch' = [watch EXCEPT ![k] = watch[k] \ log[i].newWatch, ![d] = log[i].watch]
    BY <1>a DEF revert_merge_decision
  <2> QED
    BY <1>b, <2>1, <2>2 DEF TypeOK
<1>5. progress' \in [Series -> Frontiers]
  <2>1. progress[k] \in Frontiers /\ log[i].progress \in Frontiers /\ log[i].was \in Frontiers
    BY DecisionFields DEF TypeOK
  <2>2. Overwritten(log[i]) \in Frontiers
    BY <1>a, <2>1 DEF Overwritten, Frontiers
  <2>3. progress' = [progress EXCEPT ![k] = Overwritten(log[i]), ![d] = log[i].progress]
    BY <1>a DEF revert_merge_decision
  <2> QED
    BY <2>1, <2>2, <2>3 DEF TypeOK
<1>6. forward' \in [Series -> Series \union {None}]
  BY <1>a DEF TypeOK, revert_merge_decision, Unforwarded
<1>7. \A pair \in apart' : pair \subseteq live' /\ Cardinality(pair) = 2
  <2>1. apart' = apart \union {{k, d}}
    BY <1>a DEF revert_merge_decision, Suppressed
  <2>2. {k, d} \subseteq live' /\ Cardinality({k, d}) = 2
    BY <1>b, PairOfTwo
  <2> QED
    BY <1>b, <2>1, <2>2 DEF TypeOK
<1>8. readers' \subseteq Reader /\ acts' \in 0..MaxSteps /\ listed' \subseteq SUBSET Series
  BY <1>b DEF TypeOK
<1>9. log' \in Seq(Decision) /\ DOMAIN log' = DOMAIN log
  BY RevertLog
<1>10. trail' \in Seq(DOMAIN log')
  <2>1. trail \in Seq(DOMAIN log) /\ trail' = IF Newest(i) THEN SubSeq(trail, 1, Len(trail) - 1) ELSE <<>>
    BY DEF TypeOK, revert_merge_decision
  <2>2. ASSUME Newest(i) PROVE SubSeq(trail, 1, Len(trail) - 1) \in Seq(DOMAIN log)
    BY <2>1 DEF Newest
  <2>3. CASE Newest(i)
    BY <1>9, <2>1, <2>2, <2>3
  <2>4. CASE ~Newest(i)
    <3>1. trail' = <<>>
      BY <2>1, <2>4
    <3> QED
      BY <3>1
  <2> QED
    BY <2>3, <2>4
<1>11. \A s \in Series \ live' : titles'[s] = {} /\ watch'[s] = {} /\ \A u \in Reader : progress'[s][u] = 0
  <2> SUFFICES ASSUME NEW s \in Series, s \notin live'
               PROVE  titles'[s] = {} /\ watch'[s] = {} /\ \A u \in Reader : progress'[s][u] = 0
    OBVIOUS
  <2>0. s \in Series \ live'
    OBVIOUS
  <2>1. s \notin live /\ s # k /\ s # d
    BY <1>b
  <2>2. titles'[s] = titles[s] /\ watch'[s] = watch[s] /\ progress'[s] = progress[s]
    BY <1>a, <2>1 DEF TypeOK, revert_merge_decision
  <2> QED
    BY <2>1, <2>2 DEF TypeOK
<1>12. Distinct'
  BY <1>9, RevertKeeps DEF Distinct
<1> QED
  BY <1>1, <1>2, <1>3, <1>4, <1>5, <1>6, <1>7, <1>8, <1>9, <1>10, <1>11, <1>12 DEF TypeOK

\* What readers and scans do keeps the types.
LEMMA ActType ==
    ASSUME TypeOK, Distinct
    PROVE  /\ \A u \in Reader, s \in Series, n \in 1..MaxRead : ReadOn(u, s, n) => TypeOK' /\ Distinct'
           /\ \A u \in Reader, s \in Series : ToggleWatch(u, s) => TypeOK' /\ Distinct'
           /\ \A s \in Series, n \in Name : AddTitle(s, n) => TypeOK' /\ Distinct'
           /\ \A u \in Reader : DeleteAccount(u) => TypeOK' /\ Distinct'
           /\ \A s \in Series : DeleteOrphan(s) => TypeOK' /\ Distinct'
           /\ DrawShortlist => TypeOK' /\ Distinct'
<1>a. ASSUME Act PROVE acts' \in 0..MaxSteps
  BY <1>a, LogDomain, MatchAssumption DEF Act, MoreSteps, TypeOK
<1>b. <<>> \in Seq(DOMAIN log)
  OBVIOUS
<1>1. ASSUME NEW u \in Reader, NEW s \in Series, NEW n \in 1..MaxRead, ReadOn(u, s, n)
      PROVE  TypeOK' /\ Distinct'
  <2>1. /\ s \in live /\ progress' = [progress EXCEPT ![s] = [progress[s] EXCEPT ![u] = n]]
        /\ trail' = <<>> /\ acts' \in 0..MaxSteps
        /\ UNCHANGED <<live, titles, source, watch, forward, apart, listed, readers, log>>
    BY <1>1, <1>a DEF ReadOn
  <2>2. [progress[s] EXCEPT ![u] = n] \in Frontiers
    <3>1. progress[s] \in Frontiers /\ n \in 0..MaxRead
      BY MatchAssumption DEF TypeOK
    <3> QED
      BY <3>1 DEF Frontiers
  <2>3. progress' \in [Series -> Frontiers]
    BY <2>1, <2>2 DEF TypeOK
  <2>4. \A t \in Series \ live : progress'[t] = progress[t]
    BY <2>1 DEF TypeOK
  <2> QED
    BY <1>b, <2>1, <2>3, <2>4 DEF TypeOK, Distinct
<1>2. ASSUME NEW u \in Reader, NEW s \in Series, ToggleWatch(u, s)
      PROVE  TypeOK' /\ Distinct'
  <2>1. /\ s \in live /\ u \in readers
        /\ watch' = [watch EXCEPT ![s] = IF u \in watch[s] THEN watch[s] \ {u} ELSE watch[s] \union {u}]
        /\ trail' = <<>> /\ acts' \in 0..MaxSteps
        /\ UNCHANGED <<live, titles, source, progress, forward, apart, listed, readers, log>>
    BY <1>2, <1>a DEF ToggleWatch
  <2>2. watch' \in [Series -> SUBSET readers]
    BY <2>1 DEF TypeOK
  <2>3. \A t \in Series \ live : watch'[t] = watch[t]
    BY <2>1 DEF TypeOK
  <2> QED
    BY <1>b, <2>1, <2>2, <2>3 DEF TypeOK, Distinct
<1>3. ASSUME NEW s \in Series, NEW n \in Name, AddTitle(s, n)
      PROVE  TypeOK' /\ Distinct'
  <2>1. /\ s \in live /\ titles' = [titles EXCEPT ![s] = titles[s] \union {n}] /\ acts' \in 0..MaxSteps
        /\ UNCHANGED <<live, source, watch, progress, forward, apart, listed, readers, log, trail>>
    BY <1>3, <1>a DEF AddTitle
  <2>2. titles' \in [Series -> SUBSET Name]
    BY <2>1 DEF TypeOK
  <2>3. \A t \in Series \ live : titles'[t] = titles[t]
    BY <2>1 DEF TypeOK
  <2> QED
    BY <2>1, <2>2, <2>3 DEF TypeOK, Distinct
<1>4. ASSUME NEW u \in Reader, DeleteAccount(u)
      PROVE  TypeOK' /\ Distinct'
  <2>1. /\ readers' = readers \ {u}
        /\ watch' = [s \in Series |-> watch[s] \ {u}]
        /\ progress' = [s \in Series |-> [progress[s] EXCEPT ![u] = 0]]
        /\ trail' = <<>> /\ acts' \in 0..MaxSteps
        /\ UNCHANGED <<live, titles, source, forward, apart, listed, log>>
    BY <1>4, <1>a DEF DeleteAccount
  <2>2. \A s \in Series : [progress[s] EXCEPT ![u] = 0] \in Frontiers
    <3>1. \A s \in Series : progress[s] \in Frontiers
      BY DEF TypeOK
    <3> QED
      BY <3>1, MatchAssumption DEF Frontiers
  <2>3. progress' \in [Series -> Frontiers]
    BY <2>1, <2>2
  <2>4. watch' \in [Series -> SUBSET readers'] /\ readers' \subseteq Reader
    BY <2>1 DEF TypeOK
  <2>5. \A t \in Series \ live : watch'[t] = {}
    BY <2>1 DEF TypeOK
  <2>6. \A t \in Series \ live : \A v \in Reader : progress'[t][v] = 0
    <3> SUFFICES ASSUME NEW t \in Series \ live, NEW v \in Reader
                 PROVE  progress'[t][v] = 0
      OBVIOUS
    <3>1. progress'[t] = [progress[t] EXCEPT ![u] = 0]
      BY <2>1
    <3>2. progress[t][v] = 0 /\ progress[t] \in [Reader -> 0..MaxRead]
      BY DEF TypeOK, Frontiers
    <3> QED
      BY <3>1, <3>2
  <2> QED
    BY <1>b, <2>1, <2>3, <2>4, <2>5, <2>6 DEF TypeOK, Distinct
<1>5. ASSUME NEW s \in Series, DeleteOrphan(s)
      PROVE  TypeOK' /\ Distinct'
  <2>1. /\ s \in live /\ SourcesOf(s) = {} /\ watch[s] = {} /\ \A u \in Reader : progress[s][u] = 0
        /\ live' = live \ {s} /\ titles' = [titles EXCEPT ![s] = {}]
        /\ apart' = {pair \in apart : s \notin pair} /\ acts' \in 0..MaxSteps
        /\ UNCHANGED <<source, watch, progress, forward, listed, readers, log, trail>>
    BY <1>5, <1>a DEF DeleteOrphan, Unreferenced
  <2>2. titles' \in [Series -> SUBSET Name]
    BY <2>1 DEF TypeOK
  <2>3. source' \in [Source -> live']
    BY <2>1 DEF TypeOK, SourcesOf
  <2>4. \A pair \in apart' : pair \subseteq live' /\ Cardinality(pair) = 2
    BY <2>1 DEF TypeOK
  <2>5. ASSUME NEW t \in Series \ live'
        PROVE  titles'[t] = {} /\ watch'[t] = {} /\ \A u \in Reader : progress'[t][u] = 0
    <3>1. CASE t = s
      BY <2>1, <3>1 DEF TypeOK
    <3>2. CASE t # s
      <4>1. t \in Series \ live /\ titles'[t] = titles[t]
        BY <2>1, <2>5, <3>2 DEF TypeOK
      <4> QED
        BY <2>1, <4>1 DEF TypeOK
    <3> QED
      BY <3>1, <3>2
  <2> QED
    BY <2>1, <2>2, <2>3, <2>4, <2>5 DEF TypeOK, Distinct
<1>6. ASSUME DrawShortlist
      PROVE  TypeOK' /\ Distinct'
  <2>1. /\ listed' \in {Candidates, listed \union Candidates}
        /\ UNCHANGED <<live, titles, source, watch, progress, forward, apart, readers, log, acts, trail>>
    BY <1>6 DEF DrawShortlist
  <2>2. listed' \subseteq SUBSET Series
    BY <2>1 DEF TypeOK, Candidates
  <2> QED
    BY <2>1, <2>2 DEF TypeOK, Distinct
<1> QED
  BY <1>1, <1>2, <1>3, <1>4, <1>5, <1>6

\* A step of the model is a merge by one of the three callers, a revert, or what readers, scans and the
\* sweep do around them.
LEMMA StepCases ==
    ASSUME Next
    PROVE  \/ \E k, d \in Series, state \in {"merged", "lost"} :
                 merge_series(k, d, state)
           \/ \E i \in DOMAIN log : revert_merge_decision(i)
           \/ \E u \in Reader, s \in Series, n \in 1..MaxRead : ReadOn(u, s, n)
           \/ \E u \in Reader, s \in Series : ToggleWatch(u, s)
           \/ \E s \in Series, n \in Name : AddTitle(s, n)
           \/ \E u \in Reader : DeleteAccount(u)
           \/ \E s \in Series : DeleteOrphan(s)
           \/ DrawShortlist
  BY DEF Next, SweepMerge, MergeTwin, OperatorMerge

\* A catalogue before its first merge has its type.
LEMMA InitType ==
    ASSUME Init
    PROVE  TypeOK /\ Distinct
<1>1. progress \in [Series -> Frontiers] /\ watch \in [Series -> SUBSET readers]
  BY DEF Init
<1>2. source \in [Source -> live] /\ titles \in [Series -> SUBSET Name]
  BY MatchAssumption DEF Init
<1>3. log \in Seq(Decision) /\ trail \in Seq(DOMAIN log) /\ DOMAIN log = {}
  BY DEF Init
<1>4. listed \subseteq SUBSET Series
  BY DEF Init, Candidates
<1> QED
  BY <1>1, <1>2, <1>3, <1>4, MatchAssumption DEF Init, TypeOK, Distinct

\* Every step keeps the types.
LEMMA TypeStep ==
    ASSUME TypeOK, Distinct, [Next]_vars
    PROVE  TypeOK' /\ Distinct'
<1>1. CASE Next
  BY <1>1, StepCases, MergeType, RevertType, ActType
<1>2. CASE UNCHANGED vars
  BY <1>2 DEF vars, TypeOK, Distinct
<1> QED
  BY <1>1, <1>2

\* The state of merges and reverts has its type: every source is filed under a series that exists,
\* every watchlist names accounts that exist, and an absorbed series owns no rows.
THEOREM MergeTypeCorrect == Spec => []TypeOK
<1>1. Init => TypeOK /\ Distinct
  BY InitType
<1>2. TypeOK /\ Distinct /\ [Next]_vars => (TypeOK /\ Distinct)'
  BY TypeStep
<1> QED
  BY <1>1, <1>2, PTL DEF Spec

-----------------------------------------------------------------------------
(* Forwarding addresses.                                                   *)

\* What the merges in force absorbed does not exist, and was absorbed once.
DropsDead == \A i \in Active : log[i].drop \notin live
DropsOnce == \A i, j \in Active : log[i].drop = log[j].drop => i = j

\* Nor does anything exist that a merge in force re-addressed.
RecompressedDead == \A i \in Active : log[i].recompressed \intersect live = {}

\* What merge i re-addressed is closed under the merges in force: an id absorbed by j was re-addressed
\* with the series that absorbed it, or not at all.
Closure ==
    \A i, j \in Active :
        log[j].drop \in log[i].recompressed <=> log[j].keep \in log[i].recompressed \union {log[i].drop}

\* An absorbed id is addressed to its survivor, or to where that went.
Hops ==
    \A j \in Active :
        forward[log[j].drop] = IF log[j].keep \in live THEN log[j].keep ELSE forward[log[j].keep]

ForwardInv ==
    /\ TypeOK /\ Distinct
    /\ DropsDead /\ DropsOnce /\ RecompressedDead /\ Closure /\ Hops
    /\ ForwardsOneHop

\* What a merge does to the forwarding addresses and to the merges in force.
LEMMA MergeFacts ==
    ASSUME TypeOK, NEW k \in Series, NEW d \in Series, NEW state \in {"merged", "lost"},
           merge_series(k, d, state)
    PROVE  /\ k # d /\ k \in live /\ d \in live /\ live' = live \ {d}
           /\ \A s \in Series : forward'[s] = IF s = d \/ forward[s] = d THEN k ELSE forward[s]
           /\ Active' = Active \union {Len(log) + 1} /\ Len(log) + 1 \notin Active
           /\ log'[Len(log) + 1].keep = k /\ log'[Len(log) + 1].drop = d
           /\ log'[Len(log) + 1].state = state
           /\ log'[Len(log) + 1].recompressed = {s \in Series : forward[s] = d}
           /\ \A i \in Active : log'[i] = log[i]
           /\ \A i \in Active : i \in DOMAIN log
<1>1. k # d /\ k \in live /\ d \in live /\ live' = live \ {d} /\ forward' = Forwarded(k, d)
  BY DEF merge_series
<1>2. /\ Journal(k, d, state).keep = k /\ Journal(k, d, state).drop = d /\ Journal(k, d, state).state = state
      /\ Journal(k, d, state).recompressed = {s \in Series : forward[s] = d}
  BY DEF Journal
<1>3. Active' = Active \union {Len(log) + 1} /\ Len(log) + 1 \notin Active
  BY <1>2, MergeLog DEF Active
<1>4. \A s \in Series : forward'[s] = IF s = d \/ forward[s] = d THEN k ELSE forward[s]
  BY <1>1 DEF Forwarded
<1> QED
  BY <1>1, <1>2, <1>3, <1>4, MergeLog DEF Active

\* A merge keeps the forwarding addresses.
LEMMA MergeForwards ==
    ASSUME ForwardInv, NEW k \in Series, NEW d \in Series, NEW state \in {"merged", "lost"},
           merge_series(k, d, state)
    PROVE  ForwardInv'
<1>n. PICK n : n = Len(log) + 1
  OBVIOUS
<1>0. TypeOK' /\ Distinct'
  BY MergeType DEF ForwardInv
<1>1. /\ k # d /\ k \in live /\ d \in live /\ live' = live \ {d}
      /\ \A s \in Series : forward'[s] = IF s = d \/ forward[s] = d THEN k ELSE forward[s]
      /\ Active' = Active \union {n} /\ n \notin Active
      /\ log'[n].keep = k /\ log'[n].drop = d /\ log'[n].recompressed = {s \in Series : forward[s] = d}
      /\ \A i \in Active : log'[i] = log[i]
  BY <1>n, MergeFacts DEF ForwardInv
<1>2. \A i \in Active : log[i].keep \in Series /\ log[i].drop \in Series /\ log[i].recompressed \subseteq Series
  BY DecisionFields DEF Active, ForwardInv
<1>3. \A s \in Series : s \in live => forward[s] = None
  BY DEF ForwardInv, ForwardsOneHop
<1>4. d # None /\ k # None
  BY MatchAssumption
<1>5. DropsDead' /\ DropsOnce'
  BY <1>1, <1>2 DEF ForwardInv, DropsDead, DropsOnce
<1>6. RecompressedDead'
  <2> SUFFICES ASSUME NEW i \in Active' PROVE log'[i].recompressed \intersect live' = {}
    BY DEF RecompressedDead
  <2>1. CASE i = n
    BY <1>1, <1>3, <1>4, <2>1
  <2>2. CASE i # n
    BY <1>1, <2>2 DEF ForwardInv, RecompressedDead
  <2> QED
    BY <2>1, <2>2
<1>7. Closure'
  <2> SUFFICES ASSUME NEW i \in Active', NEW j \in Active'
               PROVE  log'[j].drop \in log'[i].recompressed <=>
                          log'[j].keep \in log'[i].recompressed \union {log'[i].drop}
    BY DEF Closure
  <2>1. CASE i \in Active /\ j \in Active
    BY <1>1, <2>1 DEF ForwardInv, Closure
  <2>2. CASE i \in Active /\ j = n
    BY <1>1, <2>2 DEF ForwardInv, RecompressedDead, DropsDead
  <2>3. CASE i = n /\ j \in Active
    <3>1. log'[j] = log[j] /\ log[j].drop \in Series /\ log[j].keep \in Series /\ log[j].drop \notin live
      BY <1>1, <1>2, <2>3 DEF ForwardInv, DropsDead
    <3>2. forward[log[j].drop] = IF log[j].keep \in live THEN log[j].keep ELSE forward[log[j].keep]
      BY <2>3 DEF ForwardInv, Hops
    <3>3. (forward[log[j].drop] = d) <=> (forward[log[j].keep] = d \/ log[j].keep = d)
      BY <1>1, <1>3, <1>4, <3>1, <3>2
    <3> QED
      BY <1>1, <2>3, <3>1, <3>3
  <2>4. CASE i = n /\ j = n
    BY <1>1, <1>3, <1>4, <2>4
  <2> QED
    BY <1>1, <2>1, <2>2, <2>3, <2>4
<1>8. Hops'
  <2> SUFFICES ASSUME NEW j \in Active'
               PROVE  forward'[log'[j].drop] =
                          IF log'[j].keep \in live' THEN log'[j].keep ELSE forward'[log'[j].keep]
    BY DEF Hops
  <2>1. CASE j = n
    BY <1>1, <2>1
  <2>2. CASE j \in Active
    <3>1. /\ log'[j] = log[j] /\ log[j].drop \in Series /\ log[j].keep \in Series
          /\ log[j].drop \notin live /\ log[j].drop # d
      BY <1>1, <1>2, <2>2 DEF ForwardInv, DropsDead
    <3>2. forward[log[j].drop] = IF log[j].keep \in live THEN log[j].keep ELSE forward[log[j].keep]
      BY <2>2 DEF ForwardInv, Hops
    <3>3. CASE log[j].keep = d
      BY <1>1, <3>1, <3>2, <3>3
    <3>4. CASE log[j].keep # d
      BY <1>1, <3>1, <3>2, <3>4
    <3> QED
      BY <3>3, <3>4
  <2> QED
    BY <1>1, <2>1, <2>2
<1>9. ForwardsOneHop'
  <2>1. \A s \in Series : forward'[s] # None => s \notin live' /\ forward'[s] \in live'
    BY <1>1, <1>3, <1>4 DEF ForwardInv, ForwardsOneHop
  <2>2. \A i \in Active' : forward'[log'[i].drop] # None
    BY <1>1, <1>2, <1>4 DEF ForwardInv, ForwardsOneHop
  <2> QED
    BY <2>1, <2>2 DEF ForwardsOneHop
<1> QED
  BY <1>0, <1>5, <1>6, <1>7, <1>8, <1>9 DEF ForwardInv

\* What a revert does to the forwarding addresses and to the merges in force.
LEMMA RevertFacts ==
    ASSUME TypeOK, NEW i \in DOMAIN log, revert_merge_decision(i)
    PROVE  /\ log[i].state = "merged" /\ log'[i].state = "reverted" /\ i \in Active
           /\ log[i].keep \in live /\ log[i].drop \notin live /\ live' = live \union {log[i].drop}
           /\ apart' = apart \union {{log[i].keep, log[i].drop}}
           /\ \A s \in Series : forward'[s] =
                 IF s \in log[i].recompressed THEN log[i].drop
                 ELSE IF s = log[i].drop /\ forward[s] = log[i].keep THEN None ELSE forward[s]
           /\ Active' = Active \ {i}
<1>1. /\ log[i].state = "merged" /\ log[i].keep \in live /\ log[i].drop \notin live
      /\ live' = live \union {log[i].drop} /\ forward' = Unforwarded(log[i])
      /\ apart' = apart \union {{log[i].keep, log[i].drop}}
  BY DEF revert_merge_decision, Revertible, Suppressed
<1>2. Active' = Active \ {i}
  BY RevertLog, RevertKeeps DEF Active
<1> QED
  BY <1>1, <1>2, RevertKeeps DEF Unforwarded, Active

\* A revert keeps the forwarding addresses, in whatever order merges are reverted.
LEMMA RevertForwards ==
    ASSUME ForwardInv, NEW i \in DOMAIN log, revert_merge_decision(i)
    PROVE  ForwardInv'
<1>k. PICK k \in Series, d \in Series, R \in SUBSET Series :
          k = log[i].keep /\ d = log[i].drop /\ R = log[i].recompressed
  BY DecisionFields DEF ForwardInv
<1>0. TypeOK' /\ Distinct'
  BY RevertType DEF ForwardInv
<1>1. /\ i \in Active /\ k \in live /\ d \notin live /\ live' = live \union {d}
      /\ \A s \in Series : forward'[s] =
            IF s \in R THEN d ELSE IF s = d /\ forward[s] = k THEN None ELSE forward[s]
      /\ Active' = Active \ {i}
  BY <1>k, RevertFacts DEF ForwardInv
<1>2. \A j \in Active : /\ log[j].keep \in Series /\ log[j].drop \in Series /\ log[j].recompressed \subseteq Series
                        /\ log'[j].keep = log[j].keep /\ log'[j].drop = log[j].drop
                        /\ log'[j].recompressed = log[j].recompressed
  BY DecisionFields, RevertKeeps DEF Active, ForwardInv
<1>3. k # d /\ k \notin R /\ d \notin R /\ R \intersect live = {} /\ forward[d] = k
  <2>1. k # d /\ R \intersect live = {}
    BY <1>k, <1>1 DEF ForwardInv, Distinct, RecompressedDead
  <2>2. k \notin R
    BY <1>1, <2>1
  <2>3. d \in R <=> k \in R \union {d}
    BY <1>k, <1>1 DEF ForwardInv, Closure
  <2>4. forward[d] = k
    BY <1>k, <1>1 DEF ForwardInv, Hops
  <2> QED
    BY <2>1, <2>2, <2>3, <2>4
<1>4. \A j \in Active : j # i => log[j].drop # d /\ d \notin log[j].recompressed
  <2> SUFFICES ASSUME NEW j \in Active, j # i
               PROVE  log[j].drop # d /\ d \notin log[j].recompressed
    OBVIOUS
  <2>1. log[j].drop # d
    BY <1>k, <1>1 DEF ForwardInv, DropsOnce
  <2>2. d \in log[j].recompressed <=> k \in log[j].recompressed \union {log[j].drop}
    BY <1>k, <1>1 DEF ForwardInv, Closure
  <2>3. k \notin log[j].recompressed /\ k # log[j].drop
    BY <1>1 DEF ForwardInv, RecompressedDead, DropsDead
  <2> QED
    BY <2>1, <2>2, <2>3
<1>5. DropsDead' /\ DropsOnce'
  BY <1>1, <1>2, <1>4 DEF ForwardInv, DropsDead, DropsOnce
<1>6. RecompressedDead'
  BY <1>1, <1>2, <1>4 DEF ForwardInv, RecompressedDead
<1>7. Closure'
  BY <1>1, <1>2 DEF ForwardInv, Closure
<1>8. Hops'
  <2> SUFFICES ASSUME NEW j \in Active, j # i
               PROVE  forward'[log[j].drop] =
                          IF log[j].keep \in live' THEN log[j].keep ELSE forward'[log[j].keep]
    BY <1>1, <1>2 DEF Hops
  <2>1. log[j].drop \in R <=> log[j].keep \in R \union {d}
    BY <1>k, <1>1 DEF ForwardInv, Closure
  <2>2. forward[log[j].drop] = IF log[j].keep \in live THEN log[j].keep ELSE forward[log[j].keep]
    BY DEF ForwardInv, Hops
  <2>3. log[j].drop # d /\ log[j].drop \in Series /\ log[j].keep \in Series
    BY <1>2, <1>4
  <2>4. CASE log[j].keep = d
    BY <1>1, <2>1, <2>3, <2>4
  <2>5. CASE log[j].keep \in live
    BY <1>1, <1>3, <2>1, <2>2, <2>3, <2>5
  <2>6. CASE log[j].keep \notin live /\ log[j].keep # d
    BY <1>1, <1>3, <2>1, <2>2, <2>3, <2>6
  <2> QED
    BY <2>4, <2>5, <2>6
<1>9. ForwardsOneHop'
  <2>1. \A s \in Series : forward[s] # None => s \notin live /\ forward[s] \in live
    BY DEF ForwardInv, ForwardsOneHop
  <2>2. \A s \in Series : forward'[s] # None => s \notin live' /\ forward'[s] \in live'
    BY <1>1, <1>3, <2>1
  <2>3. d # None
    BY MatchAssumption
  <2>4. \A j \in Active' : forward'[log'[j].drop] # None
    BY <1>1, <1>2, <1>4, <2>3 DEF ForwardInv, ForwardsOneHop
  <2> QED
    BY <2>2, <2>4 DEF ForwardsOneHop
<1> QED
  BY <1>0, <1>5, <1>6, <1>7, <1>8, <1>9 DEF ForwardInv

\* So does the deletion of a series that no id is forwarded to.
LEMMA DeleteForwards ==
    ASSUME ForwardInv, NEW s \in Series, DeleteOrphan(s)
    PROVE  ForwardInv'
<1>0. TypeOK' /\ Distinct'
  BY ActType DEF ForwardInv
<1>1. /\ live' = live \ {s} /\ forward' = forward /\ log' = log /\ Active' = Active
      /\ \A t \in Series : forward[t] # s
  BY DEF DeleteOrphan, Unreferenced, Active
<1>2. \A j \in Active : log[j].keep \in Series /\ log[j].drop \in Series
  BY DecisionFields DEF Active, ForwardInv
<1>3. DropsDead' /\ DropsOnce' /\ RecompressedDead' /\ Closure'
  BY <1>1 DEF ForwardInv, DropsDead, DropsOnce, RecompressedDead, Closure
<1>4. \A j \in Active : log[j].keep \in live => log[j].keep # s
  BY <1>1, <1>2 DEF ForwardInv, Hops
<1>5. Hops'
  BY <1>1, <1>4 DEF ForwardInv, Hops
<1>6. ForwardsOneHop'
  BY <1>1 DEF ForwardInv, ForwardsOneHop
<1> QED
  BY <1>0, <1>3, <1>5, <1>6 DEF ForwardInv

\* Every step keeps the forwarding addresses.
LEMMA ForwardStep ==
    ASSUME ForwardInv, [Next]_vars
    PROVE  ForwardInv'
<1>0. TypeOK' /\ Distinct'
  BY TypeStep DEF ForwardInv
<1>1. ASSUME UNCHANGED <<live, forward, log>> PROVE ForwardInv'
  BY <1>0, <1>1 DEF ForwardInv, Active, DropsDead, DropsOnce, RecompressedDead, Closure, Hops, ForwardsOneHop
<1>2. CASE Next
  <2>1. ASSUME NEW u \in Reader, NEW s \in Series, NEW n \in 1..MaxRead, ReadOn(u, s, n)
        PROVE  ForwardInv'
    BY <1>1, <2>1 DEF ReadOn
  <2>2. ASSUME NEW u \in Reader, NEW s \in Series, ToggleWatch(u, s)
        PROVE  ForwardInv'
    BY <1>1, <2>2 DEF ToggleWatch
  <2>3. ASSUME NEW s \in Series, NEW n \in Name, AddTitle(s, n)
        PROVE  ForwardInv'
    BY <1>1, <2>3 DEF AddTitle
  <2>4. ASSUME NEW u \in Reader, DeleteAccount(u)
        PROVE  ForwardInv'
    BY <1>1, <2>4 DEF DeleteAccount
  <2>5. ASSUME DrawShortlist PROVE ForwardInv'
    BY <1>1, <2>5 DEF DrawShortlist
  <2> QED
    BY <1>2, <2>1, <2>2, <2>3, <2>4, <2>5, StepCases, MergeForwards, RevertForwards, DeleteForwards
<1>3. CASE UNCHANGED vars
  BY <1>1, <1>3 DEF vars
<1> QED
  BY <1>2, <1>3

\* The forwarding invariant holds: what merges in force absorbed or re-addressed is gone, and what each
\* re-addressed is closed under the others, which is why reverts may come in any order.
THEOREM ForwardingHolds == Spec => []ForwardInv
<1>1. Init => ForwardInv
  <2> SUFFICES ASSUME Init PROVE ForwardInv
    OBVIOUS
  <2>1. Active = {} /\ live = Series /\ \A s \in Series : forward[s] = None
    BY DEF Init, Active
  <2> QED
    BY <2>1, InitType DEF ForwardInv, DropsDead, DropsOnce, RecompressedDead, Closure, Hops, ForwardsOneHop
<1>2. ForwardInv /\ [Next]_vars => ForwardInv'
  BY ForwardStep
<1> QED
  BY <1>1, <1>2, PTL DEF Spec

\* Forwarding is one hop deep and ends at a series that exists, whatever is merged and reverted in
\* whatever order (forward_merged_id, remove_forwarding).
THEOREM ForwardingOneHop == Spec => []ForwardsOneHop
<1>1. ForwardInv => ForwardsOneHop
  BY DEF ForwardInv
<1> QED
  BY <1>1, ForwardingHolds, PTL

-----------------------------------------------------------------------------
(* Separated pairs.                                                        *)

\* The pair a decision was about.
Pair(i) == {log[i].keep, log[i].drop}

\* One of the pair of i was absorbed by a third series after i.
TakenByThird(i) == \E j \in DOMAIN log : j > i /\ log[j].drop \in Pair(i) /\ log[j].keep \notin Pair(i)

\* One of the pair of i is gone, and the merges in force absorbed neither into a third series.
OneGone(i) == ~(Pair(i) \subseteq live) /\ \A j \in Active : log[j].drop \in Pair(i) => log[j].keep \in Pair(i)

\* What became of the dismissal of a pair that was separated: it stands, a third series absorbed one
\* of the two since, or one of them is gone and comes back, if at all, by a revert of the pair itself.
Separated == \A i \in Reverted : Pair(i) \in apart \/ TakenByThird(i) \/ OneGone(i)

\* A dismissed pair exists, so that no merge in force absorbed one of the two.
LEMMA DismissedLive ==
    ASSUME ForwardInv, NEW i \in DOMAIN log, Pair(i) \in apart
    PROVE  Pair(i) \subseteq live /\ \A j \in Active : log[j].drop \notin Pair(i)
<1>1. Pair(i) \subseteq live
  BY DEF ForwardInv, TypeOK
<1> QED
  BY <1>1 DEF ForwardInv, DropsDead

\* A merge keeps what is said of separated pairs, whoever asked for it.
LEMMA MergeSeparated ==
    ASSUME ForwardInv, Separated, NEW k \in Series, NEW d \in Series, NEW state \in {"merged", "lost"},
           merge_series(k, d, state)
    PROVE  Separated'
<1>n. PICK n : n = Len(log) + 1
  OBVIOUS
<1>0. TypeOK
  BY DEF ForwardInv
<1>1. /\ log'[n].keep = k /\ log'[n].drop = d /\ log'[n].state = state
      /\ DOMAIN log' = DOMAIN log \union {n} /\ \A i \in DOMAIN log : log'[i] = log[i] /\ n > i
  <2>1. log'[n].keep = k /\ log'[n].drop = d /\ log'[n].state = state
    BY <1>0, <1>n, MergeFacts
  <2>2. DOMAIN log' = DOMAIN log \union {n} /\ \A i \in DOMAIN log : log'[i] = log[i]
    BY <1>0, <1>n, MergeLog
  <2>3. \A i \in DOMAIN log : n > i
    BY <1>0, <1>n, LogDomain
  <2> QED
    BY <2>1, <2>2, <2>3
<1>2. /\ k # d /\ k \in live /\ d \in live /\ live' = live \ {d} /\ Active' = Active \union {n}
      /\ \A i \in Active : i \in DOMAIN log
  BY <1>0, <1>n, MergeFacts
<1>3. Reverted' = Reverted /\ \A i \in Reverted : i \in DOMAIN log
  BY <1>1 DEF Reverted
<1>4. apart' = {pair \in apart : d \notin pair}
  BY DEF merge_series
<1> SUFFICES ASSUME NEW i \in Reverted
             PROVE  Pair(i)' \in apart' \/ TakenByThird(i)' \/ OneGone(i)'
  BY <1>3 DEF Separated
<1>5. PICK P : P = Pair(i)
  OBVIOUS
<1>6. i \in DOMAIN log /\ Pair(i)' = P
  BY <1>1, <1>3, <1>5 DEF Pair
<1>7. CASE d \in P /\ k \notin P
  <2>1. n \in DOMAIN log' /\ n > i /\ log'[n].drop \in P /\ log'[n].keep \notin P
    BY <1>1, <1>6, <1>7
  <2> QED
    BY <1>6, <2>1 DEF TakenByThird
<1>8. CASE d \notin P
  <2>1. CASE P \in apart
    BY <1>4, <1>6, <1>8, <2>1
  <2>2. CASE TakenByThird(i)
    BY <1>1, <1>5, <1>6, <2>2 DEF TakenByThird
  <2>3. CASE OneGone(i)
    BY <1>1, <1>2, <1>5, <1>6, <1>8, <2>3 DEF OneGone
  <2> QED
    BY <1>5, <2>1, <2>2, <2>3 DEF Separated
<1>9. CASE d \in P /\ k \in P
  <2>1. CASE P \in apart
    <3>1. \A j \in Active : log[j].drop \notin P
      BY <1>5, <1>6, <2>1, DismissedLive
    <3>2. \A j \in Active' : log'[j].drop \in P => log'[j].keep \in P
      BY <1>1, <1>2, <1>9, <3>1
    <3> QED
      BY <1>2, <1>6, <1>9, <3>2 DEF OneGone
  <2>2. CASE TakenByThird(i)
    BY <1>1, <1>5, <1>6, <2>2 DEF TakenByThird
  <2>3. CASE OneGone(i)
    <3>1. \A j \in Active' : log'[j].drop \in P => log'[j].keep \in P
      BY <1>1, <1>2, <1>5, <1>9, <2>3 DEF OneGone
    <3> QED
      BY <1>2, <1>6, <1>9, <3>1 DEF OneGone
  <2> QED
    BY <1>5, <2>1, <2>2, <2>3 DEF Separated
<1> QED
  BY <1>7, <1>8, <1>9

\* A revert keeps it: it dismisses its own pair and no dismissal of another one, and brings back a
\* series that had been absorbed by the other one of its pair.
LEMMA RevertSeparated ==
    ASSUME ForwardInv, Separated, NEW i \in DOMAIN log, revert_merge_decision(i)
    PROVE  Separated'
<1>0. TypeOK
  BY DEF ForwardInv
<1>1. /\ DOMAIN log' = DOMAIN log /\ i \in Active /\ Active' = Active \ {i}
      /\ live' = live \union {log[i].drop} /\ apart' = apart \union {Pair(i)}
      /\ log[i].keep # log[i].drop
  <2>1. DOMAIN log' = DOMAIN log
    BY <1>0, RevertLog
  <2>2. i \in Active /\ Active' = Active \ {i} /\ live' = live \union {log[i].drop}
    BY <1>0, RevertFacts
  <2>3. apart' = apart \union {Pair(i)}
    BY <1>0, RevertFacts DEF Pair
  <2> QED
    BY <2>1, <2>2, <2>3 DEF ForwardInv, Distinct
<1>2. \A j \in DOMAIN log : /\ log'[j].keep = log[j].keep /\ log'[j].drop = log[j].drop
                            /\ log'[j].state = IF j = i THEN "reverted" ELSE log[j].state
  BY <1>0, RevertKeeps
<1>3. Reverted' = Reverted \union {i} /\ \A j \in Reverted : j \in DOMAIN log
  BY <1>1, <1>2 DEF Reverted
<1>4. \A j \in DOMAIN log : Pair(j)' = Pair(j)
  BY <1>2 DEF Pair
<1> SUFFICES ASSUME NEW h \in Reverted'
             PROVE  Pair(h)' \in apart' \/ TakenByThird(h)' \/ OneGone(h)'
  BY DEF Separated
<1>5. h \in DOMAIN log /\ Pair(h)' = Pair(h)
  BY <1>3, <1>4
<1>6. CASE Pair(h) = Pair(i)
  BY <1>1, <1>5, <1>6
<1>7. CASE h \in Reverted /\ Pair(h) # Pair(i)
  <2>1. CASE Pair(h) \in apart
    BY <1>1, <1>5, <2>1
  <2>2. CASE TakenByThird(h)
    BY <1>1, <1>2, <1>5, <2>2 DEF TakenByThird
  <2>3. CASE OneGone(h)
    <3>1. log[i].drop \notin Pair(h)
      <4>1. log[i].drop \in Pair(h) => log[i].keep \in Pair(h)
        BY <1>1, <2>3 DEF OneGone
      <4>2. log[i].drop \in Pair(h) /\ log[i].keep \in Pair(h) => Pair(h) = Pair(i)
        BY <1>1 DEF Pair
      <4> QED
        BY <1>7, <4>1, <4>2
    <3>2. ~(Pair(h) \subseteq live')
      BY <1>1, <2>3, <3>1 DEF OneGone
    <3>3. \A j \in Active' : j \in DOMAIN log
      BY <1>1 DEF Active
    <3>4. \A j \in Active' : log'[j].drop \in Pair(h) => log'[j].keep \in Pair(h)
      BY <1>1, <1>2, <2>3, <3>3 DEF OneGone
    <3> QED
      BY <1>5, <3>2, <3>4 DEF OneGone
  <2> QED
    BY <1>7, <2>1, <2>2, <2>3 DEF Separated
<1> QED
  BY <1>3, <1>6, <1>7

\* The deletion of a series keeps it: what is deleted does not come back.
LEMMA DeleteSeparated ==
    ASSUME ForwardInv, Separated, NEW s \in Series, DeleteOrphan(s)
    PROVE  Separated'
<1>1. /\ live' = live \ {s} /\ apart' = {pair \in apart : s \notin pair} /\ log' = log
      /\ Active' = Active /\ Reverted' = Reverted /\ \A i \in Reverted : i \in DOMAIN log
  BY DEF DeleteOrphan, Active, Reverted
<1> SUFFICES ASSUME NEW i \in Reverted
             PROVE  Pair(i)' \in apart' \/ TakenByThird(i)' \/ OneGone(i)'
  BY <1>1 DEF Separated
<1>2. Pair(i)' = Pair(i)
  BY <1>1 DEF Pair
<1>3. CASE Pair(i) \in apart
  <2>1. CASE s \notin Pair(i)
    BY <1>1, <1>2, <1>3, <2>1
  <2>2. CASE s \in Pair(i)
    <3>1. \A j \in Active : log[j].drop \notin Pair(i)
      BY <1>1, <1>3, DismissedLive
    <3> QED
      BY <1>1, <1>2, <2>2, <3>1 DEF OneGone
  <2> QED
    BY <2>1, <2>2
<1>4. CASE TakenByThird(i)
  BY <1>1, <1>2, <1>4 DEF TakenByThird
<1>5. CASE OneGone(i)
  BY <1>1, <1>2, <1>5 DEF OneGone
<1> QED
  BY <1>3, <1>4, <1>5 DEF Separated

\* Every step keeps it.
LEMMA SeparatedStep ==
    ASSUME ForwardInv, Separated, [Next]_vars
    PROVE  Separated'
<1>1. ASSUME UNCHANGED <<live, apart, log>> PROVE Separated'
  BY <1>1 DEF Separated, Reverted, Active, Pair, TakenByThird, OneGone
<1>2. CASE Next
  <2>1. ASSUME NEW u \in Reader, NEW s \in Series, NEW n \in 1..MaxRead, ReadOn(u, s, n)
        PROVE  Separated'
    BY <1>1, <2>1 DEF ReadOn
  <2>2. ASSUME NEW u \in Reader, NEW s \in Series, ToggleWatch(u, s)
        PROVE  Separated'
    BY <1>1, <2>2 DEF ToggleWatch
  <2>3. ASSUME NEW s \in Series, NEW n \in Name, AddTitle(s, n)
        PROVE  Separated'
    BY <1>1, <2>3 DEF AddTitle
  <2>4. ASSUME NEW u \in Reader, DeleteAccount(u)
        PROVE  Separated'
    BY <1>1, <2>4 DEF DeleteAccount
  <2>5. ASSUME DrawShortlist PROVE Separated'
    BY <1>1, <2>5 DEF DrawShortlist
  <2> QED
    BY <1>2, <2>1, <2>2, <2>3, <2>4, <2>5, StepCases, MergeSeparated, RevertSeparated, DeleteSeparated
<1>3. CASE UNCHANGED vars
  BY <1>1, <1>3 DEF vars
<1> QED
  BY <1>2, <1>3

\* Only the beginning of a pass puts pairs on a shortlist.
LEMMA OnlyDrawLists ==
    ASSUME [Next]_vars, NEW pair, pair \in listed' \ listed
    PROVE  DrawShortlist
<1>1. listed' # listed
  OBVIOUS
<1>2. Next
  BY <1>1 DEF vars
<1> QED
  BY <1>1, <1>2, StepCases
     DEF merge_series, revert_merge_decision, ReadOn, ToggleWatch, AddTitle, DeleteAccount, DeleteOrphan

\* A separated pair is shortlisted again only after a third series absorbed one of the two: the
\* dismissal that suppress_pair writes is what the shortlists leave out, a merge of the pair by the
\* orphan clean-up or the console that takes it away absorbs one of the two, and only a revert, which
\* dismisses the pair again, brings that one back.
THEOREM SeparatedPairsStayApart == Spec => SeparatedStaysApart
<1>1. Init => Separated
  BY DEF Init, Separated, Reverted
<1>2. ForwardInv /\ Separated /\ [Next]_vars => Separated'
  BY SeparatedStep
<1>3. ForwardInv /\ Separated /\ [Next]_vars =>
          \A i \in Reverted :
              {log[i].keep, log[i].drop} \in listed' \ listed
              => \E j \in DOMAIN log : /\ j > i /\ log[j].drop \in {log[i].keep, log[i].drop}
                                       /\ log[j].keep \notin {log[i].keep, log[i].drop}
  <2> SUFFICES ASSUME ForwardInv, Separated, [Next]_vars, NEW i \in Reverted, Pair(i) \in listed' \ listed
               PROVE  TakenByThird(i)
    BY DEF Pair, TakenByThird
  <2>1. DrawShortlist
    BY OnlyDrawLists
  <2>2. Pair(i) \in Candidates
    BY <2>1 DEF DrawShortlist
  <2>3. Pair(i) \subseteq live /\ Pair(i) \notin apart
    BY <2>2 DEF Candidates
  <2> QED
    BY <2>3 DEF Separated, OneGone
<1>4. Spec => []Separated
  BY <1>1, <1>2, ForwardingHolds, PTL DEF Spec
<1> QED
  BY <1>3, <1>4, ForwardingHolds, PTL DEF Spec, SeparatedStaysApart

\* A step that changes the state of a decision is its revert.
LEMMA StateChange ==
    ASSUME TypeOK, [Next]_vars, NEW i \in DOMAIN log, log'[i].state # log[i].state
    PROVE  revert_merge_decision(i)
<1>1. ASSUME NEW k \in Series, NEW d \in Series, NEW state \in {"merged", "lost"}, merge_series(k, d, state)
      PROVE  FALSE
  BY <1>1, MergeLog
<1>2. log' # log
  OBVIOUS
<1>3. Next
  BY <1>2 DEF vars
<1>4. ASSUME NEW j \in DOMAIN log, revert_merge_decision(j) PROVE j = i
  BY <1>4, RevertLog
<1> QED
  BY <1>1, <1>2, <1>3, <1>4, StepCases
     DEF ReadOn, ToggleWatch, AddTitle, DeleteAccount, DeleteOrphan, DrawShortlist

\* A revert leaves the two series with no name in common but the survivor's own (disentangle), whatever
\* names either was given while they were one.
THEOREM RevertsSeparate == Spec => RevertSeparates
<1>1. TypeOK /\ Distinct /\ [Next]_vars =>
          \A i \in DOMAIN log :
              log'[i].state # log[i].state =>
                  Names(log[i].keep)' \intersect Names(log[i].drop)' \subseteq {Canon[log[i].keep]}
  <2> SUFFICES ASSUME TypeOK, Distinct, [Next]_vars, NEW i \in DOMAIN log, log'[i].state # log[i].state
               PROVE  Names(log[i].keep)' \intersect Names(log[i].drop)' \subseteq {Canon[log[i].keep]}
    OBVIOUS
  <2>1. revert_merge_decision(i)
    BY StateChange
  <2>2. PICK k \in Series, d \in Series : k = log[i].keep /\ d = log[i].drop
    BY DecisionFields
  <2>3. k # d /\ log'[i].keep = k /\ log'[i].drop = d
    BY <2>1, <2>2, RevertKeeps DEF Distinct
  <2>4. PICK kept, T : kept = titles[k] \ log[i].newTitles /\ T = log[i].titles
    OBVIOUS
  <2>5. titles' = [titles EXCEPT ![k] = kept \ Shared(k, kept, d, T), ![d] = T]
    BY <2>1, <2>2, <2>4 DEF revert_merge_decision
  <2>6. titles'[k] = kept \ Shared(k, kept, d, T) /\ titles'[d] = T
    BY <2>3, <2>5 DEF TypeOK
  <2>7. ({Canon[k]} \union (kept \ Shared(k, kept, d, T))) \intersect ({Canon[d]} \union T) \subseteq {Canon[k]}
    BY DEF Shared
  <2>8. Names(k)' \intersect Names(d)' \subseteq {Canon[k]}
    BY <2>6, <2>7 DEF Names
  <2> QED
    BY <2>2, <2>3, <2>8 DEF Names
<1>2. Spec => [](TypeOK /\ Distinct)
  BY ForwardingHolds, PTL DEF ForwardInv
<1> QED
  BY <1>1, <1>2, PTL DEF Spec, RevertSeparates

-----------------------------------------------------------------------------
(* Unwinding newest first.                                                 *)

\* Watchlists and progress after a merge of d into k, and what a decision left of them.
MergedWatch(w, k, d) == [w EXCEPT ![k] = w[k] \union w[d], ![d] = {}]
MergedProgress(p, k, d) ==
    [p EXCEPT ![k] = [u \in Reader |-> Max({p[k][u], p[d][u]})], ![d] = NoRows]
After(e) ==
    [watch |-> MergedWatch(e.past.watch, e.keep, e.drop),
     progress |-> MergedProgress(e.past.progress, e.keep, e.drop)]

\* The journal of a decision was written from the rows before its merge.
Journalled(e) ==
    /\ e.watch = e.past.watch[e.drop]
    /\ e.newWatch = e.past.watch[e.drop] \ e.past.watch[e.keep]
    /\ e.progress = e.past.progress[e.drop]
    /\ e.was = [u \in Reader |-> IF e.past.progress[e.drop][u] > 0 THEN e.past.progress[e.keep][u] ELSE 0]

\* The trail is one chain of states: each merge on it began where the one before it ended, and the
\* last one ended at what the tables hold now.
TrailInv ==
    /\ \A i \in DOMAIN log : Journalled(log[i])
    /\ \A p \in 1..(Len(trail) - 1) : log[trail[p + 1]].past = After(log[trail[p]])
    /\ trail # <<>> => [watch |-> watch, progress |-> progress] = After(log[trail[Len(trail)]])

\* A merge writes its journal from the rows it finds, and leaves what After says.
LEMMA MergeWrites ==
    ASSUME TypeOK, NEW k \in Series, NEW d \in Series, NEW state \in {"merged", "lost"},
           merge_series(k, d, state)
    PROVE  /\ Journalled(Journal(k, d, state))
           /\ Journal(k, d, state).past = [watch |-> watch, progress |-> progress]
           /\ After(Journal(k, d, state)) = [watch |-> watch', progress |-> progress']
<1>1. /\ Journal(k, d, state).keep = k /\ Journal(k, d, state).drop = d
      /\ Journal(k, d, state).watch = watch[d] /\ Journal(k, d, state).newWatch = watch[d] \ watch[k]
      /\ Journal(k, d, state).progress = progress[d]
      /\ Journal(k, d, state).was = [u \in Reader |-> IF progress[d][u] > 0 THEN progress[k][u] ELSE 0]
      /\ Journal(k, d, state).past = [watch |-> watch, progress |-> progress]
  BY DEF Journal, Created
<1>2. /\ Journal(k, d, state).past.watch = watch
      /\ Journal(k, d, state).past.progress = progress
  BY <1>1
<1>3. Journalled(Journal(k, d, state))
  BY <1>1, <1>2 DEF Journalled
<1>4. watch' = MergedWatch(watch, k, d) /\ progress' = MergedProgress(progress, k, d)
  BY DEF merge_series, MergedWatch, MergedProgress
<1>5. After(Journal(k, d, state)) = [watch |-> watch', progress |-> progress']
  BY <1>1, <1>2, <1>4 DEF After
<1> QED
  BY <1>1, <1>3, <1>5

\* A merge extends the trail.
LEMMA MergeTrail ==
    ASSUME TypeOK, TrailInv, NEW k \in Series, NEW d \in Series, NEW state \in {"merged", "lost"},
           merge_series(k, d, state)
    PROVE  TrailInv'
<1>n. PICK n : n = Len(log) + 1
  OBVIOUS
<1>1. /\ DOMAIN log' = DOMAIN log \union {n} /\ log'[n] = Journal(k, d, state)
      /\ \A i \in DOMAIN log : log'[i] = log[i]
  BY <1>n, MergeLog
<1>2. trail \in Seq(DOMAIN log) /\ n \in DOMAIN log'
  BY <1>1 DEF TypeOK
<1>3. trail' = Append(trail, n)
  BY <1>n DEF merge_series
<1>4. /\ Len(trail') = Len(trail) + 1 /\ Len(trail) \in Nat /\ trail'[Len(trail) + 1] = n
      /\ \A p \in 1..Len(trail) : trail'[p] = trail[p] /\ trail[p] \in DOMAIN log
  BY <1>2, <1>3
<1>5. \A i \in DOMAIN log' : Journalled(log'[i])
  BY <1>1, MergeWrites DEF TrailInv
<1>6. \A p \in 1..(Len(trail') - 1) : log'[trail'[p + 1]].past = After(log'[trail'[p]])
  <2> SUFFICES ASSUME NEW p \in 1..Len(trail)
               PROVE  log'[trail'[p + 1]].past = After(log'[trail'[p]])
    BY <1>4
  <2>1. CASE p = Len(trail)
    <3>1. trail # <<>>
      BY <1>4, <2>1
    <3>2. log'[trail'[p + 1]].past = [watch |-> watch, progress |-> progress]
      BY <1>1, <1>4, <2>1, MergeWrites
    <3>3. log'[trail'[p]] = log[trail[Len(trail)]]
      BY <1>1, <1>4, <2>1
    <3> QED
      BY <3>1, <3>2, <3>3 DEF TrailInv
  <2>2. CASE p # Len(trail)
    <3>1. p \in 1..(Len(trail) - 1) /\ p + 1 \in 1..Len(trail)
      BY <1>4, <2>2
    <3>2. log'[trail'[p + 1]] = log[trail[p + 1]] /\ log'[trail'[p]] = log[trail[p]]
      BY <1>1, <1>4, <3>1
    <3> QED
      BY <3>1, <3>2 DEF TrailInv
  <2> QED
    BY <2>1, <2>2
<1>7. [watch |-> watch', progress |-> progress'] = After(log'[trail'[Len(trail')]])
  BY <1>1, <1>4, MergeWrites
<1> QED
  BY <1>5, <1>6, <1>7 DEF TrailInv

\* Taking back the merge that left the tables as they are restores the rows from before it.
LEMMA RevertRestores ==
    ASSUME TypeOK, Distinct, TrailInv, NEW i \in DOMAIN log, revert_merge_decision(i), Newest(i)
    PROVE  log[i].past = [watch |-> watch', progress |-> progress']
<1>1. PICK k \in Series, d \in Series : k = log[i].keep /\ d = log[i].drop
  BY DecisionFields
<1>2. PICK w \in [Series -> SUBSET Reader], p \in [Series -> Frontiers] :
          log[i].past = [watch |-> w, progress |-> p]
  <2>1. log[i] \in Decision
    BY DEF TypeOK
  <2>2. log[i].past \in [watch : [Series -> SUBSET Reader], progress : [Series -> Frontiers]]
    BY <2>1 DEF Decision
  <2> QED
    BY <2>2
<1>3. k # d
  BY <1>1 DEF Distinct
<1>4. log[i].past.watch = w /\ log[i].past.progress = p
  BY <1>2
<1>5. /\ log[i].watch = w[d] /\ log[i].newWatch = w[d] \ w[k] /\ log[i].progress = p[d]
      /\ log[i].was = [u \in Reader |-> IF p[d][u] > 0 THEN p[k][u] ELSE 0]
  BY <1>1, <1>4 DEF TrailInv, Journalled
<1>6. watch = MergedWatch(w, k, d) /\ progress = MergedProgress(p, k, d)
  <2>1. [watch |-> watch, progress |-> progress] = After(log[i])
    BY DEF TrailInv, Newest
  <2>2. After(log[i]) = [watch |-> MergedWatch(w, k, d), progress |-> MergedProgress(p, k, d)]
    BY <1>1, <1>4 DEF After
  <2> QED
    BY <2>1, <2>2
<1>7. watch' = w
  <2>1. watch' = [watch EXCEPT ![k] = watch[k] \ log[i].newWatch, ![d] = log[i].watch]
    BY <1>1 DEF revert_merge_decision
  <2>2. watch \in [Series -> SUBSET Reader] /\ watch[k] = w[k] \union w[d]
    BY <1>3, <1>6 DEF MergedWatch
  <2>3. \A s \in Series : s # k /\ s # d => watch[s] = w[s]
    BY <1>6 DEF MergedWatch
  <2>4. watch' \in [Series -> SUBSET Reader]
    BY <1>5, <2>1, <2>2
  <2>5. \A s \in Series : watch'[s] = w[s]
    BY <1>3, <1>5, <2>1, <2>2, <2>3
  <2> QED
    BY <2>4, <2>5
<1>8. progress' = p
  <2>1. progress' = [progress EXCEPT ![k] = Overwritten(log[i]), ![d] = p[d]]
    BY <1>1, <1>5 DEF revert_merge_decision
  <2>2. progress[k] = [u \in Reader |-> Max({p[k][u], p[d][u]})] /\ progress \in [Series -> Frontiers]
    BY <1>3, <1>6 DEF MergedProgress, TypeOK
  <2>3. \A s \in Series : s # k /\ s # d => progress[s] = p[s]
    BY <1>6 DEF MergedProgress
  <2>4. Overwritten(log[i]) = p[k]
    <3>1. p[k] \in [Reader -> 0..MaxRead] /\ p[d] \in [Reader -> 0..MaxRead]
      BY DEF Frontiers
    <3>2. Overwritten(log[i]) =
              [u \in Reader |-> IF p[d][u] > 0 THEN p[k][u] ELSE Max({p[k][u], p[d][u]})]
      BY <1>1, <1>5, <2>2 DEF Overwritten
    <3>3. ASSUME NEW u \in Reader
          PROVE  (IF p[d][u] > 0 THEN p[k][u] ELSE Max({p[k][u], p[d][u]})) = p[k][u]
      <4>1. p[d][u] \in Nat /\ p[k][u] \in Nat
        BY <3>1, MatchAssumption
      <4> QED
        BY <4>1, MaxOfTwo
    <3> QED
      BY <3>1, <3>2, <3>3
  <2>5. progress' \in [Series -> Frontiers] /\ \A s \in Series : progress'[s] = p[s]
    BY <1>3, <2>1, <2>2, <2>3, <2>4
  <2> QED
    BY <2>5
<1> QED
  BY <1>2, <1>7, <1>8

\* A revert follows the trail back, or breaks it.
LEMMA RevertTrail ==
    ASSUME TypeOK, Distinct, TrailInv, NEW i \in DOMAIN log, revert_merge_decision(i)
    PROVE  TrailInv'
<1>1. DOMAIN log' = DOMAIN log /\ trail \in Seq(DOMAIN log)
  BY RevertLog DEF TypeOK
<1>2. \A j \in DOMAIN log : /\ Journalled(log[j]) => Journalled(log'[j])
                            /\ After(log'[j]) = After(log[j]) /\ log'[j].past = log[j].past
  <2> SUFFICES ASSUME NEW j \in DOMAIN log
               PROVE  /\ Journalled(log[j]) => Journalled(log'[j])
                      /\ After(log'[j]) = After(log[j]) /\ log'[j].past = log[j].past
    OBVIOUS
  <2>1. /\ log'[j].keep = log[j].keep /\ log'[j].drop = log[j].drop /\ log'[j].watch = log[j].watch
        /\ log'[j].newWatch = log[j].newWatch /\ log'[j].progress = log[j].progress
        /\ log'[j].was = log[j].was /\ log'[j].past = log[j].past
    BY RevertKeeps
  <2> QED
    BY <2>1 DEF Journalled, After
<1>3. \A j \in DOMAIN log' : Journalled(log'[j])
  BY <1>1, <1>2 DEF TrailInv
<1>4. CASE Newest(i)
  <2>1. trail' = SubSeq(trail, 1, Len(trail) - 1) /\ trail # <<>> /\ trail[Len(trail)] = i
    BY <1>4 DEF revert_merge_decision, Newest
  <2>2. PICK m \in Nat : Len(trail) = m + 1
    BY <1>1, <2>1
  <2>3. Len(trail') = m /\ \A p \in 1..m : trail'[p] = trail[p]
    BY <1>1, <2>1, <2>2
  <2>4. \A p \in 1..(m + 1) : trail[p] \in DOMAIN log
    BY <1>1, <2>2
  <2>5. \A p \in 1..m : log[trail[p + 1]].past = After(log[trail[p]])
    BY <2>2 DEF TrailInv
  <2>6. \A p \in 1..(Len(trail') - 1) : log'[trail'[p + 1]].past = After(log'[trail'[p]])
    <3> SUFFICES ASSUME NEW p \in 1..(m - 1)
                 PROVE  log'[trail'[p + 1]].past = After(log'[trail'[p]])
      BY <2>3
    <3>1. p \in 1..m /\ p + 1 \in 1..m /\ p \in 1..(m + 1) /\ p + 1 \in 1..(m + 1)
      OBVIOUS
    <3>2. trail'[p + 1] = trail[p + 1] /\ trail'[p] = trail[p]
      BY <2>3, <3>1
    <3> QED
      BY <1>2, <2>4, <2>5, <3>1, <3>2
  <2>7. ASSUME trail' # <<>>
        PROVE  [watch |-> watch', progress |-> progress'] = After(log'[trail'[Len(trail')]])
    <3>1. m \in 1..m /\ m \in 1..(m + 1)
      <4>1. trail' \in Seq(DOMAIN log)
        BY <1>1, <2>1
      <4>2. Len(trail') # 0
        BY <2>7, <4>1
      <4> QED
        BY <2>3, <4>2
    <3>2. [watch |-> watch', progress |-> progress'] = log[i].past
      BY <1>4, RevertRestores
    <3>3. log[i].past = After(log[trail[m]])
      BY <2>1, <2>2, <2>5, <3>1
    <3>4. After(log'[trail'[m]]) = After(log[trail[m]])
      BY <1>2, <2>3, <2>4, <3>1
    <3> QED
      BY <2>3, <3>2, <3>3, <3>4
  <2> QED
    BY <1>3, <2>6, <2>7 DEF TrailInv
<1>5. CASE ~Newest(i)
  <2>1. trail' = <<>>
    BY <1>5 DEF revert_merge_decision
  <2>2. 1..(Len(trail') - 1) = {}
    BY <2>1
  <2> QED
    BY <1>3, <2>1, <2>2 DEF TrailInv
<1> QED
  BY <1>4, <1>5

\* Every step keeps the trail.
LEMMA TrailStep ==
    ASSUME TypeOK, Distinct, TrailInv, [Next]_vars
    PROVE  TrailInv'
<1>1. ASSUME log' = log, trail' = <<>> PROVE TrailInv'
  <2>1. 1..(Len(trail') - 1) = {}
    BY <1>1
  <2> QED
    BY <1>1, <2>1 DEF TrailInv
<1>2. ASSUME UNCHANGED <<log, trail, watch, progress>> PROVE TrailInv'
  BY <1>2 DEF TrailInv
<1>3. CASE Next
  <2>1. ASSUME NEW u \in Reader, NEW s \in Series, NEW n \in 1..MaxRead, ReadOn(u, s, n)
        PROVE  TrailInv'
    BY <1>1, <2>1 DEF ReadOn
  <2>2. ASSUME NEW u \in Reader, NEW s \in Series, ToggleWatch(u, s)
        PROVE  TrailInv'
    BY <1>1, <2>2 DEF ToggleWatch
  <2>3. ASSUME NEW s \in Series, NEW n \in Name, AddTitle(s, n)
        PROVE  TrailInv'
    BY <1>2, <2>3 DEF AddTitle
  <2>4. ASSUME NEW u \in Reader, DeleteAccount(u)
        PROVE  TrailInv'
    BY <1>1, <2>4 DEF DeleteAccount
  <2>5. ASSUME NEW s \in Series, DeleteOrphan(s)
        PROVE  TrailInv'
    BY <1>2, <2>5 DEF DeleteOrphan
  <2>6. ASSUME DrawShortlist PROVE TrailInv'
    BY <1>2, <2>6 DEF DrawShortlist
  <2> QED
    BY <1>3, <2>1, <2>2, <2>3, <2>4, <2>5, <2>6, StepCases, MergeTrail, RevertTrail
<1>4. CASE UNCHANGED vars
  BY <1>2, <1>4 DEF vars
<1> QED
  BY <1>3, <1>4

\* Reverts that come newest first give back exactly the watchlists and the progress from before each
\* merge (restore_overwritten_rows and the journal of what a merge created).
THEOREM RevertsUnwind == Spec => UnwindsExactly
<1>1. Init => TrailInv
  <2> SUFFICES ASSUME Init PROVE TrailInv
    OBVIOUS
  <2>1. trail = <<>> /\ DOMAIN log = {}
    BY DEF Init
  <2>2. 1..(Len(trail) - 1) = {}
    BY <2>1
  <2> QED
    BY <2>1, <2>2 DEF TrailInv
<1>2. TypeOK /\ Distinct /\ TrailInv /\ [Next]_vars => TrailInv'
  BY TrailStep
<1>3. TypeOK /\ Distinct /\ TrailInv /\ [Next]_vars =>
          \A i \in DOMAIN log :
              (log'[i].state # log[i].state /\ Newest(i)) =>
                  log[i].past = [watch |-> watch', progress |-> progress']
  BY StateChange, RevertRestores
<1>4. Spec => [](TypeOK /\ Distinct)
  BY ForwardingHolds, PTL DEF ForwardInv
<1>5. Spec => []TrailInv
  BY <1>1, <1>2, <1>4, PTL DEF Spec
<1> QED
  BY <1>3, <1>4, <1>5, PTL DEF Spec, UnwindsExactly
=============================================================================
