----------------------------- MODULE MatchMerge -----------------------------
(***************************************************************************)
(* Merging two series that look like one, and taking the merge back.  A    *)
(* merge moves or unions every row of the absorbed series onto the         *)
(* survivor, deletes it, leaves a forwarding address and journals what an  *)
(* inverse needs.  A revert spends the journal, suppresses the pair and    *)
(* takes the names the two share off the survivor.                         *)
(*                                                                         *)
(* The tables fall into the three shapes of the undo journal, and one of   *)
(* each is kept: rows that are re-pointed (series_sources), rows unioned   *)
(* with DO NOTHING (series_titles, watchlist_entries) and rows folded with *)
(* DO UPDATE (read_progress, its frontiers as one number).  Merges and     *)
(* reverts are single transactions, and steps here.                        *)
(*                                                                         *)
(* Three callers merge: the scored sweep, whose shortlist leaves out what  *)
(* was dismissed by then, and the orphan clean-up of the exhaustive sweep  *)
(* and the console, which do not ask.                                      *)
(*                                                                         *)
(* A definition marked Variant is the next one with a plausible defect.    *)
(***************************************************************************)
EXTENDS Integers, Sequences, FiniteSets, FiniteSetsExt

CONSTANTS
    Series,
    Name,        \* normalized titles
    Canon,       \* Canon[s]: the canonical title of s
    Source,
    Titled,      \* Titled[x]: what the provider calls the source
    Home,        \* Home[x]: the series it was first filed under
    Reader,
    MaxRead,     \* bound: how far readers read
    MaxSteps,    \* bound: merges, and what scans and readers do, in a behaviour
    None

ASSUME MatchAssumption ==
    /\ IsFiniteSet(Series) /\ IsFiniteSet(Name) /\ IsFiniteSet(Source) /\ IsFiniteSet(Reader)
    /\ Canon \in [Series -> Name]
    /\ Titled \in [Source -> Name] /\ Home \in [Source -> Series]
    /\ MaxRead \in Nat /\ MaxSteps \in Nat
    /\ None \notin Series

VARIABLES
    live,      \* the ids of the series table
    titles,    \* series_titles
    source,    \* series_sources.series_id
    watch,     \* watchlist_entries: the readers of each series
    progress,  \* read_progress: the frontier, 0 where there is no row
    forward,   \* series_merges: where an absorbed id went
    apart,     \* merge_candidates: the pairs that are dismissed
    listed,    \* the pairs on the shortlists of the passes under way
    readers,   \* the accounts that exist
    log,       \* merge_decisions
    acts,
    trail      \* history: the merges that can be unwound newest first, untouched since

vars == <<live, titles, source, watch, progress, forward, apart, listed, readers, log, acts, trail>>

-----------------------------------------------------------------------------
Frontiers == [Reader -> 0..MaxRead]

\* The undo journal with its decision; past is history.
Decision ==
    [keep : Series, drop : Series, state : {"merged", "reverted", "lost"},
     titles : SUBSET Name, watch : SUBSET Reader, progress : Frontiers,         \* what cascades away
     was : Frontiers,                                                          \* what is overwritten
     newTitles : SUBSET Name, newWatch : SUBSET Reader,                        \* what is created
     sources : SUBSET Source, recompressed : SUBSET Series,                    \* what is re-pointed
     past : [watch : [Series -> SUBSET Reader], progress : [Series -> Frontiers]]]

TypeOK ==
    /\ live \subseteq Series
    /\ titles \in [Series -> SUBSET Name]
    /\ source \in [Source -> live]
    /\ watch \in [Series -> SUBSET readers]
    /\ progress \in [Series -> Frontiers]
    /\ forward \in [Series -> Series \union {None}]
    /\ \A pair \in apart : pair \subseteq live /\ Cardinality(pair) = 2
    /\ listed \subseteq SUBSET Series
    /\ readers \subseteq Reader
    /\ log \in Seq(Decision)
    /\ acts \in 0..MaxSteps
    /\ trail \in Seq(DOMAIN log)
    /\ \A s \in Series \ live : titles[s] = {} /\ watch[s] = {} /\ \A u \in Reader : progress[s][u] = 0

\* The merges that were taken back, and those in force.
Reverted == {i \in DOMAIN log : log[i].state = "reverted"}
Active   == {i \in DOMAIN log : log[i].state # "reverted"}

Names(s)     == {Canon[s]} \union titles[s]
SourcesOf(s) == {x \in Source : source[x] = s}

-----------------------------------------------------------------------------
(* merge_series.                                                           *)

MoreSteps == Len(log) + acts < MaxSteps

NoRows == [u \in Reader |-> 0]

\* Variant: aliases of the absorbed series keep pointing at it.
ForwardOnly(k, d) == [forward EXCEPT ![d] = k]

\* forward_merged_id: path compression, then the new address.
Forwarded(k, d) == [s \in Series |-> IF s = d \/ forward[s] = d THEN k ELSE forward[s]]

\* Variant: every name the absorbed series brought is journalled as created.
CreatedAll(old, brought) == brought

\* RETURNING under DO NOTHING: the rows that were really inserted.
Created(old, brought) == brought \ old

\* capture, and what each statement of the merge returns.
Journal(k, d, state) ==
    [keep |-> k, drop |-> d, state |-> state,
     titles |-> titles[d], watch |-> watch[d], progress |-> progress[d],
     was |-> [u \in Reader |-> IF progress[d][u] > 0 THEN progress[k][u] ELSE 0],
     newTitles |-> Created(titles[k], Names(d)),
     newWatch |-> Created(watch[k], watch[d]),
     sources |-> SourcesOf(d),
     recompressed |-> {s \in Series : forward[s] = d},
     past |-> [watch |-> watch, progress |-> progress]]

merge_series(k, d, state) ==
    /\ k # d /\ {k, d} \subseteq live
    /\ MoreSteps
    /\ live' = live \ {d}
    /\ source' = [x \in Source |-> IF source[x] = d THEN k ELSE source[x]]
    /\ titles' = [titles EXCEPT ![k] = @ \union Names(d), ![d] = {}]
    /\ watch' = [watch EXCEPT ![k] = @ \union watch[d], ![d] = {}]
    /\ progress' = [progress EXCEPT ![k] = [u \in Reader |-> Max({@[u], progress[d][u]})], ![d] = NoRows]
    /\ forward' = Forwarded(k, d)
    /\ apart' = {pair \in apart : d \notin pair}     \* the candidates of d cascade away
    /\ log' = Append(log, Journal(k, d, state))
    /\ trail' = Append(trail, Len(log) + 1)
    /\ UNCHANGED <<listed, readers, acts>>

\* The shortlists: pairs of existing series, without those an operator dismissed.
Candidates == {pair \in SUBSET live : Cardinality(pair) = 2} \ apart

\* A pass of the scored sweep begins with its shortlist.  Passes overlap (the scheduled one, and those
\* of an exhaustive run), so the ones before it may be over or not ...
DrawShortlist ==
    /\ listed' \in {Candidates, listed \union Candidates}
    /\ UNCHANGED <<live, titles, source, watch, progress, forward, apart, readers, log, acts, trail>>

\* ... and it merges pairs of its list without asking again, each journalled if it lives to do so.
SweepMerge(k, d, state) ==
    /\ {k, d} \in listed
    /\ merge_series(k, d, state)

\* clean_up_orphans, before the rounds of an exhaustive sweep: a series without a source is merged
\* into one that has a source and the same canonical title.  merge_candidates is not asked, and of
\* several twins any may be on the list, which is older than the merge.
MergeTwin(k, d, state) ==
    /\ SourcesOf(d) = {} /\ SourcesOf(k) # {}
    /\ Canon[k] = Canon[d]
    /\ merge_series(k, d, state)

\* The console's merge asks nothing of the pair and drops the journal.
OperatorMerge(k, d) == merge_series(k, d, "lost")

-----------------------------------------------------------------------------
(* revert_merge_decision.                                                  *)

\* Variant: a merge is reverted although its survivor was absorbed since.
RevertibleAlways(e) == e.drop \notin live

\* check_revertible.
Revertible(e) == e.drop \notin live /\ e.keep \in live

\* remove_forwarding: the compression is undone, and the address goes.
Unforwarded(e) ==
    [s \in Series |->
        IF s \in e.recompressed THEN e.drop
        ELSE IF s = e.drop /\ forward[s] = e.keep THEN None
        ELSE forward[s]]

\* Variant: alternative titles of the survivor only, so that the absorbed canonical title stays.
SharedTitles(keep, kept, drop, restored) == kept \intersect restored

\* disentangle: the names both answer to, but for the survivor's canonical title.
Shared(keep, kept, drop, restored) ==
    (({Canon[keep]} \union kept) \intersect ({Canon[drop]} \union restored)) \ {Canon[keep]}

\* Variant: the revert leaves the pair to the next sweep.
NotSuppressed(k, d) == apart

\* suppress_pair.
Suppressed(k, d) == apart \union {{k, d}}

\* restore_overwritten_rows.
Overwritten(e) == [u \in Reader |-> IF e.progress[u] > 0 THEN e.was[u] ELSE progress[e.keep][u]]

\* The merge behind decision i is the newest on the trail.
Newest(i) == trail # <<>> /\ trail[Len(trail)] = i

revert_merge_decision(i) ==
    LET e      == log[i]
        k      == e.keep
        d      == e.drop
        kept   == titles[k] \ e.newTitles
        shared == Shared(k, kept, d, e.titles)
    IN  /\ e.state = "merged"
        /\ Revertible(e)
        \* The rows that go back name accounts that still exist, or the transaction fails.
        /\ e.watch \union {u \in Reader : e.progress[u] > 0} \subseteq readers
        /\ live' = live \union {d}
        /\ titles' = [titles EXCEPT ![k] = kept \ shared, ![d] = e.titles]
        /\ source' = [x \in Source |->
                         IF x \in e.sources \/ (source[x] = k /\ Titled[x] \in shared) THEN d ELSE source[x]]
        /\ watch' = [watch EXCEPT ![k] = @ \ e.newWatch, ![d] = e.watch]
        /\ progress' = [progress EXCEPT ![k] = Overwritten(e), ![d] = e.progress]
        /\ forward' = Unforwarded(e)
        /\ apart' = Suppressed(k, d)
        /\ log' = [log EXCEPT ![i].state = "reverted"]
        /\ trail' = IF Newest(i) THEN SubSeq(trail, 1, Len(trail) - 1) ELSE <<>>
        /\ UNCHANGED <<listed, readers, acts>>

-----------------------------------------------------------------------------
(* What goes on around merges.                                             *)

Act == MoreSteps /\ acts' = acts + 1

\* A reader sets the progress, starts or stops to watch a series.
ReadOn(u, s, n) ==
    /\ Act
    /\ u \in readers /\ s \in live
    /\ progress' = [progress EXCEPT ![s][u] = n]
    /\ trail' = <<>>
    /\ UNCHANGED <<live, titles, source, watch, forward, apart, listed, readers, log>>

ToggleWatch(u, s) ==
    /\ Act
    /\ u \in readers /\ s \in live
    /\ watch' = [watch EXCEPT ![s] = IF u \in @ THEN @ \ {u} ELSE @ \union {u}]
    /\ trail' = <<>>
    /\ UNCHANGED <<live, titles, source, progress, forward, apart, listed, readers, log>>

\* A scan files an alternative title.
AddTitle(s, n) ==
    /\ Act
    /\ s \in live
    /\ titles' = [titles EXCEPT ![s] = @ \union {n}]
    /\ UNCHANGED <<live, source, watch, progress, forward, apart, listed, readers, log, trail>>

\* A reader's account is deleted with everything it owns; the journal keeps its rows.
DeleteAccount(u) ==
    /\ Act
    /\ u \in readers
    /\ readers' = readers \ {u}
    /\ watch' = [s \in Series |-> watch[s] \ {u}]
    /\ progress' = [s \in Series |-> [progress[s] EXCEPT ![u] = 0]]
    /\ trail' = <<>>
    /\ UNCHANGED <<live, titles, source, forward, apart, listed, log>>

\* The predicate of delete_unreferenced_orphans: no source, no reader, and no id forwarded to it.
Unreferenced(s) ==
    /\ SourcesOf(s) = {} /\ watch[s] = {} /\ \A u \in Reader : progress[s][u] = 0
    /\ \A t \in Series : forward[t] # s

\* The rest of clean_up_orphans: a sourceless series that nothing refers to is deleted.
DeleteOrphan(s) ==
    /\ Act
    /\ s \in live
    /\ Unreferenced(s)
    /\ live' = live \ {s}
    /\ titles' = [titles EXCEPT ![s] = {}]
    /\ apart' = {pair \in apart : s \notin pair}
    /\ UNCHANGED <<source, watch, progress, forward, listed, readers, log, trail>>

-----------------------------------------------------------------------------
Init ==
    /\ live = Series
    /\ titles \in {t \in [Series -> SUBSET Name] : \A s \in Series : Canon[s] \notin t[s]}
    /\ source = Home
    /\ progress \in [Series -> Frontiers]
    /\ watch = [s \in Series |-> {u \in Reader : progress[s][u] > 0}]
    /\ forward = [s \in Series |-> None]
    /\ apart = {}
    /\ listed = Candidates
    /\ readers = Reader
    /\ log = <<>>
    /\ acts = 0
    /\ trail = <<>>

Next ==
    \/ DrawShortlist
    \/ \E k, d \in Series :
          \/ \E state \in {"merged", "lost"} : SweepMerge(k, d, state) \/ MergeTwin(k, d, state)
          \/ OperatorMerge(k, d)
    \/ \E i \in DOMAIN log : revert_merge_decision(i)
    \/ \E u \in Reader, s \in Series :
          \/ ToggleWatch(u, s)
          \/ \E n \in 1..MaxRead : ReadOn(u, s, n)
    \/ \E s \in Series, n \in Name : AddTitle(s, n)
    \/ \E u \in Reader : DeleteAccount(u)
    \/ \E s \in Series : DeleteOrphan(s)

Spec == Init /\ [][Next]_vars

-----------------------------------------------------------------------------
(* Properties.                                                             *)

\* Forwarding is one hop deep and ends at a series that exists, and no absorbed id is without its
\* address, through chains of merges, their reverts in any order the code admits, merges of ids that
\* were restored before, and the deletion of series that nothing refers to.
ForwardsOneHop ==
    /\ \A s \in Series : forward[s] # None => s \notin live /\ forward[s] \in live
    /\ \A i \in Active : forward[log[i].drop] # None

\* Reverting newest first gives every reader back exactly the watchlist and the progress from before
\* the merge, unless somebody read, watched or left since or an older merge was reverted out of turn:
\* what the merge created is removed, what it overwrote is restored, and what the survivor had is kept.
UnwindsExactly ==
    [][\A i \in DOMAIN log :
          (log'[i].state # log[i].state /\ Newest(i)) =>
              log[i].past = [watch |-> watch', progress |-> progress']]_vars

\* A revert leaves the two series with no name in common but the survivor's own, whatever either was
\* given while they were one.
RevertSeparates ==
    [][\A i \in DOMAIN log :
          log'[i].state # log[i].state =>
              Names(log[i].keep)' \intersect Names(log[i].drop)' \subseteq {Canon[log[i].keep]}]_vars

\* A pair that an operator has separated comes onto a shortlist again only when one of the two was
\* absorbed by a third series in between (which takes the dismissal with it), whatever the clean-up of
\* orphans and the console did to the pair meanwhile.  It is the shortlist that a dismissal binds: a
\* list drawn before it, and MergeTwin, may still merge the pair.
SeparatedStaysApart ==
    [][\A i \in Reverted :
          {log[i].keep, log[i].drop} \in listed' \ listed
          => \E j \in DOMAIN log : /\ j > i /\ log[j].drop \in {log[i].keep, log[i].drop}
                                   /\ log[j].keep \notin {log[i].keep, log[i].drop}]_vars
=============================================================================
