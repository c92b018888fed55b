----------------------------- MODULE SyncMerge -----------------------------
(***************************************************************************)
(* One reader, one tracker, and the linked group of local series that one  *)
(* remote entry stands for.  The account pass merges the two sides three   *)
(* ways against the recorded ancestor, the targeted push asserts the local *)
(* side after an edit, and an operator resolves conflicts and reverts      *)
(* journalled decisions.  None of them takes a lock: each reads, plans,    *)
(* and then writes one statement or one provider call at a time, while the *)
(* reader edits both sides.                                                *)
(*                                                                         *)
(* The recorded ancestor is the one thing here that is not the reader's    *)
(* own: sync_mappings keeps it per series and provider, so the passes,     *)
(* pushes and reverts of every other reader of the series overwrite it     *)
(* with what their tracker entries hold (OtherReader).                     *)
(*                                                                         *)
(* A plan is a sequence of writes (`todo`); a failed write drops the rest. *)
(* A definition marked Variant is the next one with a plausible defect.    *)
(***************************************************************************)
EXTENDS Integers, Sequences, FiniteSets, SequencesExt, Ordered

CONSTANTS
    Linked,      \* the local series mapped to the external id, in mapping_linked_series' order
    MaxChapter,  \* bound: the highest whole chapter
    Status,      \* watch statuses; Reading is the default one
    Reading,
    Policies,    \* the conflict policies a pass can run under: the account's, or an override
    Start,       \* the entry a group that has been synced before starts from
    Foreign,     \* the pairs that other readers of the series agree on with their trackers
    MaxEdits,    \* bound: the reader's edits
    MaxRequests, \* bound: the operator's requests
    MaxUpsets,   \* bound: failed statements and calls, crashes, and what other readers record
    None         \* no row, no entry, no ancestor

ASSUME SyncAssumption ==
    /\ Linked \in Seq(Range(Linked)) /\ Linked # <<>> /\ IsInjective(Linked)
    /\ MaxChapter \in Nat
    /\ Reading \in Status
    /\ Policies \subseteq {"local_wins", "remote_wins", "newest_wins", "ask_me"}
    /\ Start \in [progress : 0..MaxChapter, status : Status]
    /\ Foreign \subseteq [progress : 0..MaxChapter, status : Status]
    /\ MaxEdits \in Nat /\ MaxRequests \in Nat /\ MaxUpsets \in Nat
    /\ None \notin Nat \union Status \union Range(Linked)

VARIABLES
    local,      \* the reader's rows: progress, watchlist status and exclusion of each series
    remote,     \* the tracker's entry, or None
    ancestor,   \* the freshest recorded snapshot of the group, whoever recorded it, or None
    conflict,   \* the pending conflict rows: Series -> field -> the two values, or None
    journal,    \* applied decisions that have an inverse
    owed,       \* series with an edit whose targeted push has not started
    proc,       \* where the pass, the push and the operator's request are
    edits,      \* the reader's so far
    requests,   \* the operator's so far
    upsets,     \* failures and other readers' snapshots so far
    held,       \* history: every entry the tracker has held
    restored,   \* history: the entry the last revert of a push put back
    own         \* history: the snapshot that this reader's own processes recorded last, or None

vars == <<local, remote, ancestor, conflict, journal, owed, proc, edits, requests, upsets, held, restored, own>>

-----------------------------------------------------------------------------
Series  == Range(Linked)
Chapter == 0..MaxChapter
Field   == {"progress", "status"}
Entry   == [progress : Chapter, status : Status]
Proc    == {"pass", "push", "operator"}
At      == {"idle", "fetched", "loaded", "writing"}
Rows    == [progress : [Series -> Chapter \union {None}],
            status   : [Series -> Status \union {None}],
            excluded : SUBSET Series]

Idle == [at |-> "idle", todo |-> <<>>, notes |-> {}, remote |-> None, view |-> None]

Included(v) == Series \ v.excluded
Tracked(v)  == {s \in Series : v.progress[s] # None \/ v.status[s] # None}
Members(v)  == Included(v) \intersect Tracked(v)

\* The first of the series in S in mapping_linked_series' order.
First(S) == CHOOSE s \in S : \E i \in DOMAIN Linked : s = Linked[i] /\ \A j \in DOMAIN Linked : Linked[j] \in S => i <= j

-----------------------------------------------------------------------------
(* mapping.rs and plan.rs: the three-way merge of one field and of a pair. *)
(* Both halves of a snapshot are always recorded equal, so the ancestor of *)
(* a field is one value.  The two clocks that NewestWins compares belong   *)
(* to two machines: `newer` is whichever side they make the newer one.     *)

resolve_conflict(policy, newer) ==
    CASE policy = "local_wins"  -> "push"
      [] policy = "remote_wins" -> "pull"
      [] policy = "newest_wins" -> IF newer = "local" THEN "push" ELSE "pull"
      [] policy = "ask_me"      -> "conflict"

three_way(l, r, a, policy, newer) ==
    CASE l = r -> "noop"
      [] r = a -> "push"
      [] l = a -> "pull"
      [] OTHER -> resolve_conflict(policy, newer)

\* plan_group: the highest frontier of the included members...
Frontier(v) ==
    LET S == {v.progress[s] : s \in Included(v)} \ {None}
    IN  IF S = {} THEN 0 ELSE CHOOSE p \in S : \A q \in S : q <= p

\* ... the member the caller arrived at, or the first one if that is excluded ...
Primary(v, preferred) ==
    IF preferred \in Included(v) THEN preferred
    ELSE First(Included(v))

\* ... and that member's status, or else the first one there is.
StatusOf(v, p) ==
    LET listed == {s \in Included(v) : v.status[s] # None}
    IN  IF v.status[p] # None \/ listed = {} THEN v.status[p] ELSE v.status[First(listed)]

-----------------------------------------------------------------------------
(* The writes a plan consists of, one SQL statement or one call each, but  *)
(* for a member's, which are up to three.                                  *)

SetProgress(s, p)    == [op |-> "progress", s |-> s, p |-> p]
SetStatus(s, st)     == [op |-> "status", s |-> s, st |-> st]
Unlist(s)            == SetStatus(s, None)
Queue(s, f, l, r)    == [op |-> "conflict", s |-> s, row |-> [g \in {f} |-> [local |-> l, remote |-> r]]]
Close(s, f)          == [op |-> "conflict", s |-> s, row |-> [g \in {f} |-> None]]
SaveEntry(e)         == [op |-> "remote", v |-> e]
RecordSnapshot(e)    == [op |-> "snapshot", v |-> e]
Flush                == [op |-> "flush"]
Mark(d)              == [op |-> "mark", v |-> d]
Mirror(s, e)         == [op |-> "mirror", s |-> s, v |-> e]
Member(s, e, due)    == [op |-> "member", s |-> s, v |-> e, due |-> due]

When(b, w) == IF b THEN <<w>> ELSE <<>>

\* LinkedSeries::apply for one member: the fields that are due, then the snapshot.
MemberWrites(w) ==
    When("progress" \in w.due, SetProgress(w.s, w.v.progress))
      \o When("status" \in w.due, SetStatus(w.s, w.v.status))
      \o <<RecordSnapshot(w.v)>>

\* Variant: the write-back skips a member that has no progress row yet.
MirrorOfRow(v, s, e) ==
    {f \in Field : IF f = "progress" THEN v.progress[s] \notin {None, e.progress}
                   ELSE v.status[s] \notin {None, e.status}}

\* plan_mirror for one member: what is due to bring it to entry e.  No row already says "nothing read".
MirrorOf(v, s, e) ==
    {f \in Field : IF f = "progress"
                   THEN IF v.progress[s] = None THEN e.progress > 0 ELSE v.progress[s] # e.progress
                   ELSE v.status[s] \notin {None, e.status}}

\* settle: bring every tracked member to the agreed pair, and record it as the ancestor.
Settle(v, s, e) ==
    LET members == Selected(Linked, {i \in DOMAIN Linked : Linked[i] \in Members(v)})
    IN  When(s \notin Members(v), RecordSnapshot(e))
          \o [i \in DOMAIN members |-> Member(members[i], e, MirrorOf(v, members[i], e))]

-----------------------------------------------------------------------------
(* plan_merge and apply_merge for primary p, whose group has status st.    *)

\* The field actions, given the fetched entry r, the ancestor a and the newer side.
ProgressAction(v, r, a, pol, n) ==
    three_way(Frontier(v), r.progress, IF a = None THEN None ELSE a.progress, pol, n)

LocalStatus(st, r) == IF st = None THEN r.status ELSE st

StatusAction(st, r, a, pol, n) ==
    three_way(LocalStatus(st, r), r.status, IF a = None THEN None ELSE a.status, pol, n)

\* What either side should hold once an action has been carried out.
Survivor(action, l, r) == IF action \in {"push", "noop"} THEN l ELSE r

\* Variant: the snapshot is refreshed although a field is still in conflict.
SnapshotAnyway(pa, sa, agreed, v, p) == Settle(v, p, agreed)

\* The refreshed ancestor and the write-backs, unless a conflict was left pending.
SettleUnlessConflict(pa, sa, agreed, v, p) ==
    IF "conflict" \in {pa, sa} THEN <<>> ELSE Settle(v, p, agreed)

\* The pair both sides are to hold.
Agreed(v, st, r, pa, sa) ==
    [progress |-> Survivor(pa, Frontier(v), r.progress),
     status   |-> Survivor(sa, LocalStatus(st, r), r.status)]

\* import_status, merge_progress and merge_status: the writes to the primary, and the conflicts.
FieldWrites(v, p, st, r, pa, sa) ==
    When(st = None, SetStatus(p, r.status))
      \o When(pa = "pull", SetProgress(p, r.progress))
      \o When(pa = "conflict", Queue(p, "progress", Frontier(v), r.progress))
      \o When(sa = "pull", SetStatus(p, r.status))
      \o When(sa = "conflict", Queue(p, "status", LocalStatus(st, r), r.status))

\* Variant: the ancestor is recorded before the tracker has taken the write.
MergeWritesEager(v, p, st, r, pa, sa) ==
    FieldWrites(v, p, st, r, pa, sa)
      \o SettleUnlessConflict(pa, sa, Agreed(v, st, r, pa, sa), v, p)
      \o When("push" \in {pa, sa}, SaveEntry(Agreed(v, st, r, pa, sa)))

\* apply_merge: the fields, then the single remote write for both, then the snapshot.
MergeWrites(v, p, st, r, pa, sa) ==
    FieldWrites(v, p, st, r, pa, sa)
      \o When("push" \in {pa, sa}, SaveEntry(Agreed(v, st, r, pa, sa)))
      \o SettleUnlessConflict(pa, sa, Agreed(v, st, r, pa, sa), v, p)

PulledProgress(s, before) == [action |-> "pull", s |-> s, progress |-> before]
PulledStatus(s, before)   == [action |-> "pull", s |-> s, status |-> before]
Pushed(before)            == [action |-> "push", entry |-> before]

\* The decisions journalled on the way that have an inverse: what the merge wrote ...
MergeNotes(v, p, st, r, pa, sa) ==
    (IF st = None THEN {[action |-> "import", s |-> p]} ELSE {})
      \union (IF pa = "pull" THEN {PulledProgress(p, Frontier(v))} ELSE {})
      \union (IF sa = "pull" THEN {PulledStatus(p, st)} ELSE {})
      \union (IF "push" \in {pa, sa} THEN {Pushed(r)} ELSE {})

\* ... and what settle wrote to the other members.
MirrorNotes(v, p, e) ==
    LET others == Members(v) \ {p}
    IN  {PulledProgress(s, v.progress[s]) : s \in {t \in others : v.progress[t] \notin {None, e.progress}}}
          \union {PulledStatus(s, v.status[s]) : s \in {t \in others : v.status[t] \notin {None, e.status}}}

-----------------------------------------------------------------------------
\* The reader's rows: T is tracked, at entry e.
RowsAt(T, e) ==
    [progress |-> [s \in Series |-> IF s \in T THEN e.progress ELSE None],
     status   |-> [s \in Series |-> IF s \in T THEN e.status ELSE None],
     excluded |-> {}]

\* A group that is new to the tracker, or in step with it through one series or all; one whose tracker
\* entry is older than the account and ahead of it; or one both sides of which have been edited while
\* the account was not being synced.  What is still to come is bounded accordingly.
Init ==
    /\ \/ /\ edits \in {0, MaxEdits}
          /\ requests = IF edits = 0 THEN MaxRequests ELSE 0
          /\ upsets = 0
          /\ \E T \in {{}, {Head(Linked)}, Series} :
               /\ local = RowsAt(T, Start)
               /\ remote = IF T = {} THEN None ELSE Start
          /\ ancestor = remote
       \/ /\ edits = MaxEdits /\ requests = 0 /\ upsets = MaxUpsets
          /\ local = RowsAt({Head(Linked)}, Start)
          /\ remote \in {e \in Entry : e.progress > Start.progress /\ e.status # Start.status}
          /\ ancestor = None
       \/ /\ edits = MaxEdits /\ requests = MaxRequests /\ upsets = MaxUpsets
          /\ local \in Rows
          /\ remote \in Entry
          /\ ancestor \in {None, Start}
    /\ held = {remote, ancestor} \ {None}
    /\ own = ancestor
    /\ conflict = [s \in Series |-> [f \in Field |-> None]]
    /\ journal = {}
    /\ owed = {}
    /\ proc = [p \in Proc |-> Idle]
    /\ restored = None

-----------------------------------------------------------------------------
(* The reader.  An edit of the local side asks for a targeted push; the    *)
(* switch that suppresses it is the failure of a push that has not begun.  *)

Edit == edits < MaxEdits /\ edits' = edits + 1 /\ UNCHANGED <<requests, upsets>>

EditLocal(l, s, push) ==
    /\ l # local
    /\ local' = l
    /\ owed' = IF push THEN owed \union {s} ELSE owed
    /\ Edit
    /\ restored' = None
    /\ UNCHANGED <<remote, ancestor, conflict, journal, proc, held, own>>

ReadChapter(s, c) == EditLocal([local EXCEPT !.progress[s] = c], s, TRUE)

ChangeStatus(s, st) == EditLocal([local EXCEPT !.status[s] = st], s, TRUE)

\* watchlist_remove and the exclusion switch ask for no push.
RemoveFromWatchlist(s) == EditLocal([local EXCEPT !.status[s] = None], s, FALSE)

ToggleExcluded(s) ==
    EditLocal([local EXCEPT !.excluded = IF s \in @ THEN @ \ {s} ELSE @ \union {s}], s, FALSE)

\* The reader edits the entry at the tracker.
EditRemote(e) ==
    /\ e # remote
    /\ remote' = e
    /\ held' = held \union {e}
    /\ Edit
    /\ restored' = None
    /\ UNCHANGED <<local, ancestor, conflict, journal, owed, proc, own>>

Reader ==
    \/ \E s \in Series, c \in Chapter : ReadChapter(s, c)
    \/ \E s \in Series, st \in Status : ChangeStatus(s, st)
    \/ \E s \in Series : RemoveFromWatchlist(s) \/ ToggleExcluded(s)
    \/ \E e \in Entry : EditRemote(e)

-----------------------------------------------------------------------------
(* reconcile_account: fetch_list, LocalState::load, then the group's merge *)
(* against the ancestor as it is by then.                                  *)

PassFetch ==
    /\ proc["pass"].at = "idle"
    /\ proc' = [proc EXCEPT !["pass"] = [Idle EXCEPT !.at = "fetched", !.remote = remote]]
    /\ UNCHANGED <<local, remote, ancestor, conflict, journal, owed, edits, requests, upsets, held, restored, own>>

PassLoad ==
    /\ proc["pass"].at = "fetched"
    /\ proc' = [proc EXCEPT !["pass"].at = "loaded", !["pass"].view = local]
    /\ UNCHANGED <<local, remote, ancestor, conflict, journal, owed, edits, requests, upsets, held, restored, own>>

PassWrites(todo, notes) ==
    /\ proc' = [proc EXCEPT !["pass"] = [Idle EXCEPT !.at = "writing", !.todo = todo \o <<Flush>>, !.notes = notes]]
    /\ UNCHANGED <<local, remote, ancestor, conflict, journal, owed, edits, requests, upsets, held, restored, own>>

\* reconcile_fetched: both sides exist.
PassMerge(preferred, pol, n) ==
    LET v == proc["pass"].view
        r == proc["pass"].remote
    IN  /\ proc["pass"].at = "loaded"
        /\ r # None
        /\ Included(v) # {}
        /\ LET p  == Primary(v, preferred)
               st == StatusOf(v, p)
               pa == ProgressAction(v, r, ancestor, pol, n)
               sa == StatusAction(st, r, ancestor, pol, n)
               e  == Agreed(v, st, r, pa, sa)
           IN  PassWrites(MergeWrites(v, p, st, r, pa, sa),
                            MergeNotes(v, p, st, r, pa, sa)
                              \union (IF "conflict" \in {pa, sa} THEN {} ELSE MirrorNotes(v, p, e)))

\* reconcile_watchlist: a series on the watchlist has no remote entry yet, so create it.
PassCreate(preferred) ==
    LET v == proc["pass"].view
    IN  /\ proc["pass"].at = "loaded"
        /\ proc["pass"].remote = None
        /\ local.status[preferred] # None
        /\ Included(v) # {}
        /\ LET p  == Primary(v, preferred)
               st == StatusOf(v, p)
               e  == [progress |-> Frontier(v), status |-> IF st = None THEN Reading ELSE st]
           IN  PassWrites(<<SaveEntry(e)>> \o Settle(v, p, e), MirrorNotes(v, p, e))

\* Every member is excluded, or nothing on the watchlist asks for an entry.
PassSkip ==
    /\ proc["pass"].at = "loaded"
    /\ \/ Included(proc["pass"].view) = {}
       \/ proc["pass"].remote = None /\ \A s \in Series : local.status[s] = None
    /\ PassWrites(<<>>, {})

Pass ==
    \/ PassFetch
    \/ PassLoad
    \/ \E s \in Series, pol \in Policies, n \in {"local", "remote"} : PassMerge(s, pol, n)
    \/ \E s \in Series : PassCreate(s)
    \/ PassSkip

-----------------------------------------------------------------------------
(* push_inner: assert the local side, then settle the group it belongs to. *)

\* save_entry, then settle reads the members and plans their write-backs.
PushTodo(s, e) == <<SaveEntry(e), Mirror(s, e)>>

\* Variant: a series that is not on the watchlist is pushed without a status.
PushedEntryBare(s) ==
    [progress |-> IF local.progress[s] = None THEN 0 ELSE local.progress[s], status |-> local.status[s]]

\* The local pair of one series, with the defaults of one that has no row.
PushedEntry(s) ==
    [progress |-> IF local.progress[s] = None THEN 0 ELSE local.progress[s],
     status   |-> IF local.status[s] = None THEN Reading ELSE local.status[s]]

PushStart(s) ==
    /\ proc["push"].at = "idle"
    /\ s \in owed
    /\ owed' = owed \ {s}
    /\ restored' = None
    /\ IF s \in local.excluded
       THEN UNCHANGED proc
       ELSE proc' = [proc EXCEPT !["push"] =
                       [Idle EXCEPT !.at = "writing", !.todo = PushTodo(s, PushedEntry(s))]]
    /\ UNCHANGED <<local, remote, ancestor, conflict, journal, edits, requests, upsets, held, own>>

-----------------------------------------------------------------------------
(* The operator: ConflictService::resolve and RevertService::revert.       *)

OperatorWrites(todo) ==
    /\ proc["operator"].at = "idle"
    /\ requests < MaxRequests
    /\ requests' = requests + 1
    /\ proc' = [proc EXCEPT !["operator"] = [Idle EXCEPT !.at = "writing", !.todo = todo]]
    /\ restored' = None
    /\ UNCHANGED <<local, remote, ancestor, conflict, journal, owed, edits, upsets, held, own>>

\* The chosen side is the value the conflict was queued with; the other field is read now.
Resolve(s, f, side) ==
    LET c == conflict[s][f]
    IN  /\ c # None
        /\ OperatorWrites(
             <<CASE side = "remote" /\ f = "progress" -> SetProgress(s, c.remote)
                 [] side = "remote" /\ f = "status"   -> SetStatus(s, c.remote)
                 [] side = "local"                    -> SaveEntry([PushedEntry(s) EXCEPT ![f] = c.local]),
               Close(s, f)>>)

\* revert_import, revert_push and revert_pull.
Undo(d) ==
    CASE d.action = "import" -> <<Unlist(d.s)>>
      [] d.action = "push"   -> <<SaveEntry(d.entry), RecordSnapshot(d.entry)>>
      [] d.action = "pull"   -> IF "progress" \in DOMAIN d THEN <<SetProgress(d.s, d.progress)>>
                                ELSE <<SetStatus(d.s, d.status)>>

Revert(d) ==
    /\ d \in journal
    /\ OperatorWrites(Undo(d) \o <<Mark(d)>>)

Operator ==
    \/ \E s \in Series, f \in Field, side \in {"local", "remote"} : Resolve(s, f, side)
    \/ \E d \in journal : Revert(d)

-----------------------------------------------------------------------------
(* The writes.                                                             *)

\* What one write does to the rows and to the tracker; a pending conflict keeps its first values.
Effect(db, w) ==
    CASE w.op = "progress" -> [db EXCEPT !.local.progress[w.s] = w.p]
      [] w.op = "status"   -> [db EXCEPT !.local.status[w.s] = w.st]
      [] w.op = "conflict" ->
           [db EXCEPT !.conflict[w.s] = [f \in Field |->
              IF f \in DOMAIN w.row /\ (@[f] = None \/ w.row[f] = None) THEN w.row[f] ELSE @[f]]]
      [] w.op = "remote"   -> [db EXCEPT !.remote = w.v]
      [] w.op = "snapshot" -> [db EXCEPT !.ancestor = w.v]
      [] OTHER             -> db

Db == [local |-> local, remote |-> remote, ancestor |-> ancestor, conflict |-> conflict]

\* The write that is next.
NextWrite(p) ==
    LET w == Head(proc[p].todo)
    IN  IF w.op = "member" THEN Head(MemberWrites(w)) ELSE w

\* What is left to do after it; the settle of a push reads the members here.
Rest(p) ==
    LET w == Head(proc[p].todo)
    IN  IF w.op = "mirror" THEN Settle(local, w.s, w.v)
        ELSE IF w.op = "member" /\ w.due # {}
        THEN <<[w EXCEPT !.due = IF "progress" \in @ THEN @ \ {"progress"} ELSE {}]>> \o Tail(proc[p].todo)
        ELSE Tail(proc[p].todo)

Step(p) ==
    LET w  == NextWrite(p)
        db == Effect(Db, w)
    IN  /\ proc[p].at = "writing"
        /\ local' = db.local
        /\ remote' = db.remote
        /\ ancestor' = db.ancestor
        /\ conflict' = db.conflict
        /\ held' = IF w.op = "remote" THEN held \union {w.v} ELSE held
        /\ journal' = CASE w.op = "flush" -> journal \union proc[p].notes
                        [] w.op = "mark"  -> journal \ {w.v}
                        [] OTHER          -> journal
        /\ proc' = [proc EXCEPT ![p] = IF Rest(p) = <<>> THEN Idle ELSE [@ EXCEPT !.todo = Rest(p)]]
        /\ restored' = IF w.op = "mark" /\ w.v.action = "push" /\ remote = w.v.entry
                            /\ \A q \in Proc \ {p} : proc[q].at = "idle"
                       THEN w.v.entry ELSE restored
        /\ own' = IF w.op = "snapshot" THEN w.v ELSE own
        /\ UNCHANGED <<owed, edits, requests, upsets>>

\* A statement or a call fails, or the process dies: what is left of the plan is dropped.
Fail(p) ==
    /\ proc[p].at # "idle"
    /\ upsets < MaxUpsets
    /\ upsets' = upsets + 1
    /\ proc' = [proc EXCEPT ![p] = Idle]
    /\ UNCHANGED <<local, remote, ancestor, conflict, journal, owed, edits, requests, held, restored, own>>

\* A pass, push or revert of another reader records what that reader and their tracker agree on.
OtherReader(e) ==
    /\ upsets < MaxUpsets
    /\ upsets' = upsets + 1
    /\ ancestor' = e
    /\ UNCHANGED <<local, remote, conflict, journal, owed, proc, edits, requests, held, restored, own>>

Next ==
    \/ Reader
    \/ \E e \in Foreign : OtherReader(e)
    \/ Pass
    \/ \E s \in Series : PushStart(s)
    \/ Operator
    \/ \E p \in Proc : Step(p) \/ Fail(p)

Spec == Init /\ [][Next]_vars

\* Passes are scheduled again and again, a push that was asked for starts, and a process that is
\* up takes its next step.
FairSpec ==
    /\ Spec
    /\ WF_vars(Pass)
    /\ WF_vars(\E s \in Series : PushStart(s))
    /\ \A p \in Proc : WF_vars(Step(p))

-----------------------------------------------------------------------------
(* The reference for one pass: the documented rule, field by field.        *)

\* The values the two sides may end with.
Outcomes(l, r, a) ==
    CASE l = r             -> {<<l, l>>}
      [] l # r /\ a = r    -> {<<l, l>>}
      [] l # r /\ a = l    -> {<<r, r>>}
      [] OTHER             -> UNION {CASE pol = "local_wins"  -> {<<l, l>>}
                                       [] pol = "remote_wins" -> {<<r, r>>}
                                       [] pol = "newest_wins" -> {<<l, l>>, <<r, r>>}
                                       [] pol = "ask_me"      -> {<<l, r>>} : pol \in Policies}

Planned ==
    /\ proc["pass"].at = "loaded"
    /\ proc'["pass"].at = "writing"
    /\ proc["pass"].remote # None
    /\ Included(proc["pass"].view) # {}

\* The rows and the entry once the plan has been carried out on what the pass has read.
Outcome ==
    FoldLeft(LAMBDA db, w : IF w.op = "member" THEN FoldLeft(Effect, db, MemberWrites(w)) ELSE Effect(db, w),
             [local |-> proc["pass"].view, remote |-> proc["pass"].remote,
              ancestor |-> ancestor, conflict |-> conflict],
             proc'["pass"].todo)

\* Every included series that is tracked in `known` holds entry e.
InStep(known, v, e) ==
    \A s \in Included(known) \intersect Tracked(known) :
      /\ e.progress = IF v.progress[s] = None THEN 0 ELSE v.progress[s]
      /\ v.status[s] \in {None, e.status}

\* The outcome is that of a three-way merge against `base`.
MergedAgainst(base) ==
    LET v == proc["pass"].view
        r == proc["pass"].remote
        a == IF base = None THEN [progress |-> None, status |-> None] ELSE base
        out == Outcome
    IN  \E s \in Included(v) :
        \E po \in Outcomes(Frontier(v), r.progress, a.progress) :
        \E so \in Outcomes(LocalStatus(StatusOf(v, s), r), r.status, a.status) :
          /\ out.remote = [progress |-> po[2], status |-> so[2]]
          /\ IF po[1] = po[2] /\ so[1] = so[2]
             THEN /\ out.ancestor = out.remote
                  /\ InStep(v, out.local, out.remote)
                  /\ out.conflict = conflict
             ELSE /\ out.ancestor = ancestor
                  /\ po[1] # po[2] => out.local.progress = v.progress /\ out.conflict[s]["progress"] # None
                  /\ so[1] # so[2] => out.local.status = v.status /\ out.conflict[s]["status"] # None

\* The tracker has what the watchlist has, and the included series are in step with it.
Resting ==
    \/ Included(local) = {}
    \/ remote = None /\ \A s \in Series : local.status[s] = None
    \/ remote # None /\ InStep(local, local, remote)

ConflictPending == \E s \in Series, f \in Field : conflict[s][f] # None

-----------------------------------------------------------------------------
(* Properties.                                                             *)

\* Every row, entry, plan and decision has the shape its table or message gives it.
TypeOK ==
    /\ local \in Rows
    /\ remote \in Entry \union {None}
    /\ ancestor \in Entry \union {None}
    /\ DOMAIN conflict = Series
    /\ owed \subseteq Series
    /\ \A p \in Proc : proc[p].at \in At /\ (proc[p].at = "writing" <=> proc[p].todo # <<>>)
    /\ held \subseteq Entry

\* Whatever failed or raced in between, the pair that this reader's pass, push or request recorded as
\* the ancestor is one this reader's tracker has really held: record_snapshot follows save_entry, and a
\* pair that was pulled had been fetched.
RecordedWasHeld == own # None => own \in held

\* The pass carries out the three-way merge it is documented to be: with nothing in between, a
\* field that one side changed ends with that value on both sides, one that both changed follows
\* the policy, a field in conflict keeps both values and is queued, and the ancestor moves with
\* the two sides and only if nothing is in conflict.  The ancestor is the recorded one, whosever.
MergeAgrees == [][Planned => MergedAgainst(ancestor)]_vars

\* However passes, pushes, edits and failures interleave, the two sides come to rest once the
\* reader stops: the tracker and every included tracked series agree, or a conflict is waiting.
\* Other readers move the ancestor, and not the sides.
ComesToRest == <>[](Resting \/ ConflictPending)

\* A pass tells which side has changed since this reader last synced, as the snapshot is there for: it
\* merges against the pair that this reader's own processes recorded last.
EditsAreRecognised == [][Planned => MergedAgainst(own)]_vars

\* A reverted push stays reverted until somebody edits, pushes or decides again.
RevertSticks == restored # None => remote = restored
=============================================================================
