-------------------------- MODULE SyncMergeProofs --------------------------
(***************************************************************************)
(* Proofs about SyncMerge: the tables, the plans and the decisions keep    *)
(* their types, and every snapshot that the reader's own processes record  *)
(* is a pair that the tracker has held, for any group of series, any       *)
(* policies, any number of edits, requests and failures, and whatever      *)
(* other readers write into the shared ancestor meanwhile: of that row     *)
(* the invariant says no more than that it is a pair.                      *)
(*                                                                         *)
(* RecordedWasHeld is not inductive: nothing in it keeps a process from    *)
(* being about to record a pair that no one has saved.  HeldInv says of    *)
(* every plan that whatever it still records has been held, or is saved    *)
(* by an earlier write of the same plan; since a failure drops the rest of *)
(* a plan and never a write in its middle, that is enough.  The plan of a  *)
(* pass that saves nothing agrees on the pair that was fetched.            *)
(***************************************************************************)
EXTENDS SyncMerge

\* A pending conflict has the two values of its field.
Pair(f)  == IF f = "progress" THEN [local : Chapter, remote : Chapter] ELSE [local : Status, remote : Status]
Pending  == {c \in [Field -> Pair("progress") \union Pair("status") \union {None}] :
               \A f \in Field : c[f] \in Pair(f) \union {None}}

\* A journalled decision.
Decision == [action : {"import"}, s : Series]
              \union [action : {"pull"}, s : Series, progress : Chapter]
              \union [action : {"pull"}, s : Series, status : Status \union {None}]
              \union [action : {"push"}, entry : Entry]

\* An item of a plan.
Write ==
    [op : {"progress"}, s : Series, p : Chapter]
      \union [op : {"status"}, s : Series, st : Status \union {None}]
      \union [op : {"conflict"}, s : Series, row : [{"progress"} -> Pair("progress") \union {None}]]
      \union [op : {"conflict"}, s : Series, row : [{"status"} -> Pair("status") \union {None}]]
      \union [op : {"remote", "snapshot"}, v : Entry]
      \union [op : {"mirror"}, s : Series, v : Entry]
      \union [op : {"member"}, s : Series, v : Entry, due : SUBSET Field]
      \union [op : {"flush"}]
      \union [op : {"mark"}, v : Decision]

Process == [at : At, todo : Seq(Write), notes : SUBSET Decision, remote : Entry \union {None},
            view : Rows \union {None}]

\* The items that end in a snapshot of w.v.
Records(w) == w.op \in {"snapshot", "mirror", "member"}

\* Whatever a plan records is in H, or is saved by an earlier item.
Safe(todo, H) ==
    \A i \in DOMAIN todo : Records(todo[i]) =>
        todo[i].v \in H \/ \E j \in DOMAIN todo : j < i /\ todo[j] = SaveEntry(todo[i].v)

\* A process that has fetched one of H, and records nothing else before it has saved it.
Sound(x, H) ==
    /\ x.at = "writing" <=> x.todo # <<>>
    /\ x.at = "loaded" => x.view \in Rows
    /\ x.remote \in H \union {None}
    /\ Safe(x.todo, H)

HeldInv ==
    /\ local \in Rows /\ conflict \in [Series -> Pending]
    /\ journal \in SUBSET Decision /\ owed \in SUBSET Series
    /\ held \in SUBSET Entry
    /\ ancestor \in Entry \union {None}
    /\ remote \in held \union {None} /\ own \in held \union {None}
    /\ proc \in [Proc -> Process]
    /\ \A p \in Proc : Sound(proc[p], held)

-----------------------------------------------------------------------------
(* What a plan is computed from.                                           *)

\* The first of some series is one of them.
LEMMA FirstMember ==
    ASSUME NEW S \in SUBSET Series, S # {}
    PROVE  First(S) \in S
<1>1. PICK I : I = {i \in DOMAIN Linked : Linked[i] \in S}
  OBVIOUS
<1>2. I \in SUBSET Nat /\ I # {}
  <2>1. DOMAIN Linked = 1..Len(Linked) /\ Len(Linked) \in Nat
    BY SyncAssumption
  <2>2. \E i \in DOMAIN Linked : Linked[i] \in S
    BY DEF Series, Range
  <2> QED
    BY <1>1, <2>1, <2>2
<1>3. PICK i \in I : \A j \in I : i <= j
  BY <1>2, LeastMember
<1>4. \E s \in S : \E k \in DOMAIN Linked : s = Linked[k] /\ \A j \in DOMAIN Linked : Linked[j] \in S => k <= j
  BY <1>1, <1>3
<1> QED
  BY <1>4 DEF First

\* The frontier of a group is a chapter.
LEMMA FrontierType ==
    ASSUME NEW v \in Rows
    PROVE  Frontier(v) \in Chapter
<1>1. MaxChapter \in Nat
  BY SyncAssumption
<1>2. PICK S : S = {v.progress[s] : s \in Included(v)} \ {None}
  OBVIOUS
<1>3. S \in SUBSET Chapter
  <2>1. v.progress \in [Series -> Chapter \union {None}]
    BY DEF Rows
  <2> QED
    BY <1>2, <2>1 DEF Included
<1>4. CASE S = {}
  <2>1. Frontier(v) = 0
    BY <1>2, <1>4 DEF Frontier
  <2> QED
    BY <1>1, <2>1 DEF Chapter
<1>5. CASE S # {}
  <2>1. PICK T : T = {MaxChapter - x : x \in S}
    OBVIOUS
  <2>a. \A x \in S : x \in Nat /\ MaxChapter - x \in Nat
    <3>1. \A x \in 0..MaxChapter : x \in Nat /\ MaxChapter - x \in Nat
      BY <1>1
    <3> QED
      BY <1>3, <3>1 DEF Chapter
  <2>2. T \in SUBSET Nat /\ T # {}
    BY <1>5, <2>1, <2>a
  <2>3. PICK t \in T : \A y \in T : t <= y
    BY <2>2, LeastMember
  <2>4. PICK p \in S : t = MaxChapter - p
    BY <2>1
  <2>5. \A q \in S : q <= p
    <3>1. \A q \in S : MaxChapter - p <= MaxChapter - q /\ q \in Nat /\ p \in Nat
      BY <2>1, <2>3, <2>4, <2>a
    <3> QED
      BY <1>1, <3>1
  <2>6. Frontier(v) = CHOOSE x \in S : \A q \in S : q <= x
    BY <1>2, <1>5 DEF Frontier
  <2>7. Frontier(v) \in S
    BY <2>5, <2>6
  <2> QED
    BY <1>3, <2>7
<1> QED
  BY <1>4, <1>5

\* The primary is a series of the group, and the group's status one of a member.
LEMMA PrimaryType ==
    ASSUME NEW v \in Rows, NEW preferred \in Series, Included(v) # {}
    PROVE  Primary(v, preferred) \in Series
<1>1. Included(v) \in SUBSET Series
  BY DEF Included
<1>2. First(Included(v)) \in Included(v)
  BY <1>1, FirstMember
<1> QED
  BY <1>1, <1>2 DEF Primary

\* The group's status.
LEMMA StatusOfType ==
    ASSUME NEW v \in Rows, NEW p \in Series
    PROVE  StatusOf(v, p) \in Status \union {None}
<1>1. v.status \in [Series -> Status \union {None}]
  BY DEF Rows
<1>2. PICK L : L = {s \in Included(v) : v.status[s] # None}
  OBVIOUS
<1>3. StatusOf(v, p) = IF v.status[p] # None \/ L = {} THEN v.status[p] ELSE v.status[First(L)]
  BY <1>2 DEF StatusOf
<1>4. L \in SUBSET Series
  BY <1>2 DEF Included
<1>5. L # {} => First(L) \in Series
  BY <1>4, FirstMember
<1> QED
  BY <1>1, <1>3, <1>5

\* The pair a merge agrees on is an entry, and the fetched one if neither field is pushed or queued.
LEMMA AgreedType ==
    ASSUME NEW v \in Rows, NEW st \in Status \union {None}, NEW r \in Entry, NEW pa, NEW sa
    PROVE  Agreed(v, st, r, pa, sa) \in Entry
<1>1. Frontier(v) \in Chapter /\ r.progress \in Chapter /\ r.status \in Status
  BY FrontierType DEF Entry
<1>2. LocalStatus(st, r) \in Status
  BY <1>1 DEF LocalStatus
<1> QED
  BY <1>1, <1>2 DEF Agreed, Survivor, Entry

\* The reading of a field either side agrees to: unless it is pushed, the fetched value.
LEMMA ThreeWayFetched ==
    ASSUME NEW pol \in Policies, NEW n, NEW l, NEW r, NEW a, three_way(l, r, a, pol, n) # "push"
    PROVE  Survivor(three_way(l, r, a, pol, n), l, r) = r
<1>1. pol \in {"local_wins", "remote_wins", "newest_wins", "ask_me"}
  BY SyncAssumption
<1>2. resolve_conflict(pol, n) \in {"push", "pull", "conflict"}
  BY <1>1 DEF resolve_conflict
<1>3. CASE l = r
  BY <1>3 DEF Survivor
<1>4. CASE l # r
  <2>1. three_way(l, r, a, pol, n) \in {"push", "pull", "conflict"}
    BY <1>2, <1>4 DEF three_way
  <2> QED
    BY <2>1 DEF Survivor
<1> QED
  BY <1>3, <1>4

\* Without a push, both sides are to hold what was fetched.
LEMMA AgreedFetched ==
    ASSUME NEW v \in Rows, NEW st \in Status \union {None}, NEW r \in Entry, NEW a,
           NEW pol \in Policies, NEW n, NEW pa, NEW sa,
           pa = ProgressAction(v, r, a, pol, n), sa = StatusAction(st, r, a, pol, n),
           "push" \notin {pa, sa}
    PROVE  Agreed(v, st, r, pa, sa) = r
<1>1. Survivor(pa, Frontier(v), r.progress) = r.progress
  BY ThreeWayFetched DEF ProgressAction
<1>2. Survivor(sa, LocalStatus(st, r), r.status) = r.status
  BY ThreeWayFetched DEF StatusAction
<1>3. r = [progress |-> r.progress, status |-> r.status]
  BY DEF Entry
<1> QED
  BY <1>1, <1>2, <1>3 DEF Agreed

-----------------------------------------------------------------------------
(* The items of a plan.                                                    *)

\* What the constructors build is an item.
LEMMA WriteTypes ==
    /\ \A s \in Series, c \in Chapter : SetProgress(s, c) \in Write
    /\ \A s \in Series, st \in Status \union {None} : SetStatus(s, st) \in Write
    /\ \A s \in Series, l, r \in Chapter : Queue(s, "progress", l, r) \in Write
    /\ \A s \in Series, l, r \in Status : Queue(s, "status", l, r) \in Write
    /\ \A s \in Series, f \in Field : Close(s, f) \in Write
    /\ \A e \in Entry : SaveEntry(e) \in Write /\ RecordSnapshot(e) \in Write
    /\ \A s \in Series, e \in Entry : Mirror(s, e) \in Write
    /\ \A s \in Series, e \in Entry, due \in SUBSET Field : Member(s, e, due) \in Write
    /\ Flush \in Write
    /\ \A d \in Decision : Mark(d) \in Write
<1>1. \A s \in Series, c \in Chapter : SetProgress(s, c) \in Write
  BY DEF SetProgress, Write
<1>2. \A s \in Series, st \in Status \union {None} : SetStatus(s, st) \in Write
  BY DEF SetStatus, Write
<1>3. \A s \in Series, l, r \in Chapter : Queue(s, "progress", l, r) \in Write
  BY DEF Queue, Write, Pair
<1>4. \A s \in Series, l, r \in Status : Queue(s, "status", l, r) \in Write
  BY DEF Queue, Write, Pair
<1>5. \A s \in Series, f \in Field : Close(s, f) \in Write
  BY DEF Close, Write, Field
<1>6. \A e \in Entry : SaveEntry(e) \in Write /\ RecordSnapshot(e) \in Write
  BY DEF SaveEntry, RecordSnapshot, Write
<1>7. \A s \in Series, e \in Entry : Mirror(s, e) \in Write
  BY DEF Mirror, Write
<1>8. \A s \in Series, e \in Entry, due \in SUBSET Field : Member(s, e, due) \in Write
  BY DEF Member, Write
<1>9. Flush \in Write
  BY DEF Flush, Write
<1>10. \A d \in Decision : Mark(d) \in Write
  BY DEF Mark, Write
<1> QED
  BY <1>1, <1>2, <1>3, <1>4, <1>5, <1>6, <1>7, <1>8, <1>9, <1>10

\* What an item consists of.
LEMMA WriteFields ==
    ASSUME NEW w \in Write
    PROVE  /\ w.op \in {"progress", "status", "conflict", "remote", "snapshot", "mirror", "member", "flush", "mark"}
           /\ w.op = "progress" => w.s \in Series /\ w.p \in Chapter
           /\ w.op = "status" => w.s \in Series /\ w.st \in Status \union {None}
           /\ w.op = "conflict" => w.s \in Series
           /\ w.op = "conflict" => \/ w.row \in [{"progress"} -> Pair("progress") \union {None}]
                                   \/ w.row \in [{"status"} -> Pair("status") \union {None}]
           /\ w.op \in {"remote", "snapshot", "mirror", "member"} => w.v \in Entry
           /\ w.op \in {"mirror", "member"} => w.s \in Series
           /\ w.op = "member" => w.due \in SUBSET Field /\ w = Member(w.s, w.v, w.due)
           /\ w.op = "remote" => w = SaveEntry(w.v)
           /\ w.op = "mark" => w.v \in Decision
<1>1. CASE w \in [op : {"progress"}, s : Series, p : Chapter]
  BY <1>1
<1>2. CASE w \in [op : {"status"}, s : Series, st : Status \union {None}]
  BY <1>2
<1>3. CASE w \in [op : {"conflict"}, s : Series, row : [{"progress"} -> Pair("progress") \union {None}]]
  BY <1>3
<1>4. CASE w \in [op : {"conflict"}, s : Series, row : [{"status"} -> Pair("status") \union {None}]]
  BY <1>4
<1>5. CASE w \in [op : {"remote", "snapshot"}, v : Entry]
  BY <1>5 DEF SaveEntry
<1>6. CASE w \in [op : {"mirror"}, s : Series, v : Entry]
  BY <1>6
<1>7. CASE w \in [op : {"member"}, s : Series, v : Entry, due : SUBSET Field]
  BY <1>7 DEF Member
<1>8. CASE w \in [op : {"flush"}]
  BY <1>8
<1>9. CASE w \in [op : {"mark"}, v : Decision]
  BY <1>9
<1> QED
  BY <1>1, <1>2, <1>3, <1>4, <1>5, <1>6, <1>7, <1>8, <1>9 DEF Write

\* What the constructors build records, or does not.
LEMMA WriteRecords ==
    /\ \A s, c : ~Records(SetProgress(s, c))
    /\ \A s, st : ~Records(SetStatus(s, st))
    /\ \A s, f, l, r : ~Records(Queue(s, f, l, r))
    /\ \A s, f : ~Records(Close(s, f))
    /\ \A e : ~Records(SaveEntry(e))
    /\ ~Records(Flush) /\ \A d : ~Records(Mark(d))
    /\ \A e : RecordSnapshot(e).v = e
    /\ \A s, e : Mirror(s, e).v = e
    /\ \A s, e, due : Member(s, e, due).v = e
  BY DEF Records, SetProgress, SetStatus, Queue, Close, SaveEntry, Flush, Mark, RecordSnapshot, Mirror, Member

-----------------------------------------------------------------------------
(* Plans.                                                                  *)

\* Nothing in a plan records, or whatever does records e.
Quiet(todo)      == \A i \in DOMAIN todo : ~Records(todo[i])
OnlyOf(todo, e)  == \A i \in DOMAIN todo : Records(todo[i]) => todo[i].v = e

\* An item that is there on a condition.
LEMMA WhenPlan ==
    ASSUME NEW b \in BOOLEAN, NEW w, b => w \in Write
    PROVE  /\ When(b, w) \in Seq(Write)
           /\ ~Records(w) => Quiet(When(b, w))
           /\ \A e : (Records(w) => w.v = e) => OnlyOf(When(b, w), e)
           /\ b => 1 \in DOMAIN When(b, w) /\ When(b, w)[1] = w
<1>1. CASE b
  <2>1. When(b, w) = <<w>> /\ DOMAIN <<w>> = {1} /\ <<w>>[1] = w
    BY <1>1 DEF When
  <2>2. <<w>> \in Seq(Write)
    BY <1>1
  <2> QED
    BY <2>1, <2>2 DEF Quiet, OnlyOf
<1>2. CASE ~b
  <2>1. When(b, w) = <<>> /\ DOMAIN <<>> = {}
    BY <1>2 DEF When
  <2>2. <<>> \in Seq(Write)
    OBVIOUS
  <2> QED
    BY <1>2, <2>1, <2>2 DEF Quiet, OnlyOf
<1> QED
  BY <1>1, <1>2

\* The indexes of one plan after another.
LEMMA ConcatIndex ==
    ASSUME NEW a \in Seq(Write), NEW b \in Seq(Write)
    PROVE  /\ a \o b \in Seq(Write)
           /\ \A i \in DOMAIN a : i \in DOMAIN (a \o b) /\ (a \o b)[i] = a[i]
           /\ \A i \in DOMAIN (a \o b) :
                \/ i \in DOMAIN a /\ (a \o b)[i] = a[i]
                \/ \E k \in DOMAIN b : /\ (a \o b)[i] = b[k]
                                       /\ \A j \in DOMAIN a : j < i
                                       /\ i = Len(a) + k
           /\ \A k \in DOMAIN b : Len(a) + k \in DOMAIN (a \o b) /\ (a \o b)[Len(a) + k] = b[k]
<1>1. a \o b \in Seq(Write) /\ Len(a) \in Nat /\ Len(b) \in Nat /\ Len(a \o b) = Len(a) + Len(b)
  OBVIOUS
<1>2. DOMAIN a = 1..Len(a) /\ DOMAIN b = 1..Len(b) /\ DOMAIN (a \o b) = 1..(Len(a) + Len(b))
  BY <1>1
<1>3. \A i \in 1..(Len(a) + Len(b)) : (a \o b)[i] = IF i <= Len(a) THEN a[i] ELSE b[i - Len(a)]
  BY <1>1
<1>4. PICK m \in Nat, n \in Nat : m = Len(a) /\ n = Len(b)
  BY <1>1
<1>5. \A i \in DOMAIN a : i \in DOMAIN (a \o b) /\ (a \o b)[i] = a[i]
  BY <1>2, <1>3, <1>4
<1>6. \A k \in DOMAIN b : Len(a) + k \in DOMAIN (a \o b) /\ (a \o b)[Len(a) + k] = b[k]
  <2> SUFFICES ASSUME NEW k \in 1..n PROVE m + k \in 1..(m + n) /\ (a \o b)[m + k] = b[k]
    BY <1>2, <1>4
  <2>1. m + k \in 1..(m + n) /\ ~(m + k <= m) /\ (m + k) - m = k
    BY <1>4
  <2> QED
    BY <1>3, <1>4, <2>1
<1>7. ASSUME NEW i \in DOMAIN (a \o b), i \notin DOMAIN a
      PROVE  \E k \in DOMAIN b : (a \o b)[i] = b[k] /\ (\A j \in DOMAIN a : j < i) /\ i = Len(a) + k
  <2>1. i \in 1..(m + n) /\ i \notin 1..m
    BY <1>2, <1>4, <1>7
  <2>2. ~(i <= m) /\ i - m \in 1..n /\ i = m + (i - m) /\ \A j \in 1..m : j < i
    BY <2>1
  <2>3. (a \o b)[i] = b[i - m]
    BY <1>3, <1>4, <2>1, <2>2
  <2> QED
    BY <1>2, <1>4, <2>2, <2>3
<1> QED
  BY <1>1, <1>5, <1>6, <1>7

\* Plans that record nothing, or only e, stay so one after the other.
LEMMA ConcatPlan ==
    ASSUME NEW a \in Seq(Write), NEW b \in Seq(Write)
    PROVE  /\ a \o b \in Seq(Write)
           /\ Quiet(a) /\ Quiet(b) => Quiet(a \o b)
           /\ \A e : OnlyOf(a, e) /\ OnlyOf(b, e) => OnlyOf(a \o b, e)
  BY ConcatIndex DEF Quiet, OnlyOf

\* Recording e is safe once e has been held, or behind a write that saves it.
LEMMA SafeAppend ==
    ASSUME NEW a \in Seq(Write), NEW b \in Seq(Write), NEW H, NEW e, Quiet(a), OnlyOf(b, e),
           e \in H \/ \E j \in DOMAIN a : a[j] = SaveEntry(e)
    PROVE  Safe(a \o b, H)
<1> SUFFICES ASSUME NEW i \in DOMAIN (a \o b), Records((a \o b)[i])
             PROVE  (a \o b)[i].v \in H \/ \E j \in DOMAIN (a \o b) : j < i /\ (a \o b)[j] = SaveEntry((a \o b)[i].v)
  BY DEF Safe
<1>1. PICK k \in DOMAIN b : (a \o b)[i] = b[k] /\ \A j \in DOMAIN a : j < i
  BY ConcatIndex DEF Quiet
<1>2. (a \o b)[i].v = e
  BY <1>1 DEF OnlyOf
<1> QED
  BY <1>1, <1>2, ConcatIndex

\* A plan stays safe with something behind it that records nothing.
LEMMA SafeThenQuiet ==
    ASSUME NEW a \in Seq(Write), NEW b \in Seq(Write), NEW H, Safe(a, H), Quiet(b)
    PROVE  Safe(a \o b, H)
<1> SUFFICES ASSUME NEW i \in DOMAIN (a \o b), Records((a \o b)[i])
             PROVE  (a \o b)[i].v \in H \/ \E j \in DOMAIN (a \o b) : j < i /\ (a \o b)[j] = SaveEntry((a \o b)[i].v)
  BY DEF Safe
<1>1. i \in DOMAIN a /\ (a \o b)[i] = a[i]
  BY ConcatIndex DEF Quiet
<1>2. a[i].v \in H \/ \E j \in DOMAIN a : j < i /\ a[j] = SaveEntry(a[i].v)
  BY <1>1 DEF Safe
<1> QED
  BY <1>1, <1>2, ConcatIndex

\* What a settle plans is items, and they record the settled pair.
LEMMA SettlePlan ==
    ASSUME NEW v \in Rows, NEW s \in Series, NEW e \in Entry
    PROVE  Settle(v, s, e) \in Seq(Write) /\ OnlyOf(Settle(v, s, e), e)
<1>1. PICK K : K = {i \in DOMAIN Linked : Linked[i] \in Members(v)}
  OBVIOUS
<1>2. PICK M : M = Selected(Linked, K)
  OBVIOUS
<1>3. M \in Seq(Series)
  <2>1. Linked \in Seq(Series) /\ K \in SUBSET DOMAIN Linked
    BY <1>1, SyncAssumption DEF Series
  <2> QED
    BY <1>2, <2>1, SelectedFrom
<1>4. PICK P : P = [i \in DOMAIN M |-> Member(M[i], e, MirrorOf(v, M[i], e))]
  OBVIOUS
<1>5. Settle(v, s, e) = When(s \notin Members(v), RecordSnapshot(e)) \o P
  BY <1>1, <1>2, <1>4 DEF Settle
<1>6. \A i \in DOMAIN M : P[i] = Member(M[i], e, MirrorOf(v, M[i], e)) /\ P[i] \in Write /\ P[i].v = e
  <2>1. \A i \in DOMAIN M : M[i] \in Series /\ MirrorOf(v, M[i], e) \in SUBSET Field
    BY <1>3 DEF MirrorOf
  <2> QED
    BY <1>4, <2>1, WriteTypes, WriteRecords
<1>7. P \in Seq(Write) /\ DOMAIN P = DOMAIN M
  <2>1. DOMAIN M = 1..Len(M) /\ Len(M) \in Nat
    BY <1>3
  <2>2. P \in [1..Len(M) -> Write]
    BY <1>4, <1>6, <2>1
  <2> QED
    BY <1>4, <2>1, <2>2
<1>8. OnlyOf(P, e)
  BY <1>6, <1>7 DEF OnlyOf
<1>9. When(s \notin Members(v), RecordSnapshot(e)) \in Seq(Write)
        /\ OnlyOf(When(s \notin Members(v), RecordSnapshot(e)), e)
  <2>1. PICK b \in BOOLEAN : b = (s \notin Members(v))
    OBVIOUS
  <2>2. PICK w \in Write : w = RecordSnapshot(e) /\ w.v = e
    BY WriteTypes, WriteRecords
  <2>3. When(b, w) \in Seq(Write) /\ OnlyOf(When(b, w), e)
    BY <2>2, WhenPlan
  <2> QED
    BY <2>1, <2>2, <2>3
<1> QED
  BY <1>5, <1>7, <1>8, <1>9, ConcatPlan

\* What a merge writes to the fields is items, and they record nothing.
LEMMA FieldPlan ==
    ASSUME NEW v \in Rows, NEW p \in Series, NEW st \in Status \union {None}, NEW r \in Entry, NEW pa, NEW sa
    PROVE  FieldWrites(v, p, st, r, pa, sa) \in Seq(Write) /\ Quiet(FieldWrites(v, p, st, r, pa, sa))
<1>1. Frontier(v) \in Chapter /\ r.progress \in Chapter /\ r.status \in Status /\ LocalStatus(st, r) \in Status
  BY FrontierType DEF Entry, LocalStatus
<1>2. \A b \in BOOLEAN, w \in Write : ~Records(w) => When(b, w) \in Seq(Write) /\ Quiet(When(b, w))
  BY WhenPlan
<1>3. \A b \in BOOLEAN : When(b, SetStatus(p, r.status)) \in Seq(Write) /\ Quiet(When(b, SetStatus(p, r.status)))
  BY <1>1, <1>2, WriteTypes, WriteRecords
<1>4. \A b \in BOOLEAN : When(b, SetProgress(p, r.progress)) \in Seq(Write) /\ Quiet(When(b, SetProgress(p, r.progress)))
  BY <1>1, <1>2, WriteTypes, WriteRecords
<1>5. PICK q \in Write : q = Queue(p, "progress", Frontier(v), r.progress) /\ ~Records(q)
  BY <1>1, WriteTypes, WriteRecords
<1>6. PICK x \in Write : x = Queue(p, "status", LocalStatus(st, r), r.status) /\ ~Records(x)
  BY <1>1, WriteTypes, WriteRecords
<1>7. PICK a1 \in Seq(Write) : a1 = When(st = None, SetStatus(p, r.status)) /\ Quiet(a1)
  BY <1>3
<1>8. PICK a2 \in Seq(Write) : a2 = When(pa = "pull", SetProgress(p, r.progress)) /\ Quiet(a2)
  BY <1>4
<1>9. PICK a3 \in Seq(Write) : a3 = When(pa = "conflict", q) /\ Quiet(a3)
  BY <1>2, <1>5
<1>10. PICK a4 \in Seq(Write) : a4 = When(sa = "pull", SetStatus(p, r.status)) /\ Quiet(a4)
  BY <1>3
<1>11. PICK a5 \in Seq(Write) : a5 = When(sa = "conflict", x) /\ Quiet(a5)
  BY <1>2, <1>6
<1>12. FieldWrites(v, p, st, r, pa, sa) = a1 \o a2 \o a3 \o a4 \o a5
  BY <1>5, <1>6, <1>7, <1>8, <1>9, <1>10, <1>11 DEF FieldWrites
<1>13. a1 \o a2 \in Seq(Write) /\ Quiet(a1 \o a2)
  BY <1>7, <1>8, ConcatPlan
<1>14. a1 \o a2 \o a3 \in Seq(Write) /\ Quiet(a1 \o a2 \o a3)
  BY <1>9, <1>13, ConcatPlan
<1>15. a1 \o a2 \o a3 \o a4 \in Seq(Write) /\ Quiet(a1 \o a2 \o a3 \o a4)
  BY <1>10, <1>14, ConcatPlan
<1>16. a1 \o a2 \o a3 \o a4 \o a5 \in Seq(Write) /\ Quiet(a1 \o a2 \o a3 \o a4 \o a5)
  BY <1>11, <1>15, ConcatPlan
<1> QED
  BY <1>12, <1>16

\* The plan of a merge is items; it is safe, since what it records it has saved or fetched.
LEMMA MergePlan ==
    ASSUME NEW v \in Rows, NEW p \in Series, NEW st \in Status \union {None}, NEW H, NEW r \in Entry, r \in H,
           NEW a, NEW pol \in Policies, NEW n, NEW pa, NEW sa,
           pa = ProgressAction(v, r, a, pol, n), sa = StatusAction(st, r, a, pol, n)
    PROVE  MergeWrites(v, p, st, r, pa, sa) \in Seq(Write) /\ Safe(MergeWrites(v, p, st, r, pa, sa), H)
<1>1. PICK e \in Entry : e = Agreed(v, st, r, pa, sa)
  BY AgreedType
<1>2. PICK f \in Seq(Write) : f = FieldWrites(v, p, st, r, pa, sa) /\ Quiet(f)
  BY FieldPlan
<1>3. PICK w \in Write : w = SaveEntry(e) /\ ~Records(w)
  BY WriteTypes, WriteRecords
<1>4. PICK b \in BOOLEAN : b <=> "push" \in {pa, sa}
  <2>1. CASE "push" \in {pa, sa}
    BY <2>1
  <2>2. CASE "push" \notin {pa, sa}
    BY <2>2
  <2> QED
    BY <2>1, <2>2
<1>5. PICK g \in Seq(Write) : g = When(b, w) /\ Quiet(g) /\ (b => 1 \in DOMAIN g /\ g[1] = w)
  BY <1>3, WhenPlan
<1>6. PICK c \in Seq(Write) : c = SettleUnlessConflict(pa, sa, e, v, p) /\ OnlyOf(c, e)
  <2>1. CASE "conflict" \in {pa, sa}
    <3>1. SettleUnlessConflict(pa, sa, e, v, p) = <<>> /\ <<>> \in Seq(Write) /\ DOMAIN <<>> = {}
      BY <2>1 DEF SettleUnlessConflict
    <3> QED
      BY <3>1 DEF OnlyOf
  <2>2. CASE "conflict" \notin {pa, sa}
    BY <2>2, SettlePlan DEF SettleUnlessConflict
  <2> QED
    BY <2>1, <2>2
<1>7. MergeWrites(v, p, st, r, pa, sa) = f \o g \o c
  <2>1. When("push" \in {pa, sa}, w) = When(b, w)
    BY <1>4 DEF When
  <2> QED
    BY <1>1, <1>2, <1>3, <1>5, <1>6, <2>1 DEF MergeWrites
<1>8. f \o g \in Seq(Write) /\ Quiet(f \o g)
  BY <1>2, <1>5, ConcatPlan
<1>9. e \in H \/ \E j \in DOMAIN (f \o g) : (f \o g)[j] = SaveEntry(e)
  <2>1. CASE b
    <3>a. \A k \in DOMAIN g : Len(f) + k \in DOMAIN (f \o g) /\ (f \o g)[Len(f) + k] = g[k]
      BY ConcatIndex
    <3>b. 1 \in DOMAIN g
      BY <1>5, <2>1
    <3>1. Len(f) + 1 \in DOMAIN (f \o g) /\ (f \o g)[Len(f) + 1] = g[1]
      BY <3>a, <3>b
    <3> QED
      BY <1>3, <1>5, <2>1, <3>1
  <2>2. CASE ~b
    <3>1. "push" \notin {pa, sa}
      BY <1>4, <2>2
    <3>2. Agreed(v, st, r, pa, sa) = r
      BY <3>1, AgreedFetched
    <3> QED
      BY <1>1, <3>2
  <2> QED
    BY <2>1, <2>2
<1>10. f \o g \o c \in Seq(Write)
  BY <1>8, ConcatPlan
<1>11. Safe(f \o g \o c, H)
  BY <1>6, <1>8, <1>9, SafeAppend
<1> QED
  BY <1>7, <1>10, <1>11

\* What a merge journals is decisions.
LEMMA NotesType ==
    ASSUME NEW v \in Rows, NEW p \in Series, NEW st \in Status \union {None}, NEW r \in Entry, NEW e, NEW pa, NEW sa
    PROVE  MergeNotes(v, p, st, r, pa, sa) \in SUBSET Decision /\ MirrorNotes(v, p, e) \in SUBSET Decision
<1>1. \A s \in Series, c \in Chapter : PulledProgress(s, c) \in Decision
  BY DEF PulledProgress, Decision
<1>2. \A s \in Series, t \in Status \union {None} : PulledStatus(s, t) \in Decision
  BY DEF PulledStatus, Decision
<1>3. Pushed(r) \in Decision /\ [action |-> "import", s |-> p] \in Decision
  BY DEF Pushed, Decision
<1>4. MergeNotes(v, p, st, r, pa, sa) \in SUBSET Decision
  BY <1>1, <1>2, <1>3, FrontierType DEF MergeNotes
<1>5. \A t \in Members(v) : t \in Series
  BY DEF Members, Included
<1>6. v.progress \in [Series -> Chapter \union {None}] /\ v.status \in [Series -> Status \union {None}]
  BY DEF Rows
<1>7. \A t \in Series : /\ v.progress[t] # None => PulledProgress(t, v.progress[t]) \in Decision
                        /\ PulledStatus(t, v.status[t]) \in Decision
  BY <1>1, <1>2, <1>6
<1>8. MirrorNotes(v, p, e) \in SUBSET Decision
  BY <1>5, <1>7 DEF MirrorNotes
<1> QED
  BY <1>4, <1>8

-----------------------------------------------------------------------------
(* One write.                                                              *)

\* Once the first item has been carried out, the rest of a plan is safe.
LEMMA SafeTail ==
    ASSUME NEW t \in Seq(Write), t # <<>>, NEW H, NEW G, H \subseteq G, Safe(t, H),
           Head(t).op = "remote" => Head(t).v \in G
    PROVE  /\ Head(t) \in Write /\ Tail(t) \in Seq(Write)
           /\ Records(Head(t)) => Head(t).v \in H
           /\ Safe(Tail(t), G)
<1>1. Len(t) \in Nat /\ Len(t) # 0 /\ DOMAIN t = 1..Len(t) /\ Head(t) = t[1] /\ Head(t) \in Write /\ Tail(t) \in Seq(Write)
  OBVIOUS
<1>2. Len(Tail(t)) = Len(t) - 1 /\ DOMAIN Tail(t) = 1..(Len(t) - 1) /\ \A i \in 1..(Len(t) - 1) : Tail(t)[i] = t[i + 1]
  BY <1>1
<1>3. PICK n \in Nat : n = Len(t)
  BY <1>1
<1>4. Records(Head(t)) => Head(t).v \in H
  <2>1. 1 \in DOMAIN t /\ ~ \E j \in DOMAIN t : j < 1
    BY <1>1, <1>3
  <2> QED
    BY <1>1, <2>1 DEF Safe
<1>5. ASSUME NEW i \in DOMAIN Tail(t), Records(Tail(t)[i])
      PROVE  Tail(t)[i].v \in G \/ \E j \in DOMAIN Tail(t) : j < i /\ Tail(t)[j] = SaveEntry(Tail(t)[i].v)
  <2>1. i \in 1..(n - 1) /\ i + 1 \in 1..n
    BY <1>2, <1>3, <1>5
  <2>2. Tail(t)[i] = t[i + 1] /\ i + 1 \in DOMAIN t
    BY <1>1, <1>2, <1>3, <2>1
  <2>3. t[i + 1].v \in H \/ \E j \in DOMAIN t : j < i + 1 /\ t[j] = SaveEntry(t[i + 1].v)
    BY <1>5, <2>2 DEF Safe
  <2>4. ASSUME NEW j \in DOMAIN t, j < i + 1, t[j] = SaveEntry(t[i + 1].v)
        PROVE  Tail(t)[i].v \in G \/ \E k \in DOMAIN Tail(t) : k < i /\ Tail(t)[k] = SaveEntry(Tail(t)[i].v)
    <3>1. CASE j = 1
      <4>1. Head(t) = SaveEntry(t[i + 1].v)
        BY <1>1, <2>4, <3>1
      <4>2. Head(t).op = "remote" /\ Head(t).v = t[i + 1].v
        BY <4>1 DEF SaveEntry
      <4> QED
        BY <2>2, <4>2
    <3>2. CASE j # 1
      <4>1. j \in 1..n /\ j - 1 \in 1..(n - 1) /\ j - 1 < i /\ (j - 1) + 1 = j
        BY <1>1, <1>3, <2>1, <2>4, <3>2
      <4>2. Tail(t)[j - 1] = t[j] /\ j - 1 \in DOMAIN Tail(t)
        BY <1>2, <1>3, <4>1
      <4> QED
        BY <2>2, <2>4, <4>1, <4>2
    <3> QED
      BY <3>1, <3>2
  <2> QED
    BY <2>2, <2>3, <2>4
<1> QED
  BY <1>1, <1>4, <1>5 DEF Safe

\* A member's item stays safe as its fields are written.
LEMMA SafeMember ==
    ASSUME NEW t \in Seq(Write), t # <<>>, NEW H, Safe(t, H), Head(t).op = "member",
           NEW w \in Write, w.v = Head(t).v
    PROVE  <<w>> \o Tail(t) \in Seq(Write) /\ Safe(<<w>> \o Tail(t), H)
<1>1. Tail(t) \in Seq(Write) /\ Head(t).v \in H /\ Safe(Tail(t), H)
  <2>1. Head(t).op # "remote" /\ Records(Head(t))
    BY DEF Records
  <2> QED
    BY <2>1, SafeTail
<1>2. PICK a \in Seq(Write) : a = <<w>> /\ Len(a) = 1 /\ DOMAIN a = {1} /\ a[1] = w
  <2>1. <<w>> \in Seq(Write) /\ Len(<<w>>) = 1 /\ <<w>>[1] = w
    OBVIOUS
  <2>2. DOMAIN <<w>> = {1}
    OBVIOUS
  <2> QED
    BY <2>1, <2>2
<1>3. PICK b \in Seq(Write) : b = Tail(t)
  BY <1>1
<1>4. ASSUME NEW i \in DOMAIN (a \o b), Records((a \o b)[i])
      PROVE  (a \o b)[i].v \in H \/ \E j \in DOMAIN (a \o b) : j < i /\ (a \o b)[j] = SaveEntry((a \o b)[i].v)
  <2>1. CASE i \in DOMAIN a /\ (a \o b)[i] = a[i]
    BY <1>1, <1>2, <2>1
  <2>2. CASE \E k \in DOMAIN b : (a \o b)[i] = b[k] /\ i = Len(a) + k
    <3>1. PICK k \in DOMAIN b : (a \o b)[i] = b[k] /\ i = 1 + k
      BY <1>2, <2>2
    <3>2. b[k].v \in H \/ \E j \in DOMAIN b : j < k /\ b[j] = SaveEntry(b[k].v)
      BY <1>1, <1>3, <1>4, <3>1 DEF Safe
    <3>3. \A j \in DOMAIN b : 1 + j \in DOMAIN (a \o b) /\ (a \o b)[1 + j] = b[j]
      BY <1>2, ConcatIndex
    <3>4. \A j \in DOMAIN b : j < k => 1 + j < 1 + k
      <4>1. DOMAIN b \in SUBSET Nat
        OBVIOUS
      <4>2. k \in Nat /\ \A j \in DOMAIN b : j \in Nat
        BY <4>1
      <4> QED
        BY <4>2
    <3> QED
      BY <3>1, <3>2, <3>3, <3>4
  <2> QED
    BY <2>1, <2>2, ConcatIndex
<1>5. a \o b \in Seq(Write)
  BY ConcatIndex
<1> QED
  BY <1>2, <1>3, <1>4, <1>5 DEF Safe

\* The first of a member's writes.
LEMMA MemberHead ==
    ASSUME NEW s \in Series, NEW e \in Entry, NEW due \in SUBSET Field
    PROVE  Head(MemberWrites(Member(s, e, due))) =
             IF "progress" \in due THEN SetProgress(s, e.progress)
             ELSE IF "status" \in due THEN SetStatus(s, e.status)
             ELSE RecordSnapshot(e)
<1>1. PICK w \in Write : w = Member(s, e, due) /\ w.s = s /\ w.v = e /\ w.due = due
  BY WriteTypes DEF Member
<1>2. e.progress \in Chapter /\ e.status \in Status
  BY DEF Entry
<1>3. PICK x \in Write : x = SetProgress(s, e.progress)
  BY <1>2, WriteTypes
<1>4. PICK y \in Write : y = SetStatus(s, e.status)
  BY <1>2, WriteTypes
<1>5. PICK z \in Write : z = RecordSnapshot(e)
  BY WriteTypes
<1>6. MemberWrites(w) = When("progress" \in due, x) \o When("status" \in due, y) \o <<z>>
  BY <1>1, <1>3, <1>4, <1>5 DEF MemberWrites
<1>7. CASE "progress" \in due
  <2>1. When("progress" \in due, x) = <<x>>
    BY <1>7 DEF When
  <2>2. When("status" \in due, y) \in Seq(Write)
    <3>1. <<y>> \in Seq(Write) /\ <<>> \in Seq(Write)
      OBVIOUS
    <3> QED
      BY <3>1 DEF When
  <2>3. \A q \in Seq(Write) : Head(<<x>> \o q \o <<z>>) = x
    OBVIOUS
  <2> QED
    BY <1>1, <1>3, <1>6, <1>7, <2>1, <2>2, <2>3
<1>8. CASE "progress" \notin due /\ "status" \in due
  <2>1. When("progress" \in due, x) = <<>> /\ When("status" \in due, y) = <<y>>
    BY <1>8 DEF When
  <2>2. Head(<<>> \o <<y>> \o <<z>>) = y
    OBVIOUS
  <2> QED
    BY <1>1, <1>4, <1>6, <1>8, <2>1, <2>2
<1>9. CASE "progress" \notin due /\ "status" \notin due
  <2>1. When("progress" \in due, x) = <<>> /\ When("status" \in due, y) = <<>>
    BY <1>9 DEF When
  <2>2. Head(<<>> \o <<>> \o <<z>>) = z
    OBVIOUS
  <2> QED
    BY <1>1, <1>5, <1>6, <1>9, <2>1, <2>2
<1> QED
  BY <1>7, <1>8, <1>9

\* The next write is an item, no member's, and a snapshot only of what has been held.
LEMMA NextWriteType ==
    ASSUME NEW t \in Seq(Write), t # <<>>, NEW H, Safe(t, H), NEW h, h = Head(t),
           NEW w, w = IF h.op = "member" THEN Head(MemberWrites(h)) ELSE h
    PROVE  /\ w \in Write /\ w.op # "member"
           /\ w.op = "snapshot" => w.v \in H
           /\ h.op = "remote" => w = h
<1>1. h \in Write /\ (Records(h) => h.v \in H)
  <2>1. PICK G : G = H \union {h.v}
    OBVIOUS
  <2>2. H \subseteq G /\ h.v \in G
    BY <2>1
  <2> QED
    BY <2>2, SafeTail
<1>2. CASE h.op # "member"
  BY <1>1, <1>2 DEF Records
<1>3. CASE h.op = "member"
  <2>1. h.s \in Series /\ h.v \in Entry /\ h.due \in SUBSET Field /\ h = Member(h.s, h.v, h.due) /\ h.v \in H
    BY <1>1, <1>3, WriteFields DEF Records
  <2>2. w = IF "progress" \in h.due THEN SetProgress(h.s, h.v.progress)
            ELSE IF "status" \in h.due THEN SetStatus(h.s, h.v.status)
            ELSE RecordSnapshot(h.v)
    BY <1>3, <2>1, MemberHead
  <2>3. h.v.progress \in Chapter /\ h.v.status \in Status
    BY <2>1 DEF Entry
  <2>4. CASE w = SetProgress(h.s, h.v.progress)
    <3>1. w \in Write
      BY <2>1, <2>3, <2>4, WriteTypes
    <3>2. w.op = "progress"
      BY <2>4 DEF SetProgress
    <3> QED
      BY <1>3, <3>1, <3>2
  <2>5. CASE w = SetStatus(h.s, h.v.status)
    <3>1. w \in Write
      BY <2>1, <2>3, <2>5, WriteTypes
    <3>2. w.op = "status"
      BY <2>5 DEF SetStatus
    <3> QED
      BY <1>3, <3>1, <3>2
  <2>6. CASE w = RecordSnapshot(h.v)
    <3>1. w \in Write
      BY <2>1, <2>6, WriteTypes
    <3>2. w.op = "snapshot" /\ w.v = h.v
      BY <2>6 DEF RecordSnapshot
    <3> QED
      BY <1>3, <2>1, <3>1, <3>2
  <2> QED
    BY <2>2, <2>4, <2>5, <2>6
<1> QED
  BY <1>2, <1>3

\* What a write makes of the tables, field by field.
LEMMA EffectType ==
    ASSUME NEW w \in Write, w.op # "member", NEW H,
           NEW db \in [local : Rows, remote : H \union {None}, ancestor : Entry \union {None},
                       conflict : [Series -> Pending]],
           NEW G, H \subseteq G, w.op = "remote" => w.v \in G
    PROVE  /\ Effect(db, w).local \in Rows
           /\ Effect(db, w).remote \in G \union {None}
           /\ Effect(db, w).ancestor \in Entry \union {None}
           /\ Effect(db, w).conflict \in [Series -> Pending]
<1>1. /\ db.local \in Rows /\ db.remote \in H \union {None} /\ db.ancestor \in Entry \union {None}
      /\ db.conflict \in [Series -> Pending]
      /\ db = [local |-> db.local, remote |-> db.remote, ancestor |-> db.ancestor, conflict |-> db.conflict]
  OBVIOUS
<1>2. PICK l, r, a, c : db = [local |-> l, remote |-> r, ancestor |-> a, conflict |-> c]
                        /\ l \in Rows /\ r \in G \union {None} /\ a \in Entry \union {None} /\ c \in [Series -> Pending]
  BY <1>1
<1>3. CASE w.op = "progress"
  <2>1. w.s \in Series /\ w.p \in Chapter
    BY <1>3, WriteFields
  <2>2. Effect(db, w) = [db EXCEPT !.local.progress[w.s] = w.p]
    BY <1>3 DEF Effect
  <2>3. Effect(db, w) = [local |-> [l EXCEPT !.progress[w.s] = w.p], remote |-> r, ancestor |-> a, conflict |-> c]
    BY <1>2, <2>2
  <2>4. [l EXCEPT !.progress[w.s] = w.p] \in Rows
    BY <1>2, <2>1 DEF Rows
  <2> QED
    BY <1>2, <2>3, <2>4
<1>4. CASE w.op = "status"
  <2>1. w.s \in Series /\ w.st \in Status \union {None}
    BY <1>4, WriteFields
  <2>2. Effect(db, w) = [db EXCEPT !.local.status[w.s] = w.st]
    BY <1>4 DEF Effect
  <2>3. Effect(db, w) = [local |-> [l EXCEPT !.status[w.s] = w.st], remote |-> r, ancestor |-> a, conflict |-> c]
    BY <1>2, <2>2
  <2>4. [l EXCEPT !.status[w.s] = w.st] \in Rows
    BY <1>2, <2>1 DEF Rows
  <2> QED
    BY <1>2, <2>3, <2>4
<1>5. CASE w.op = "conflict"
  <2>1. w.s \in Series /\ \/ w.row \in [{"progress"} -> Pair("progress") \union {None}]
                          \/ w.row \in [{"status"} -> Pair("status") \union {None}]
    BY <1>5, WriteFields
  <2>2. \A f \in Field : f \in DOMAIN w.row => w.row[f] \in Pair(f) \union {None}
    BY <2>1
  <2>3. PICK q : q = [f \in Field |-> IF f \in DOMAIN w.row /\ (c[w.s][f] = None \/ w.row[f] = None)
                                      THEN w.row[f] ELSE c[w.s][f]]
    OBVIOUS
  <2>4. q \in Pending
    <3>1. \A f \in Field : c[w.s][f] \in Pair(f) \union {None}
      BY <1>2, <2>1 DEF Pending
    <3>2. \A f \in Field : q[f] \in Pair(f) \union {None}
      BY <2>2, <2>3, <3>1
    <3>3. \A f \in Field : Pair(f) \union {None} \subseteq Pair("progress") \union Pair("status") \union {None}
      BY DEF Field
    <3>4. q \in [Field -> Pair("progress") \union Pair("status") \union {None}]
      BY <2>3, <3>2, <3>3
    <3> QED
      BY <3>2, <3>4 DEF Pending
  <2>5. Effect(db, w) = [db EXCEPT !.conflict[w.s] = [f \in Field |->
              IF f \in DOMAIN w.row /\ (@[f] = None \/ w.row[f] = None) THEN w.row[f] ELSE @[f]]]
    BY <1>5 DEF Effect
  <2>6. Effect(db, w) = [local |-> l, remote |-> r, ancestor |-> a, conflict |-> [c EXCEPT ![w.s] = q]]
    BY <1>2, <2>3, <2>5
  <2>7. [c EXCEPT ![w.s] = q] \in [Series -> Pending]
    BY <1>2, <2>4
  <2> QED
    BY <1>2, <2>6, <2>7
<1>6. CASE w.op = "remote"
  <2>1. Effect(db, w) = [db EXCEPT !.remote = w.v]
    BY <1>6 DEF Effect
  <2>2. Effect(db, w) = [local |-> l, remote |-> w.v, ancestor |-> a, conflict |-> c]
    BY <1>2, <2>1
  <2> QED
    BY <1>2, <1>6, <2>2
<1>7. CASE w.op = "snapshot"
  <2>1. Effect(db, w) = [db EXCEPT !.ancestor = w.v]
    BY <1>7 DEF Effect
  <2>2. Effect(db, w) = [local |-> l, remote |-> r, ancestor |-> w.v, conflict |-> c]
    BY <1>2, <2>1
  <2>3. w.v \in Entry
    BY <1>7, WriteFields
  <2> QED
    BY <1>2, <2>2, <2>3
<1>8. CASE w.op \in {"mirror", "flush", "mark"}
  <2>1. Effect(db, w) = db
    BY <1>8 DEF Effect
  <2> QED
    BY <1>2, <2>1
<1> QED
  BY <1>3, <1>4, <1>5, <1>6, <1>7, <1>8, WriteFields

-----------------------------------------------------------------------------
(* The steps.                                                              *)

\* An idle process is sound.
LEMMA IdleSound ==
    Idle \in Process /\ \A H : Sound(Idle, H)
<1>1. <<>> \in Seq(Write) /\ DOMAIN <<>> = {}
  OBVIOUS
<1>2. Idle \in Process
  BY <1>1 DEF Idle, Process, At
<1>3. Idle.at = "idle" /\ Idle.todo = <<>> /\ Idle.remote = None
  BY DEF Idle
<1> QED
  BY <1>1, <1>2, <1>3 DEF Sound, Safe

\* What is sound stays so as the tracker holds more.
LEMMA SoundGrows ==
    ASSUME NEW x, NEW H, NEW G, H \subseteq G, Sound(x, H)
    PROVE  Sound(x, G)
  BY DEF Sound, Safe

\* A process with a plan is sound if the plan is safe.
LEMMA PlanSound ==
    ASSUME NEW todo \in Seq(Write), todo # <<>>, NEW notes \in SUBSET Decision, NEW H, Safe(todo, H)
    PROVE  /\ [Idle EXCEPT !.at = "writing", !.todo = todo, !.notes = notes] \in Process
           /\ [Idle EXCEPT !.at = "writing", !.todo = todo] \in Process
           /\ Sound([Idle EXCEPT !.at = "writing", !.todo = todo, !.notes = notes], H)
           /\ Sound([Idle EXCEPT !.at = "writing", !.todo = todo], H)
<1>1. PICK i \in Process : i = Idle /\ i.remote = None
  BY IdleSound DEF Idle
<1>2. PICK x : x = [i EXCEPT !.at = "writing", !.todo = todo, !.notes = notes]
  OBVIOUS
<1>3. PICK y : y = [i EXCEPT !.at = "writing", !.todo = todo]
  OBVIOUS
<1>4. x \in Process /\ x.at = "writing" /\ x.todo = todo /\ x.remote = None
  BY <1>1, <1>2 DEF Process, At
<1>5. y \in Process /\ y.at = "writing" /\ y.todo = todo /\ y.remote = None
  BY <1>1, <1>3 DEF Process, At
<1>6. Sound(x, H) /\ Sound(y, H)
  BY <1>4, <1>5 DEF Sound
<1> QED
  BY <1>1, <1>2, <1>3, <1>4, <1>5, <1>6

\* The invariant depends on the processes one by one.
LEMMA ProcKeeps ==
    ASSUME HeldInv, NEW p \in Proc, NEW x \in Process, NEW G, held \subseteq G, Sound(x, G),
           proc' = [proc EXCEPT ![p] = x], held' = G
    PROVE  proc' \in [Proc -> Process] /\ \A q \in Proc : Sound(proc'[q], held')
<1>1. proc \in [Proc -> Process] /\ \A q \in Proc : Sound(proc[q], held)
  BY DEF HeldInv
<1>2. proc' \in [Proc -> Process]
  BY <1>1
<1>3. \A q \in Proc : Sound(proc[q], G)
  BY <1>1, SoundGrows
<1>4. \A q \in Proc : proc'[q] = IF q = p THEN x ELSE proc[q]
  BY <1>1
<1> QED
  BY <1>2, <1>3, <1>4

\* A step of one process that leaves the tables alone.
LEMMA PlanKeeps ==
    ASSUME HeldInv, NEW p \in Proc, NEW x \in Process, Sound(x, held),
           proc' = [proc EXCEPT ![p] = x], owed' \in SUBSET Series,
           UNCHANGED <<local, remote, ancestor, conflict, journal, held, own>>
    PROVE  HeldInv'
<1>1. proc' \in [Proc -> Process] /\ \A q \in Proc : Sound(proc'[q], held')
  BY ProcKeeps
<1> QED
  BY <1>1 DEF HeldInv

\* The reader's edits.
LEMMA ReaderKeeps ==
    ASSUME HeldInv, Reader
    PROVE  HeldInv'
<1>1. ASSUME NEW l \in Rows, NEW s \in Series, NEW push, EditLocal(l, s, push)
      PROVE  HeldInv'
  BY <1>1 DEF EditLocal, HeldInv
<1>2. local \in Rows
  BY DEF HeldInv
<1>3. ASSUME NEW s \in Series, NEW c \in Chapter, ReadChapter(s, c)
      PROVE  HeldInv'
  <2>1. [local EXCEPT !.progress[s] = c] \in Rows
    BY <1>2, <1>3 DEF Rows
  <2> QED
    BY <1>1, <1>3, <2>1 DEF ReadChapter
<1>4. ASSUME NEW s \in Series, NEW st \in Status, ChangeStatus(s, st)
      PROVE  HeldInv'
  <2>1. [local EXCEPT !.status[s] = st] \in Rows
    BY <1>2, <1>4 DEF Rows
  <2> QED
    BY <1>1, <1>4, <2>1 DEF ChangeStatus
<1>5. ASSUME NEW s \in Series, RemoveFromWatchlist(s)
      PROVE  HeldInv'
  <2>1. [local EXCEPT !.status[s] = None] \in Rows
    BY <1>2, <1>5 DEF Rows
  <2> QED
    BY <1>1, <1>5, <2>1 DEF RemoveFromWatchlist
<1>6. ASSUME NEW s \in Series, ToggleExcluded(s)
      PROVE  HeldInv'
  <2>1. [local EXCEPT !.excluded = IF s \in @ THEN @ \ {s} ELSE @ \union {s}] \in Rows
    BY <1>2, <1>6 DEF Rows
  <2> QED
    BY <1>1, <1>6, <2>1 DEF ToggleExcluded
<1>7. ASSUME NEW e \in Entry, EditRemote(e)
      PROVE  HeldInv'
  <2>1. /\ remote' = e /\ held' = held \union {e}
        /\ UNCHANGED <<local, ancestor, conflict, journal, owed, proc, own>>
    BY <1>7 DEF EditRemote
  <2>2. \A q \in Proc : Sound(proc[q], held')
    BY <2>1, SoundGrows DEF HeldInv
  <2> QED
    BY <1>7, <2>1, <2>2 DEF HeldInv
<1> QED
  BY <1>3, <1>4, <1>5, <1>6, <1>7 DEF Reader

\* A pass that has planned.
LEMMA PassWritesKeeps ==
    ASSUME HeldInv, NEW todo \in Seq(Write), Safe(todo, held), NEW notes \in SUBSET Decision, PassWrites(todo, notes)
    PROVE  HeldInv'
<1>1. PICK t \in Seq(Write) : t = todo \o <<Flush>> /\ t # <<>> /\ Safe(t, held)
  <2>1. PICK b \in Seq(Write) : b = <<Flush>> /\ Quiet(b) /\ Len(b) = 1
    <3>1. <<Flush>> \in Seq(Write) /\ Len(<<Flush>>) = 1 /\ <<Flush>>[1] = Flush
      BY WriteTypes
    <3>2. DOMAIN <<Flush>> = {1}
      BY <3>1
    <3> QED
      BY <3>1, <3>2, WriteRecords DEF Quiet
  <2>2. todo \o b \in Seq(Write) /\ Safe(todo \o b, held)
    BY <2>1, ConcatPlan, SafeThenQuiet
  <2>3. todo \o b # <<>>
    BY <2>1
  <2> QED
    BY <2>1, <2>2, <2>3
<1>2. PICK x : x = [Idle EXCEPT !.at = "writing", !.todo = t, !.notes = notes]
  OBVIOUS
<1>3. x \in Process /\ Sound(x, held)
  BY <1>1, <1>2, PlanSound
<1>5. /\ proc' = [proc EXCEPT !["pass"] = x] /\ owed' = owed
      /\ UNCHANGED <<local, remote, ancestor, conflict, journal, held, own>>
  BY <1>1, <1>2 DEF PassWrites
<1>6. owed' \in SUBSET Series /\ "pass" \in Proc
  BY <1>5 DEF HeldInv, Proc
<1> QED
  BY <1>3, <1>5, <1>6, PlanKeeps

\* Fetching the list.
LEMMA PassFetchKeeps ==
    ASSUME HeldInv, PassFetch
    PROVE  HeldInv'
<1>1. PICK i \in Process : i = Idle /\ i.todo = <<>>
  BY IdleSound DEF Idle
<1>2. PICK x : x = [i EXCEPT !.at = "fetched", !.remote = remote]
  OBVIOUS
<1>3. remote \in held \union {None} /\ held \in SUBSET Entry /\ owed \in SUBSET Series
  BY DEF HeldInv
<1>4. <<>> \in Seq(Write) /\ DOMAIN <<>> = {}
  OBVIOUS
<1>5. x \in Process
  BY <1>1, <1>2, <1>3 DEF Process, At
<1>6. x.at = "fetched" /\ x.todo = <<>> /\ x.remote = remote
  BY <1>1, <1>2 DEF Process
<1>7. Sound(x, held)
  BY <1>3, <1>4, <1>6 DEF Sound, Safe
<1>8. /\ proc' = [proc EXCEPT !["pass"] = x] /\ owed' = owed
      /\ UNCHANGED <<local, remote, ancestor, conflict, journal, held, own>>
  BY <1>1, <1>2 DEF PassFetch
<1>9. owed' \in SUBSET Series /\ "pass" \in Proc
  BY <1>3, <1>8 DEF Proc
<1> QED
  BY <1>5, <1>7, <1>8, <1>9, PlanKeeps

\* Loading the rows.
LEMMA PassLoadKeeps ==
    ASSUME HeldInv, PassLoad
    PROVE  HeldInv'
<1>1. "pass" \in Proc
  BY DEF Proc
<1>2. local \in Rows /\ owed \in SUBSET Series /\ proc \in [Proc -> Process] /\ Sound(proc["pass"], held)
  BY <1>1 DEF HeldInv
<1>3. PICK y \in Process : y = proc["pass"] /\ y.at = "fetched"
  BY <1>1, <1>2 DEF PassLoad
<1>4. PICK x : x = [y EXCEPT !.at = "loaded", !.view = local]
  OBVIOUS
<1>5. x \in Process
  BY <1>2, <1>3, <1>4 DEF Process, At
<1>6. x.at = "loaded" /\ x.todo = y.todo /\ x.view = local /\ x.remote = y.remote
  BY <1>3, <1>4 DEF Process
<1>7. Sound(x, held)
  BY <1>2, <1>3, <1>6 DEF Sound
<1>8. proc' = [proc EXCEPT !["pass"] = x]
  BY <1>1, <1>2, <1>3, <1>4 DEF PassLoad
<1>9. owed' = owed /\ UNCHANGED <<local, remote, ancestor, conflict, journal, held, own>>
  BY DEF PassLoad
<1>10. owed' \in SUBSET Series
  BY <1>2, <1>9
<1> QED
  BY <1>1, <1>5, <1>7, <1>8, <1>9, <1>10, PlanKeeps

\* Planning the merge of an entry that was fetched.
LEMMA PassMergeKeeps ==
    ASSUME HeldInv, NEW preferred \in Series, NEW pol \in Policies, NEW n, PassMerge(preferred, pol, n)
    PROVE  HeldInv'
<1>1. "pass" \in Proc /\ proc["pass"].at = "loaded"
  BY DEF Proc, PassMerge
<1>2. Sound(proc["pass"], held) /\ held \in SUBSET Entry
  BY <1>1 DEF HeldInv
<1>3. PICK v \in Rows : v = proc["pass"].view
  BY <1>1, <1>2 DEF Sound
<1>4. PICK r \in Entry : r = proc["pass"].remote /\ r \in held /\ r # None
  BY <1>1, <1>2 DEF Sound, PassMerge
<1>5. Included(v) # {}
  BY <1>3 DEF PassMerge
<1>6. PICK p \in Series : p = Primary(v, preferred)
  BY <1>5, PrimaryType
<1>7. PICK st \in Status \union {None} : st = StatusOf(v, p)
  BY StatusOfType
<1>8. PICK pa : pa = ProgressAction(v, r, ancestor, pol, n)
  OBVIOUS
<1>9. PICK sa : sa = StatusAction(st, r, ancestor, pol, n)
  OBVIOUS
<1>10. PICK notes : notes = MergeNotes(v, p, st, r, pa, sa)
         \union (IF "conflict" \in {pa, sa} THEN {} ELSE MirrorNotes(v, p, Agreed(v, st, r, pa, sa)))
  OBVIOUS
<1>11. PassWrites(MergeWrites(v, p, st, r, pa, sa), notes)
  BY <1>3, <1>4, <1>6, <1>7, <1>8, <1>9, <1>10 DEF PassMerge
<1>12. MergeWrites(v, p, st, r, pa, sa) \in Seq(Write) /\ Safe(MergeWrites(v, p, st, r, pa, sa), held)
  BY <1>4, <1>8, <1>9, MergePlan
<1>13. notes \in SUBSET Decision
  <2>1. MergeNotes(v, p, st, r, pa, sa) \in SUBSET Decision
          /\ MirrorNotes(v, p, Agreed(v, st, r, pa, sa)) \in SUBSET Decision
    BY NotesType
  <2> QED
    BY <1>10, <2>1
<1> QED
  BY <1>11, <1>12, <1>13, PassWritesKeeps

\* Planning the entry that is missing.
LEMMA PassCreateKeeps ==
    ASSUME HeldInv, NEW preferred \in Series, PassCreate(preferred)
    PROVE  HeldInv'
<1>1. "pass" \in Proc /\ proc["pass"].at = "loaded"
  BY DEF Proc, PassCreate
<1>2. Sound(proc["pass"], held)
  BY <1>1 DEF HeldInv
<1>3. PICK v \in Rows : v = proc["pass"].view
  BY <1>1, <1>2 DEF Sound
<1>5. Included(v) # {}
  BY <1>3 DEF PassCreate
<1>6. PICK p \in Series : p = Primary(v, preferred)
  BY <1>5, PrimaryType
<1>7. PICK st \in Status \union {None} : st = StatusOf(v, p)
  BY StatusOfType
<1>8. PICK e : e = [progress |-> Frontier(v), status |-> IF st = None THEN Reading ELSE st]
  OBVIOUS
<1>9. e \in Entry
  <2>1. Reading \in Status
    BY SyncAssumption
  <2> QED
    BY <1>7, <1>8, <2>1, FrontierType DEF Entry
<1>10. PassWrites(<<SaveEntry(e)>> \o Settle(v, p, e), MirrorNotes(v, p, e))
  BY <1>3, <1>6, <1>7, <1>8 DEF PassCreate
<1>11. PICK a \in Seq(Write) : a = <<SaveEntry(e)>> /\ Quiet(a) /\ \E j \in DOMAIN a : a[j] = SaveEntry(e)
  <2>1. PICK w \in Write : w = SaveEntry(e) /\ ~Records(w)
    BY <1>9, WriteTypes, WriteRecords
  <2>2. <<w>> \in Seq(Write) /\ <<w>>[1] = w
    OBVIOUS
  <2>3. DOMAIN <<w>> = {1}
    OBVIOUS
  <2> QED
    BY <2>1, <2>2, <2>3 DEF Quiet
<1>12. PICK b \in Seq(Write) : b = Settle(v, p, e) /\ OnlyOf(b, e)
  BY <1>9, SettlePlan
<1>13. a \o b \in Seq(Write) /\ Safe(a \o b, held)
  BY <1>11, <1>12, ConcatPlan, SafeAppend
<1>14. MirrorNotes(v, p, e) \in SUBSET Decision
  BY <1>9, NotesType
<1> QED
  BY <1>10, <1>11, <1>12, <1>13, <1>14, PassWritesKeeps

\* Nothing to plan.
LEMMA PassSkipKeeps ==
    ASSUME HeldInv, PassSkip
    PROVE  HeldInv'
<1>1. <<>> \in Seq(Write) /\ DOMAIN <<>> = {}
  OBVIOUS
<1>2. Safe(<<>>, held)
  BY <1>1 DEF Safe
<1>3. PassWrites(<<>>, {})
  BY DEF PassSkip
<1>4. {} \in SUBSET Decision
  OBVIOUS
<1> QED
  BY <1>1, <1>2, <1>3, <1>4, PassWritesKeeps

\* The pair of a series, with its defaults, is an entry.
LEMMA PushedType ==
    ASSUME HeldInv, NEW s \in Series
    PROVE  PushedEntry(s) \in Entry
<1>1. local.progress \in [Series -> Chapter \union {None}] /\ local.status \in [Series -> Status \union {None}]
  BY DEF HeldInv, Rows
<1>2. 0 \in Chapter /\ Reading \in Status
  BY SyncAssumption DEF Chapter
<1> QED
  BY <1>1, <1>2 DEF PushedEntry, Entry

\* A plan of one item that records nothing, and another one.
LEMMA PairPlan ==
    ASSUME NEW x \in Write, NEW y \in Write, NEW H, ~Records(x),
           Records(y) => y.v \in H \/ x = SaveEntry(y.v)
    PROVE  <<x, y>> \in Seq(Write) /\ <<x, y>> # <<>> /\ Safe(<<x, y>>, H)
<1>1. <<x, y>> \in Seq(Write) /\ <<x, y>> # <<>> /\ <<x, y>>[1] = x /\ <<x, y>>[2] = y
  OBVIOUS
<1>2. DOMAIN <<x, y>> = {1, 2} /\ 1 < 2
  OBVIOUS
<1> QED
  BY <1>1, <1>2 DEF Safe

\* A targeted push saves the pair before it settles it.
LEMMA PushStartKeeps ==
    ASSUME HeldInv, NEW s \in Series, PushStart(s)
    PROVE  HeldInv'
<1>1. owed' \in SUBSET Series /\ UNCHANGED <<local, remote, ancestor, conflict, journal, held, own>>
  BY DEF PushStart, HeldInv
<1>2. CASE s \in local.excluded
  <2>1. proc' = proc
    BY <1>2 DEF PushStart
  <2> QED
    BY <1>1, <2>1 DEF HeldInv
<1>3. CASE s \notin local.excluded
  <2>1. PICK e \in Entry : e = PushedEntry(s)
    BY PushedType
  <2>2. PICK x, y \in Write : x = SaveEntry(e) /\ y = Mirror(s, e) /\ y.v = e /\ ~Records(x)
    BY WriteTypes, WriteRecords
  <2>3. PICK t \in Seq(Write) : t = <<x, y>> /\ t # <<>> /\ Safe(t, held)
    BY <2>2, PairPlan
  <2>4. t = PushTodo(s, PushedEntry(s))
    BY <2>1, <2>2, <2>3 DEF PushTodo
  <2>5. PICK z \in Process : z = [Idle EXCEPT !.at = "writing", !.todo = t] /\ Sound(z, held)
    <3>1. {} \in SUBSET Decision
      OBVIOUS
    <3> QED
      BY <2>3, <3>1, PlanSound
  <2>6. proc' = [proc EXCEPT !["push"] = z] /\ "push" \in Proc
    BY <1>3, <2>4, <2>5 DEF PushStart, Proc
  <2> QED
    BY <1>1, <2>5, <2>6, PlanKeeps
<1> QED
  BY <1>2, <1>3

\* An operator's plan.
LEMMA OperatorKeeps ==
    ASSUME HeldInv, NEW todo \in Seq(Write), todo # <<>>, Safe(todo, held), OperatorWrites(todo)
    PROVE  HeldInv'
<1>1. PICK z \in Process : z = [Idle EXCEPT !.at = "writing", !.todo = todo] /\ Sound(z, held)
  <2>1. {} \in SUBSET Decision
    OBVIOUS
  <2> QED
    BY <2>1, PlanSound
<1>2. /\ proc' = [proc EXCEPT !["operator"] = z] /\ owed' = owed
      /\ UNCHANGED <<local, remote, ancestor, conflict, journal, held, own>>
  BY <1>1 DEF OperatorWrites
<1>3. owed' \in SUBSET Series /\ "operator" \in Proc
  BY <1>2 DEF HeldInv, Proc
<1> QED
  BY <1>1, <1>2, <1>3, PlanKeeps

\* Resolving a conflict records nothing.
LEMMA ResolveKeeps ==
    ASSUME HeldInv, NEW s \in Series, NEW f \in Field, NEW side \in {"local", "remote"}, Resolve(s, f, side)
    PROVE  HeldInv'
<1>1. PICK c : c = conflict[s][f]
  OBVIOUS
<1>2. c \in Pair(f)
  <2>1. conflict[s] \in Pending
    BY DEF HeldInv
  <2>2. c # None
    BY <1>1 DEF Resolve
  <2> QED
    BY <1>1, <2>1, <2>2 DEF Pending
<1>3. PICK x : x = CASE side = "remote" /\ f = "progress" -> SetProgress(s, c.remote)
                     [] side = "remote" /\ f = "status"   -> SetStatus(s, c.remote)
                     [] side = "local"                    -> SaveEntry([PushedEntry(s) EXCEPT ![f] = c.local])
  OBVIOUS
<1>4. x \in Write /\ ~Records(x)
  <2>1. CASE side = "remote" /\ f = "progress"
    <3>1. c.remote \in Chapter
      BY <1>2, <2>1 DEF Pair
    <3>2. x = SetProgress(s, c.remote)
      BY <1>3, <2>1
    <3> QED
      BY <3>1, <3>2, WriteTypes, WriteRecords
  <2>2. CASE side = "remote" /\ f = "status"
    <3>1. c.remote \in Status
      BY <1>2, <2>2 DEF Pair
    <3>2. x = SetStatus(s, c.remote)
      BY <1>3, <2>2
    <3> QED
      BY <3>1, <3>2, WriteTypes, WriteRecords
  <2>3. CASE side = "local"
    <3>1. PICK e \in Entry : e = PushedEntry(s)
      BY PushedType
    <3>2. [e EXCEPT ![f] = c.local] \in Entry
      <4>1. CASE f = "progress"
        <5>1. c.local \in Chapter
          BY <1>2, <4>1 DEF Pair
        <5>2. [e EXCEPT !["progress"] = c.local] \in Entry
          BY <5>1 DEF Entry
        <5> QED
          BY <4>1, <5>2
      <4>2. CASE f = "status"
        <5>1. c.local \in Status
          BY <1>2, <4>2 DEF Pair
        <5>2. [e EXCEPT !["status"] = c.local] \in Entry
          BY <5>1 DEF Entry
        <5> QED
          BY <4>2, <5>2
      <4> QED
        BY <4>1, <4>2 DEF Field
    <3>3. x = SaveEntry([e EXCEPT ![f] = c.local])
      BY <1>3, <2>3, <3>1
    <3> QED
      BY <3>2, <3>3, WriteTypes, WriteRecords
  <2> QED
    BY <2>1, <2>2, <2>3 DEF Field
<1>5. PICK y \in Write : y = Close(s, f) /\ ~Records(y)
  BY WriteTypes, WriteRecords
<1>6. <<x, y>> \in Seq(Write) /\ <<x, y>> # <<>> /\ Safe(<<x, y>>, held)
  BY <1>4, <1>5, PairPlan
<1>7. OperatorWrites(<<x, y>>)
  BY <1>1, <1>3, <1>5 DEF Resolve
<1> QED
  BY <1>6, <1>7, OperatorKeeps

\* Undoing a decision records a pair only behind the write that restores it.
LEMMA UndoPlan ==
    ASSUME NEW d \in Decision, NEW H
    PROVE  Undo(d) \in Seq(Write) /\ Undo(d) # <<>> /\ Safe(Undo(d), H)
<1>1. \A w \in Write : ~Records(w) => <<w>> \in Seq(Write) /\ <<w>> # <<>> /\ Safe(<<w>>, H)
  <2> SUFFICES ASSUME NEW w \in Write, ~Records(w)
               PROVE  <<w>> \in Seq(Write) /\ <<w>> # <<>> /\ Safe(<<w>>, H)
    OBVIOUS
  <2>1. <<w>> \in Seq(Write) /\ <<w>> # <<>> /\ <<w>>[1] = w
    OBVIOUS
  <2>2. DOMAIN <<w>> = {1}
    OBVIOUS
  <2> QED
    BY <2>1, <2>2 DEF Safe
<1>2. CASE d \in [action : {"import"}, s : Series]
  <2>1. d.action = "import" /\ d.s \in Series
    BY <1>2
  <2>2. Undo(d) = <<SetStatus(d.s, None)>>
    BY <2>1 DEF Undo, Unlist
  <2> QED
    BY <1>1, <2>1, <2>2, WriteTypes, WriteRecords
<1>3. CASE d \in [action : {"pull"}, s : Series, progress : Chapter]
  <2>1. d.action = "pull" /\ d.s \in Series /\ d.progress \in Chapter /\ "progress" \in DOMAIN d
    BY <1>3
  <2>2. Undo(d) = <<SetProgress(d.s, d.progress)>>
    BY <2>1 DEF Undo
  <2> QED
    BY <1>1, <2>1, <2>2, WriteTypes, WriteRecords
<1>4. CASE d \in [action : {"pull"}, s : Series, status : Status \union {None}]
  <2>1. d.action = "pull" /\ d.s \in Series /\ d.status \in Status \union {None} /\ "progress" \notin DOMAIN d
    BY <1>4
  <2>2. Undo(d) = <<SetStatus(d.s, d.status)>>
    BY <2>1 DEF Undo
  <2> QED
    BY <1>1, <2>1, <2>2, WriteTypes, WriteRecords
<1>5. CASE d \in [action : {"push"}, entry : Entry]
  <2>1. d.action = "push" /\ d.entry \in Entry
    BY <1>5
  <2>2. PICK x, y \in Write : x = SaveEntry(d.entry) /\ y = RecordSnapshot(d.entry) /\ y.v = d.entry /\ ~Records(x)
    BY <2>1, WriteTypes, WriteRecords
  <2>3. Undo(d) = <<x, y>>
    BY <2>1, <2>2 DEF Undo
  <2> QED
    BY <2>2, <2>3, PairPlan
<1> QED
  BY <1>2, <1>3, <1>4, <1>5 DEF Decision

\* Reverting a journalled decision.
LEMMA RevertKeeps ==
    ASSUME HeldInv, NEW d, Revert(d)
    PROVE  HeldInv'
<1>1. d \in Decision
  BY DEF Revert, HeldInv
<1>2. PICK a \in Seq(Write) : a = Undo(d) /\ a # <<>> /\ Safe(a, held)
  BY <1>1, UndoPlan
<1>3. PICK b \in Seq(Write) : b = <<Mark(d)>> /\ Quiet(b)
  <2>1. PICK w \in Write : w = Mark(d) /\ ~Records(w)
    BY <1>1, WriteTypes, WriteRecords
  <2>2. <<w>> \in Seq(Write) /\ <<w>>[1] = w
    OBVIOUS
  <2>3. DOMAIN <<w>> = {1}
    OBVIOUS
  <2> QED
    BY <2>1, <2>2, <2>3 DEF Quiet
<1>4. a \o b \in Seq(Write) /\ Safe(a \o b, held)
  BY <1>2, <1>3, ConcatPlan, SafeThenQuiet
<1>5. a \o b # <<>>
  BY <1>2
<1>6. OperatorWrites(a \o b)
  BY <1>2, <1>3 DEF Revert
<1> QED
  BY <1>4, <1>5, <1>6, OperatorKeeps

\* What is left after a write is safe: a settle records the pair that was saved, and a member's item
\* stands in front of the rest until its snapshot has been taken.
LEMMA RestPlan ==
    ASSUME HeldInv, NEW p \in Proc, proc[p].at = "writing", NEW G, held \subseteq G,
           Head(proc[p].todo).op = "remote" => Head(proc[p].todo).v \in G
    PROVE  Rest(p) \in Seq(Write) /\ Safe(Rest(p), G)
<1>1. local \in Rows /\ proc[p] \in Process /\ Sound(proc[p], held)
  BY DEF HeldInv
<1>2. PICK t \in Seq(Write) : t = proc[p].todo /\ t # <<>> /\ Safe(t, held)
  BY <1>1 DEF Process, Sound
<1>3. PICK h \in Write : h = Head(t) /\ (Records(h) => h.v \in held)
  BY <1>2, SafeTail
<1>4. Tail(t) \in Seq(Write) /\ Safe(Tail(t), G)
  BY <1>2, SafeTail
<1>5. CASE h.op = "mirror"
  <2>1. h.s \in Series /\ h.v \in Entry /\ h.v \in G
    BY <1>3, <1>5, WriteFields DEF Records
  <2>2. Rest(p) = Settle(local, h.s, h.v)
    BY <1>2, <1>3, <1>5 DEF Rest
  <2>3. PICK b \in Seq(Write) : b = Rest(p) /\ OnlyOf(b, h.v)
    BY <1>1, <2>1, <2>2, SettlePlan
  <2> QED
    BY <2>1, <2>3 DEF OnlyOf, Safe
<1>6. CASE h.op = "member" /\ h.due # {}
  <2>1. h.s \in Series /\ h.v \in Entry /\ h.due \in SUBSET Field /\ h = Member(h.s, h.v, h.due)
    BY <1>6, WriteFields
  <2>2. PICK u \in SUBSET Field : u = IF "progress" \in h.due THEN h.due \ {"progress"} ELSE {}
    BY <2>1
  <2>3. PICK w \in Write : w = Member(h.s, h.v, u) /\ w.v = h.v
    BY <2>1, WriteTypes, WriteRecords
  <2>4. [h EXCEPT !.due = IF "progress" \in @ THEN @ \ {"progress"} ELSE {}] = w
    <3>1. PICK s, e, due : h = [op |-> "member", s |-> s, v |-> e, due |-> due] /\ s = h.s /\ e = h.v /\ due = h.due
      BY <2>1 DEF Member
    <3>2. [h EXCEPT !.due = u] = [op |-> "member", s |-> s, v |-> e, due |-> u]
      BY <3>1
    <3>3. w = [op |-> "member", s |-> s, v |-> e, due |-> u]
      BY <2>3, <3>1 DEF Member
    <3>4. [h EXCEPT !.due = IF "progress" \in @ THEN @ \ {"progress"} ELSE {}] = [h EXCEPT !.due = u]
      BY <2>2, <3>1
    <3> QED
      BY <3>2, <3>3, <3>4
  <2>5. Rest(p) = <<w>> \o Tail(t)
    BY <1>2, <1>3, <1>6, <2>4 DEF Rest
  <2>6. <<w>> \o Tail(t) \in Seq(Write) /\ Safe(<<w>> \o Tail(t), held)
    BY <1>2, <1>3, <1>6, <2>3, SafeMember
  <2>7. Safe(<<w>> \o Tail(t), G)
    BY <2>6 DEF Safe
  <2> QED
    BY <2>5, <2>6, <2>7
<1>7. CASE h.op # "mirror" /\ ~(h.op = "member" /\ h.due # {})
  <2>1. Rest(p) = Tail(t)
    BY <1>2, <1>3, <1>7 DEF Rest
  <2> QED
    BY <1>4, <2>1
<1> QED
  BY <1>5, <1>6, <1>7

\* A write: the tables keep their types, a snapshot is of a pair that was held, and a saved pair is held.
LEMMA StepKeeps ==
    ASSUME HeldInv, NEW p \in Proc, Step(p)
    PROVE  HeldInv'
<1>1. /\ local \in Rows /\ conflict \in [Series -> Pending] /\ journal \in SUBSET Decision
      /\ owed \in SUBSET Series /\ held \in SUBSET Entry
      /\ ancestor \in Entry \union {None}
      /\ remote \in held \union {None} /\ own \in held \union {None}
      /\ proc \in [Proc -> Process] /\ proc[p] \in Process /\ Sound(proc[p], held)
  BY DEF HeldInv
<1>2. proc[p].at = "writing"
  BY DEF Step
<1>3. PICK t \in Seq(Write) : t = proc[p].todo /\ t # <<>> /\ Safe(t, held)
  BY <1>1, <1>2 DEF Process, Sound
<1>4. PICK h : h = Head(t)
  OBVIOUS
<1>5. PICK w : w = NextWrite(p)
  OBVIOUS
<1>6. w = IF h.op = "member" THEN Head(MemberWrites(h)) ELSE h
  BY <1>3, <1>4, <1>5 DEF NextWrite
<1>7. /\ w \in Write /\ w.op # "member"
      /\ w.op = "snapshot" => w.v \in held
      /\ h.op = "remote" => w = h
  BY <1>3, <1>4, <1>6, NextWriteType
<1>8. PICK db : db = Effect(Db, w)
  OBVIOUS
<1>9. PICK G : G = IF w.op = "remote" THEN held \union {w.v} ELSE held
  OBVIOUS
<1>10. held \subseteq G /\ G \in SUBSET Entry /\ (w.op = "remote" => w.v \in G)
  BY <1>1, <1>7, <1>9, WriteFields
<1>11. Db \in [local : Rows, remote : held \union {None}, ancestor : Entry \union {None}, conflict : [Series -> Pending]]
  BY <1>1 DEF Db
<1>12. /\ db.local \in Rows /\ db.conflict \in [Series -> Pending]
       /\ db.remote \in G \union {None} /\ db.ancestor \in Entry \union {None}
  BY <1>7, <1>8, <1>10, <1>11, EffectType
<1>13. /\ local' = db.local /\ remote' = db.remote /\ ancestor' = db.ancestor /\ conflict' = db.conflict
       /\ held' = G /\ owed' = owed
       /\ own' = IF w.op = "snapshot" THEN w.v ELSE own
       /\ journal' = CASE w.op = "flush" -> journal \union proc[p].notes
                       [] w.op = "mark"  -> journal \ {w.v}
                       [] OTHER          -> journal
       /\ proc' = [proc EXCEPT ![p] = IF Rest(p) = <<>> THEN Idle ELSE [@ EXCEPT !.todo = Rest(p)]]
  BY <1>5, <1>8, <1>9 DEF Step
<1>14. journal' \in SUBSET Decision
  <2>1. proc[p].notes \in SUBSET Decision
    BY <1>1 DEF Process
  <2>2. CASE w.op = "flush"
    BY <1>1, <1>13, <2>1, <2>2
  <2>3. CASE w.op = "mark"
    BY <1>1, <1>13, <2>3
  <2>4. CASE w.op # "flush" /\ w.op # "mark"
    BY <1>1, <1>13, <2>4
  <2> QED
    BY <2>2, <2>3, <2>4
<1>15. PICK rest \in Seq(Write) : rest = Rest(p) /\ Safe(rest, G)
  <2>1. h.op = "remote" => h.v \in G
    BY <1>7, <1>10
  <2> QED
    BY <1>2, <1>3, <1>4, <1>10, <2>1, RestPlan
<1>16. PICK x : x = IF rest = <<>> THEN Idle ELSE [proc[p] EXCEPT !.todo = rest]
  OBVIOUS
<1>17. x \in Process /\ Sound(x, G)
  <2>1. CASE rest = <<>>
    BY <1>16, <2>1, IdleSound
  <2>2. CASE rest # <<>>
    <3>1. x = [proc[p] EXCEPT !.todo = rest]
      BY <1>16, <2>2
    <3>2. x \in Process /\ x.at = "writing" /\ x.todo = rest /\ x.remote = proc[p].remote
      BY <1>1, <1>2, <3>1 DEF Process
    <3>3. proc[p].remote \in G \union {None}
      BY <1>1, <1>10 DEF Sound
    <3> QED
      BY <1>15, <2>2, <3>2, <3>3 DEF Sound
  <2> QED
    BY <2>1, <2>2
<1>18. proc' = [proc EXCEPT ![p] = x]
  BY <1>1, <1>13, <1>15, <1>16
<1>19. proc' \in [Proc -> Process] /\ \A q \in Proc : Sound(proc'[q], held')
  BY <1>10, <1>13, <1>17, <1>18, ProcKeeps
<1>20. own' \in G \union {None}
  BY <1>1, <1>7, <1>10, <1>13
<1> QED
  BY <1>1, <1>10, <1>12, <1>13, <1>14, <1>19, <1>20 DEF HeldInv

\* A failure drops what is left.
LEMMA FailKeeps ==
    ASSUME HeldInv, NEW p \in Proc, Fail(p)
    PROVE  HeldInv'
<1>1. /\ proc' = [proc EXCEPT ![p] = Idle] /\ owed' = owed
      /\ UNCHANGED <<local, remote, ancestor, conflict, journal, held, own>>
  BY DEF Fail
<1>2. owed' \in SUBSET Series
  BY <1>1 DEF HeldInv
<1>3. Idle \in Process /\ Sound(Idle, held)
  BY IdleSound
<1> QED
  BY <1>1, <1>2, <1>3, PlanKeeps

\* Another reader's snapshot is a pair, and leaves what this reader recorded alone.
LEMMA OtherReaderKeeps ==
    ASSUME HeldInv, NEW e \in Foreign, OtherReader(e)
    PROVE  HeldInv'
<1>1. e \in Entry
  BY SyncAssumption DEF Entry, Chapter
<1>2. ancestor' = e /\ UNCHANGED <<local, remote, conflict, journal, owed, proc, held, own>>
  BY DEF OtherReader
<1> QED
  BY <1>1, <1>2 DEF HeldInv

\* The initial tables.
LEMMA InitHolds ==
    ASSUME Init
    PROVE  HeldInv
<1>1. Start \in Entry /\ Linked # <<>> /\ Linked \in Seq(Series)
  BY SyncAssumption DEF Entry, Chapter, Series
<1>2. \A T : RowsAt(T, Start) \in Rows
  <2>1. Start.progress \in Chapter /\ Start.status \in Status
    BY <1>1 DEF Entry
  <2> QED
    BY <2>1 DEF RowsAt, Rows
<1>3. local \in Rows
  BY <1>2 DEF Init
<1>4. remote \in Entry \union {None} /\ ancestor \in Entry \union {None}
  BY <1>1 DEF Init
<1>5. held \in SUBSET Entry /\ remote \in held \union {None} /\ own \in held \union {None}
  <2>1. held = {remote, ancestor} \ {None} /\ own = ancestor
    BY DEF Init
  <2> QED
    BY <1>4, <2>1
<1>6. conflict \in [Series -> Pending]
  <2>1. conflict = [s \in Series |-> [f \in Field |-> None]]
    BY DEF Init
  <2>2. [f \in Field |-> None] \in Pending
    BY DEF Pending
  <2> QED
    BY <2>1, <2>2
<1>7. journal \in SUBSET Decision /\ owed \in SUBSET Series
  BY DEF Init
<1>8. proc \in [Proc -> Process] /\ \A p \in Proc : Sound(proc[p], held)
  BY IdleSound DEF Init
<1> QED
  BY <1>3, <1>4, <1>5, <1>6, <1>7, <1>8 DEF HeldInv

\* Every step keeps the invariant.
LEMMA NextHolds ==
    ASSUME HeldInv, [Next]_vars
    PROVE  HeldInv'
<1>1. CASE Reader
  BY <1>1, ReaderKeeps
<1>2. CASE Pass
  BY <1>2, PassFetchKeeps, PassLoadKeeps, PassMergeKeeps, PassCreateKeeps, PassSkipKeeps DEF Pass
<1>3. CASE \E s \in Series : PushStart(s)
  BY <1>3, PushStartKeeps
<1>4. CASE Operator
  BY <1>4, ResolveKeeps, RevertKeeps DEF Operator
<1>5. CASE \E p \in Proc : Step(p) \/ Fail(p)
  BY <1>5, StepKeeps, FailKeeps
<1>6. CASE \E e \in Foreign : OtherReader(e)
  BY <1>6, OtherReaderKeeps
<1>7. CASE UNCHANGED vars
  BY <1>7 DEF vars, HeldInv
<1> QED
  BY <1>1, <1>2, <1>3, <1>4, <1>5, <1>6, <1>7 DEF Next

-----------------------------------------------------------------------------
\* Whatever this reader's processes have recorded last or have still to record has been held by the
\* reader's tracker, or is saved first: the order apply_merge, push_inner and revert_push keep, with
\* the shared ancestor at any pair that any other reader leaves there.
THEOREM PlansHold == Spec => []HeldInv
<1>1. Init => HeldInv
  BY InitHolds
<1>2. HeldInv /\ [Next]_vars => HeldInv'
  BY NextHolds
<1> QED
  BY <1>1, <1>2, PTL DEF Spec

\* Rows, entries, plans and decisions keep their shape, for any linked group, policies and bounds.
THEOREM SyncTypeCorrect == Spec => []TypeOK
<1>1. HeldInv => TypeOK
  <2> SUFFICES ASSUME HeldInv PROVE TypeOK
    OBVIOUS
  <2>1. \A p \in Proc : proc[p].at \in At /\ (proc[p].at = "writing" <=> proc[p].todo # <<>>)
    BY DEF HeldInv, Process, Sound
  <2> QED
    BY <2>1 DEF HeldInv, TypeOK
<1> QED
  BY <1>1, PlansHold, PTL

\* What the reader's own pass, push or request records as the ancestor is a pair the tracker has held,
\* wherever one of them fails and whatever other readers have written into the row they merged against.
THEOREM SnapshotsHeld == Spec => []RecordedWasHeld
<1>1. HeldInv => RecordedWasHeld
  BY DEF HeldInv, RecordedWasHeld
<1> QED
  BY <1>1, PlansHold, PTL
=============================================================================
