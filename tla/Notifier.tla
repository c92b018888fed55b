------------------------------ MODULE Notifier ------------------------------
(***************************************************************************)
(* From a discovered chapter to the readers who watch its series.  The     *)
(* scans of overlapping providers publish one chapter.discovered event for *)
(* every chapter that is new to their own source; the replicas of the      *)
(* notifier share one durable consumer and fan each event out: read the    *)
(* watchers, claim the reader's slot for the chapter, filter, coalesce     *)
(* into the reader's open notification, alert the external channels.       *)
(* Every one of those statements commits by itself.                        *)
(*                                                                         *)
(* One series.  A chapter's number is doubled, so that 2 is chapter 1 and  *)
(* 3 is the part 1.5.  Live pushes and the document's display fields are   *)
(* left out: they are best effort, or copied.                              *)
(*                                                                         *)
(* A definition marked Variant is the next one with a plausible defect.    *)
(***************************************************************************)
EXTENDS Integers, FiniteSets, FiniteSetsExt

CONSTANTS
    Reader,
    Provider,
    Chapter,        \* doubled chapter numbers
    Event,          \* the chapters that providers come to list
    Consumer,       \* notifier replicas
    MaxDeliveries,  \* max_deliveries of the notifier's ConsumePolicy
    MaxActs,        \* bound: what readers and operators do
    MaxFaults,      \* bound: failed calls, crashes and lost heartbeats
    None

\* An open notification; a reader without one has None.
Row == [count : Nat, first : Chapter, last : Chapter, latest : Chapter]

ASSUME NotifierAssumption ==
    /\ IsFiniteSet(Reader) /\ IsFiniteSet(Provider) /\ IsFiniteSet(Chapter) /\ IsFiniteSet(Consumer)
    /\ Chapter \subseteq Nat /\ None \notin Chapter \union Row
    /\ Event \subseteq Provider \X Chapter
    /\ MaxDeliveries \in Nat \ {0} /\ MaxActs \in Nat /\ MaxFaults \in Nat

VARIABLES
    reader,    \* what each reader has set: the watchlist entry, preferences and progress
    inApp,     \* Feature::NotificationsInApp
    msg,       \* the chapter.discovered message of each provider's chapter
    consumer,  \* where fan_out is in each replica
    dedup,     \* notification_dedup: the readers whose slot for a chapter is taken
    open,      \* each reader's unread notification of the series, or None
    sent,      \* alerts sent to the external channels
    acts,
    faults,
    since,     \* history: the chapters of each reader's open notification
    told,      \* history: how often each reader was told of a chapter
    muted      \* history: the readers whom a fan-out left out on purpose

settings == <<reader, inApp>>
history  == <<since, told, muted>>
vars     == <<reader, inApp, msg, consumer, dedup, open, sent, acts, faults, since, told, muted>>

-----------------------------------------------------------------------------
Access == {"free", "locked"}
Stages == {"watchers", "claim", "filter", "write", "send", "ack"}

floor(n) == n \div 2
Whole    == {floor(n) : n \in Chapter} \union {0}
Part     == {n \in Chapter : n % 2 = 1}

\* No progress row, or the two read frontiers.
Progress == {None} \union [whole : Whole, part : Part \union {None}]

Settings == [watches  : BOOLEAN,            \* watchlist_entries.notify
             allows   : BOOLEAN,            \* what the preferences say of this status
             optin    : SUBSET Provider,    \* user_provider_early_access
             progress : Progress]

Message == [state : {"absent", "queued", "pending", "gone", "unsent"}, n : 0..MaxDeliveries, access : Access]
Idle    == [at |-> "idle"]
FanOut  == [at : Stages, event : Event, n : 1..MaxDeliveries, inApp : BOOLEAN,
            unread : SUBSET Reader, allows : SUBSET Reader, claimed : SUBSET Reader,
            to : SUBSET Reader]

TypeOK ==
    /\ reader \in [Reader -> Settings]
    /\ inApp \in BOOLEAN
    /\ msg \in [Event -> Message]
    /\ consumer \in [Consumer -> {Idle} \union FanOut]
    /\ dedup \in [Chapter -> SUBSET Reader]
    /\ open \in [Reader -> {None} \union Row]
    /\ sent \in [Chapter -> Nat]
    /\ acts \in 0..MaxActs /\ faults \in 0..MaxFaults
    /\ since \in [Reader -> SUBSET Chapter]
    /\ told \in [Reader -> [Chapter -> Nat]]
    /\ muted \in [Chapter -> SUBSET Reader]

\* ReadProgress::covers: a part belongs to the chapter it floors to.
covers(progress, n) ==
    /\ progress # None
    /\ \/ floor(n) <= progress.whole
       \/ n \in Part /\ progress.part # None /\ n <= progress.part

-----------------------------------------------------------------------------
(* Readers, operators and scans.                                           *)

Act == acts < MaxActs /\ acts' = acts + 1

\* A reader changes the watchlist entry, the preferences or the early access, or reads on.
ChangeSettings(u) ==
    /\ Act
    /\ \/ reader' = [reader EXCEPT ![u].watches = ~@]
       \/ reader' = [reader EXCEPT ![u].allows = ~@]
       \/ \E p \in Provider : reader' = [reader EXCEPT ![u].optin = IF p \in @ THEN @ \ {p} ELSE @ \union {p}]
    /\ UNCHANGED <<inApp, msg, consumer, dedup, open, sent, faults>> /\ UNCHANGED history

\* progress_set: the whole frontier outright, and a part frontier that it overtakes is dropped.
ProgressSet(u, w) ==
    /\ Act
    /\ LET old  == reader[u].progress
           part == IF old = None THEN None
                   ELSE IF old.part # None /\ floor(old.part) <= w THEN None ELSE old.part
       IN  reader' = [reader EXCEPT ![u].progress = [whole |-> w, part |-> part]]
    /\ UNCHANGED <<inApp, msg, consumer, dedup, open, sent, faults>> /\ UNCHANGED history

\* notifications_mark_read, notifications_mark_all_read.
MarkNotificationsRead(u) ==
    /\ Act
    /\ open[u] # None
    /\ open' = [open EXCEPT ![u] = None]
    /\ since' = [since EXCEPT ![u] = {}]
    /\ UNCHANGED <<reader, inApp, msg, consumer, dedup, sent, faults, told, muted>>

SwitchInApp ==
    /\ Act
    /\ inApp' = ~inApp
    /\ UNCHANGED <<reader, msg, consumer, dedup, open, sent, faults>> /\ UNCHANGED history

\* A scan finds a chapter that is new to the provider's source, commits it and publishes it once;
\* when the publish fails, or the worker dies before it, the next scan knows the chapter.
Discover(e, access, published) ==
    /\ msg[e].state = "absent"
    /\ published \/ faults < MaxFaults
    /\ faults' = IF published THEN faults ELSE faults + 1
    /\ msg' = [msg EXCEPT ![e] = [state |-> IF published THEN "queued" ELSE "unsent",
                                  n |-> 0, access |-> access]]
    /\ UNCHANGED settings /\ UNCHANGED history /\ UNCHANGED <<consumer, dedup, open, sent, acts>>

-----------------------------------------------------------------------------
(* fan_out, one action per statement.  A statement that fails ends the     *)
(* handler, and consume hands the message back or gives up on it.          *)

At(k, stage) == consumer[k].at = stage
Move(k, f)   == consumer' = [consumer EXCEPT ![k] = f]

\* Variant: acked whatever the handler says.
AcksAlways(e, n, retry) == [msg EXCEPT ![e].state = "gone", ![e].n = 0]

\* Handed back by retry_later, or settled for good when the deliveries are spent.
Settled(e, n, retry) ==
    IF retry /\ n < MaxDeliveries /\ msg[e].state # "gone"
    THEN [msg EXCEPT ![e].state = "queued"]
    ELSE [msg EXCEPT ![e].state = "gone", ![e].n = 0]

Pull(k, e) ==
    /\ At(k, "idle")
    /\ msg[e].state = "queued"
    /\ LET n == Min({msg[e].n + 1, MaxDeliveries})
       IN  /\ msg' = [msg EXCEPT ![e].state = "pending", ![e].n = n]
           /\ Move(k, [at |-> "watchers", event |-> e, n |-> n, inApp |-> inApp,
                        unread |-> {}, allows |-> {}, claimed |-> {}, to |-> {}])
    /\ UNCHANGED settings /\ UNCHANGED history /\ UNCHANGED <<dedup, open, sent, acts, faults>>

\* watchers_for_series, without those whose progress covers the chapter.
unread_by(c) == {u \in Reader : reader[u].watches /\ ~covers(reader[u].progress, c)}

ReadWatchers(k) ==
    /\ At(k, "watchers")
    /\ Move(k, [consumer[k] EXCEPT !.at = "claim",
                                    !.unread = unread_by(consumer[k].event[2]),
                                    !.allows = {u \in Reader : reader[u].allows}])
    /\ UNCHANGED settings /\ UNCHANGED history /\ UNCHANGED <<msg, dedup, open, sent, acts, faults>>

\* Variant: the claim answers with every reader it was asked for.
ClaimedAnew(us, c) == us

\* dedup_claim_many returns the rows it inserted.
dedup_claim_many(us, c) == us \ dedup[c]

Claim(k) ==
    /\ At(k, "claim")
    /\ LET f == consumer[k]
           c == f.event[2]
           claimed == dedup_claim_many(f.unread, c)
       IN  /\ dedup' = [dedup EXCEPT ![c] = @ \union f.unread]
           /\ Move(k, [f EXCEPT !.at = "filter", !.unread = {}, !.claimed = claimed])
    /\ UNCHANGED settings /\ UNCHANGED history /\ UNCHANGED <<msg, open, sent, acts, faults>>

\* announceable, early_access_opted_in and NotificationPrefs::allows.
recipients(f) ==
    {u \in f.claimed \intersect f.allows :
        msg[f.event].access = "free" \/ f.event[1] \in reader[u].optin}

Filter(k) ==
    /\ At(k, "filter")
    /\ LET f  == consumer[k]
           to == recipients(f)
       IN  /\ Move(k, [f EXCEPT !.at = IF f.inApp /\ to # {} THEN "write" ELSE "send",
                                 !.allows = {}, !.to = IF f.inApp THEN to ELSE {}])
           /\ muted' = [muted EXCEPT ![f.event[2]] =
                            @ \union (IF f.inApp THEN f.claimed \ to ELSE f.claimed)]
    /\ UNCHANGED settings /\ UNCHANGED <<msg, dedup, open, sent, acts, faults, since, told>>

\* Variant: the document of the event replaces the one it finds.
Replaced(row, c) == [count |-> 1, first |-> c, last |-> c, latest |-> c]

\* Variant: a first number that is missing counts as zero.
FromZero(row, c) ==
    LET first == IF row = None THEN 0 ELSE row.first
    IN  [count |-> (IF row = None THEN 0 ELSE row.count) + 1, first |-> Min({first, c}),
         last |-> c, latest |-> c]

\* The ON CONFLICT clause of notifications_upsert_many.
coalesce(row, c) ==
    IF row = None THEN [count |-> 1, first |-> c, last |-> c, latest |-> c]
    ELSE [count  |-> row.count + 1,
          first  |-> Min({row.first, c}),
          last   |-> Max({row.last, c}),
          latest |-> IF c >= row.last THEN c ELSE row.latest]

\* Variant: a reader who has an open notification keeps it as it is.
UpsertNothing(us, c) ==
    LET new == {u \in us : open[u] = None}
    IN  /\ open' = [u \in Reader |-> IF u \in new THEN coalesce(None, c) ELSE open[u]]
        /\ since' = [u \in Reader |-> IF u \in new THEN {c} ELSE since[u]]
        /\ told' = [u \in Reader |-> IF u \in new THEN [told[u] EXCEPT ![c] = @ + 1] ELSE told[u]]

Upsert(us, c) ==
    /\ open' = [u \in Reader |-> IF u \in us THEN coalesce(open[u], c) ELSE open[u]]
    /\ since' = [u \in Reader |-> IF u \in us THEN since[u] \union {c} ELSE since[u]]
    /\ told' = [u \in Reader |-> IF u \in us THEN [told[u] EXCEPT ![c] = @ + 1] ELSE told[u]]

\* notifications_upsert_many: all recipients or none.
Write(k) ==
    /\ At(k, "write")
    /\ Upsert(consumer[k].to, consumer[k].event[2])
    /\ Move(k, [consumer[k] EXCEPT !.at = "send", !.to = {}])
    /\ UNCHANGED settings /\ UNCHANGED <<msg, dedup, sent, acts, faults, muted>>

\* Variant: the channels are alerted of every event.
AlertsEvery(f) == msg[f.event].access = "free"

\* The guard of dispatch_external; what becomes of the alert is not looked at.
Alerts(f) == f.claimed # {} /\ msg[f.event].access = "free"

Send(k) ==
    /\ At(k, "send")
    /\ LET f == consumer[k]
       IN  /\ sent' = [sent EXCEPT ![f.event[2]] = IF Alerts(f) THEN @ + 1 ELSE @]
           /\ Move(k, [f EXCEPT !.at = "ack", !.claimed = {}])
    /\ UNCHANGED settings /\ UNCHANGED history /\ UNCHANGED <<msg, dedup, open, acts, faults>>

Ack(k) ==
    /\ At(k, "ack")
    /\ msg' = Settled(consumer[k].event, consumer[k].n, FALSE)
    /\ Move(k, Idle)
    /\ UNCHANGED settings /\ UNCHANGED history /\ UNCHANGED <<dedup, open, sent, acts, faults>>

-----------------------------------------------------------------------------
(* Faults.                                                                 *)

Fault == faults < MaxFaults /\ faults' = faults + 1

\* A statement fails with nothing committed, or commits and its answer is lost.
StatementFails(k) ==
    /\ Fault
    /\ LET f == consumer[k] IN
       \/ /\ \/ f.at \in {"watchers", "write"}
             \/ f.at = "claim" /\ f.unread # {}
             \/ f.at = "filter" /\ f.claimed # {} /\ msg[f.event].access = "locked"
          /\ UNCHANGED <<dedup, open, since, told>>
       \/ /\ f.at = "claim" /\ f.unread # {}
          /\ dedup' = [dedup EXCEPT ![f.event[2]] = @ \union f.unread]
          /\ UNCHANGED <<open, since, told>>
       \/ f.at = "write" /\ Upsert(f.to, f.event[2]) /\ UNCHANGED dedup
    /\ msg' = Settled(consumer[k].event, consumer[k].n, TRUE)
    /\ Move(k, Idle)
    /\ UNCHANGED settings /\ UNCHANGED <<sent, acts, muted>>

\* The replica dies, or its ack or nak is lost: the broker still waits for an answer.
Crash(k) ==
    /\ Fault
    /\ ~At(k, "idle")
    /\ Move(k, Idle)
    /\ UNCHANGED settings /\ UNCHANGED history /\ UNCHANGED <<msg, dedup, open, sent, acts>>

Holders(e) == {k \in Consumer : ~At(k, "idle") /\ consumer[k].event = e}

\* The ack deadline lapses: nobody works on the message, or its heartbeats are lost.
Lapse(e) ==
    /\ msg[e].state = "pending"
    /\ \/ Holders(e) = {} /\ UNCHANGED faults
       \/ Holders(e) # {} /\ Fault
    /\ msg' = [msg EXCEPT ![e].state = "queued"]
    /\ UNCHANGED settings /\ UNCHANGED history /\ UNCHANGED <<consumer, dedup, open, sent, acts>>

-----------------------------------------------------------------------------
Init ==
    /\ reader \in [Reader -> [watches : {TRUE}, allows : {TRUE}, optin : {{}},
                               progress : {None} \union [whole : {0}, part : Part]]]
    /\ inApp = TRUE
    /\ msg = [e \in Event |-> [state |-> "absent", n |-> 0, access |-> "free"]]
    /\ consumer = [k \in Consumer |-> Idle]
    /\ dedup = [c \in Chapter |-> {}]
    /\ open = [u \in Reader |-> None]
    /\ sent = [c \in Chapter |-> 0]
    /\ acts = 0 /\ faults = 0
    /\ since = [u \in Reader |-> {}]
    /\ told = [u \in Reader |-> [c \in Chapter |-> 0]]
    /\ muted = [c \in Chapter |-> {}]

FanOutStep(k) ==
    \/ \E e \in Event : Pull(k, e)
    \/ ReadWatchers(k) \/ Claim(k) \/ Filter(k) \/ Write(k) \/ Send(k) \/ Ack(k)

Next ==
    \/ \E u \in Reader : ChangeSettings(u) \/ MarkNotificationsRead(u) \/ \E w \in Whole : ProgressSet(u, w)
    \/ SwitchInApp
    \/ \E e \in Event, access \in Access, published \in BOOLEAN : Discover(e, access, published)
    \/ \E k \in Consumer : FanOutStep(k) \/ StatementFails(k) \/ Crash(k)
    \/ \E e \in Event : Lapse(e)

Spec == Init /\ [][Next]_vars

-----------------------------------------------------------------------------
(* Properties.                                                             *)

\* A reader is told of a chapter at most once, whoever discovers it again, however often the
\* events are delivered and whatever fails: the claim of fan_out makes redelivery safe.
ToldOnce == \A u \in Reader, c \in Chapter : told[u][c] <= 1

\* The open notification is the sum of what was announced since the last one was read: concurrent
\* upserts neither lose a chapter nor count one twice, and the range and the link are the right ones.
RowSumsUp ==
    \A u \in Reader :
        open[u] = IF since[u] = {} THEN None
                  ELSE [count |-> Cardinality(since[u]), first |-> Min(since[u]),
                        last |-> Max(since[u]), latest |-> Max(since[u])]

\* The readers whose slot is taken, who were not left out on purpose and whom nobody will tell.
Lost(c) ==
    {u \in dedup[c] : /\ told[u][c] = 0
                      /\ u \notin muted[c]
                      /\ \A k \in Consumer :
                             At(k, "idle") \/ consumer[k].event[2] # c \/ u \notin consumer[k].claimed}

\* While no call fails no announcement is lost, however fan-outs of the same and of other chapters
\* interleave with each other and with what readers and operators change.
LossNeedsFault == faults = 0 => \A c \in Chapter : Lost(c) = {}

\* Every alert of a chapter to the external channels stands for a reader who had not been claimed
\* for it before, so that rescans and redeliveries alert nobody again.
RescansNeverRealert == \A c \in Chapter : sent[c] <= Cardinality(dedup[c])

\* An event is settled only when every watcher with the chapter unread has been claimed for it, unless
\* its deliveries were all spent on failures.  (While settings stand still: they are read as they are.)
SettledMeansClaimed ==
    acts = 0 /\ faults < MaxDeliveries =>
        \A e \in Event : msg[e].state = "gone" => unread_by(e[2]) \subseteq dedup[e[2]]

\* "Acking unconditionally ... could lose notifications permanently": a fan-out that fails is tried
\* again so that, once its event is settled before its deliveries are spent, nobody was lost.
NothingLost ==
    \A c \in Chapter :
        faults < MaxDeliveries /\ (\A e \in Event : e[2] = c => msg[e].state = "gone") => Lost(c) = {}
=============================================================================
