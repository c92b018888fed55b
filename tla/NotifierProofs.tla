-------------------------- MODULE NotifierProofs ---------------------------
(***************************************************************************)
(* Proofs about Notifier, for any readers, providers, chapters, replicas,  *)
(* delivery budget and number of changes and faults.                       *)
(*                                                                         *)
(* ToldOnce is not inductive: nothing in it keeps two replicas from        *)
(* holding a claim to one reader, or a replica from holding one to a       *)
(* reader who has been told. ClaimInv says where claims are: what a        *)
(* replica has claimed is in the table, two replicas hold no common claim, *)
(* and a claim that is still to be announced is to a reader who has not    *)
(* been told. RowSumsUp and RescansNeverRealert rest on it (a row grows by *)
(* chapters it does not list; every alert is a replica's claim that is not *)
(* held any more). Of the two properties about loss, LossNeedsFault needs  *)
(* that without a fault every claimed reader is told, muted or about to be *)
(* told by the replica that holds the claim (LossInv), and                 *)
(* SettledMeansClaimed needs to count deliveries against faults            *)
(* (DeliveryInv), so that a message is given up only after a fault for     *)
(* each of its deliveries.                                                 *)
(***************************************************************************)
EXTENDS Notifier, FiniteSetTheorems, TLAPS

-----------------------------------------------------------------------------
(* Types.                                                                  *)

Fans == {Idle} \union FanOut

\* The event of a fan-out names a chapter.
LEMMA EventChapter ==
    ASSUME NEW e \in Event
    PROVE  e[2] \in Chapter
  BY NotifierAssumption

\* Where a replica is when it is not idle.
LEMMA FanOutShape ==
    ASSUME NEW f \in Fans, f.at # "idle"
    PROVE  f \in FanOut /\ f.event \in Event /\ f.event[2] \in Chapter
<1>1. f \in FanOut
  BY DEF Fans, Idle
<1>2. f.event \in Event
  BY <1>1 DEF FanOut
<1> QED
  BY <1>1, <1>2, EventChapter

\* A replica that is not idle carries a fan-out.
LEMMA AtWork ==
    ASSUME consumer \in [Consumer -> Fans], NEW k \in Consumer, ~At(k, "idle")
    PROVE  consumer[k] \in FanOut /\ consumer[k].event \in Event /\ consumer[k].event[2] \in Chapter
  BY FanOutShape DEF At

\* A stage of fan_out is not idleness.
LEMMA StageAtWork ==
    ASSUME consumer \in [Consumer -> Fans], NEW k \in Consumer, NEW st \in Stages, At(k, st)
    PROVE  ~At(k, "idle") /\ consumer[k] \in FanOut /\ consumer[k].event \in Event
           /\ consumer[k].event[2] \in Chapter
<1>1. ~At(k, "idle")
  BY DEF At, Stages
<1> QED
  BY <1>1, AtWork

\* Moving a replica on, or to rest, keeps the type of the replicas.
LEMMA MoveType ==
    ASSUME consumer \in [Consumer -> Fans], NEW k \in Consumer, NEW f \in Fans, Move(k, f)
    PROVE  consumer' \in [Consumer -> Fans]
  BY DEF Move

\* The updates that fan_out makes to where it is keep their type.
LEMMA FanOutUpdates ==
    ASSUME NEW f \in FanOut, NEW st \in Stages, NEW S \in SUBSET Reader, NEW T \in SUBSET Reader
    PROVE  /\ [f EXCEPT !.at = st, !.unread = S, !.allows = T] \in FanOut
           /\ [f EXCEPT !.at = st, !.unread = S, !.claimed = T] \in FanOut
           /\ [f EXCEPT !.at = st, !.allows = S, !.to = T] \in FanOut
           /\ [f EXCEPT !.at = st, !.to = S] \in FanOut
           /\ [f EXCEPT !.at = st, !.claimed = S] \in FanOut
  BY DEF FanOut

\* Settling a message, one way or the other, keeps the type of the stream.
LEMMA SettledType ==
    ASSUME msg \in [Event -> Message], NEW e \in Event, NEW n \in Nat, NEW retry \in BOOLEAN
    PROVE  Settled(e, n, retry) \in [Event -> Message]
<1>1. ASSUME NEW m \in Message
      PROVE  /\ [m EXCEPT !.state = "queued"] \in Message
             /\ [m EXCEPT !.state = "gone", !.n = 0] \in Message
  <2>1. 0 \in 0..MaxDeliveries
    BY NotifierAssumption
  <2>2. [m EXCEPT !.state = "queued"] \in Message
    BY DEF Message
  <2>3. [m EXCEPT !.state = "gone", !.n = 0] \in Message
    BY <2>1 DEF Message
  <2> QED
    BY <2>2, <2>3
<1>2. [msg EXCEPT ![e].state = "queued"] \in [Event -> Message]
  BY <1>1
<1>3. [msg EXCEPT ![e].state = "gone", ![e].n = 0] = [msg EXCEPT ![e] = [msg[e] EXCEPT !.state = "gone", !.n = 0]]
  BY DEF Message
<1>4. [msg EXCEPT ![e].state = "gone", ![e].n = 0] \in [Event -> Message]
  BY <1>1, <1>3
<1> QED
  BY <1>2, <1>4 DEF Settled

\* The smaller and the larger of two chapter numbers.
LEMMA OfTwo ==
    ASSUME NEW a \in Chapter, NEW b \in Chapter
    PROVE  /\ Min({a, b}) = IF a <= b THEN a ELSE b
           /\ Max({a, b}) = IF a >= b THEN a ELSE b
<1>1. a \in Nat /\ b \in Nat
  BY NotifierAssumption
<1>2. (\E x \in {a, b} : \A y \in {a, b} : x <= y) /\ (\E x \in {a, b} : \A y \in {a, b} : x >= y)
  BY <1>1
<1>3. Min({a, b}) \in {a, b} /\ \A y \in {a, b} : Min({a, b}) <= y
  BY <1>2, Zenon DEF Min
<1>4. Max({a, b}) \in {a, b} /\ \A y \in {a, b} : Max({a, b}) >= y
  BY <1>2, Zenon DEF Max
<1> QED
  BY <1>1, <1>3, <1>4

\* The upsert keeps the types of the notifications and of the history.
LEMMA UpsertType ==
    ASSUME TypeOK, NEW us \in SUBSET Reader, NEW c \in Chapter, Upsert(us, c)
    PROVE  /\ open' \in [Reader -> {None} \union Row]
           /\ since' \in [Reader -> SUBSET Chapter]
           /\ told' \in [Reader -> [Chapter -> Nat]]
<1>1. ASSUME NEW a \in Chapter, NEW b \in Chapter
      PROVE  Min({a, b}) \in Chapter /\ Max({a, b}) \in Chapter
  BY OfTwo
<1>2. ASSUME NEW row \in {None} \union Row
      PROVE  coalesce(row, c) \in Row
  <2>1. CASE row = None
    BY <2>1 DEF coalesce, Row
  <2>2. CASE row # None
    BY <2>2, <1>1 DEF coalesce, Row
  <2> QED
    BY <2>1, <2>2
<1>3. open' \in [Reader -> {None} \union Row]
  BY <1>2 DEF Upsert, TypeOK
<1>4. since' \in [Reader -> SUBSET Chapter]
  BY DEF Upsert, TypeOK
<1>5. told' \in [Reader -> [Chapter -> Nat]]
  BY DEF Upsert, TypeOK
<1> QED
  BY <1>3, <1>4, <1>5

\* The number a delivery carries: one more than the last, within the limit.
LEMMA PulledCount ==
    ASSUME msg \in [Event -> Message], NEW e \in Event
    PROVE  /\ Min({msg[e].n + 1, MaxDeliveries}) \in 1..MaxDeliveries
           /\ Min({msg[e].n + 1, MaxDeliveries}) <= msg[e].n + 1
<1> DEFINE a == msg[e].n + 1
<1>1. a \in Nat /\ 1 <= a /\ MaxDeliveries \in Nat /\ 1 <= MaxDeliveries
  BY NotifierAssumption DEF Message
<1>2. \E x \in {a, MaxDeliveries} : \A y \in {a, MaxDeliveries} : x <= y
  BY <1>1
<1>3. Min({a, MaxDeliveries}) \in {a, MaxDeliveries} /\ \A y \in {a, MaxDeliveries} : Min({a, MaxDeliveries}) <= y
  BY <1>2, Zenon DEF Min
<1> QED
  BY <1>1, <1>3

\* Only a replica at work has a statement that can fail.
LEMMA FailsAtWork ==
    ASSUME NEW k \in Consumer, StatementFails(k)
    PROVE  ~At(k, "idle")
  BY DEF StatementFails, At

\* What readers set keeps its type.
LEMMA SettingsType ==
    ASSUME TypeOK, NEW u \in Reader
    PROVE  /\ ChangeSettings(u) => reader' \in [Reader -> Settings]
           /\ \A w \in Whole : ProgressSet(u, w) => reader' \in [Reader -> Settings]
<1>1. reader \in [Reader -> Settings] /\ reader[u] \in Settings
  BY DEF TypeOK
<1>2. /\ reader[u].watches \in BOOLEAN /\ reader[u].allows \in BOOLEAN
      /\ reader[u].optin \in SUBSET Provider /\ reader[u].progress \in Progress
  BY <1>1 DEF Settings
<1>3. ASSUME ChangeSettings(u) PROVE reader' \in [Reader -> Settings]
  <2>1. CASE reader' = [reader EXCEPT ![u].watches = ~@]
    <3>1. [reader[u] EXCEPT !.watches = ~@] \in Settings
      BY <1>1, <1>2 DEF Settings
    <3> QED
      BY <1>1, <2>1, <3>1
  <2>2. CASE reader' = [reader EXCEPT ![u].allows = ~@]
    <3>1. [reader[u] EXCEPT !.allows = ~@] \in Settings
      BY <1>1, <1>2 DEF Settings
    <3> QED
      BY <1>1, <2>2, <3>1
  <2>3. CASE \E q \in Provider : reader' = [reader EXCEPT ![u].optin = IF q \in @ THEN @ \ {q} ELSE @ \union {q}]
    <3>1. PICK q \in Provider : reader' = [reader EXCEPT ![u].optin = IF q \in @ THEN @ \ {q} ELSE @ \union {q}]
      BY <2>3
    <3>2. (IF q \in reader[u].optin THEN reader[u].optin \ {q} ELSE reader[u].optin \union {q}) \in SUBSET Provider
      BY <1>2
    <3>3. [reader[u] EXCEPT !.optin = IF q \in @ THEN @ \ {q} ELSE @ \union {q}] \in Settings
      BY <1>1, <3>2 DEF Settings
    <3> QED
      BY <1>1, <3>1, <3>3
  <2> QED
    BY <1>3, <2>1, <2>2, <2>3 DEF ChangeSettings
<1>4. ASSUME NEW w \in Whole, ProgressSet(u, w) PROVE reader' \in [Reader -> Settings]
  <2> DEFINE old  == reader[u].progress
             part == IF old = None THEN None
                     ELSE IF old.part # None /\ floor(old.part) <= w THEN None ELSE old.part
  <2>2. part \in Part \union {None}
    <3>1. CASE old = None
      BY <3>1
    <3>2. CASE old # None
      <4>1. old \in [whole : Whole, part : Part \union {None}]
        BY <1>2, <3>2 DEF Progress
      <4>2. old.part \in Part \union {None}
        BY <4>1
      <4> QED
        BY <4>2
    <3> QED
      BY <3>1, <3>2
  <2>3. [whole |-> w, part |-> part] \in Progress
    <3> HIDE DEF part
    <3> QED
      BY <2>2 DEF Progress
  <2>4. reader' = [reader EXCEPT ![u].progress = [whole |-> w, part |-> part]]
    BY <1>4 DEF ProgressSet
  <2>5. [reader[u] EXCEPT !.progress = [whole |-> w, part |-> part]] \in Settings
    <3> HIDE DEF part
    <3> QED
      BY <1>1, <2>3 DEF Settings
  <2> QED
    <3> HIDE DEF part
    <3> QED
      BY <1>1, <2>4, <2>5
<1> QED
  BY <1>3, <1>4

\* TypeOK is inductive.
LEMMA TypeStep ==
    ASSUME TypeOK, [Next]_vars
    PROVE  TypeOK'
<1> USE DEF settings, history
<1>1. ASSUME NEW u \in Reader, ChangeSettings(u) PROVE TypeOK'
  <2>1. reader' \in [Reader -> Settings]
    BY <1>1, SettingsType
  <2> QED
    BY <1>1, <2>1, NotifierAssumption DEF TypeOK, ChangeSettings, Act
<1>2. ASSUME NEW u \in Reader, MarkNotificationsRead(u) PROVE TypeOK'
  BY <1>2, NotifierAssumption DEF TypeOK, MarkNotificationsRead, Act
<1>3. ASSUME NEW u \in Reader, NEW w \in Whole, ProgressSet(u, w) PROVE TypeOK'
  <2>1. reader' \in [Reader -> Settings]
    BY <1>3, SettingsType
  <2> QED
    BY <1>3, <2>1, NotifierAssumption DEF TypeOK, ProgressSet, Act
<1>4. ASSUME SwitchInApp PROVE TypeOK'
  BY <1>4, NotifierAssumption DEF TypeOK, SwitchInApp, Act
<1>5. ASSUME NEW e \in Event, NEW access \in Access, NEW published \in BOOLEAN,
             Discover(e, access, published)
      PROVE  TypeOK'
  <2>1. [state |-> IF published THEN "queued" ELSE "unsent", n |-> 0, access |-> access] \in Message
    BY NotifierAssumption DEF Message
  <2>2. msg' \in [Event -> Message]
    BY <1>5, <2>1 DEF TypeOK, Discover
  <2>3. faults' \in 0..MaxFaults
    BY <1>5, NotifierAssumption DEF TypeOK, Discover
  <2> QED
    BY <1>5, <2>2, <2>3 DEF TypeOK, Discover
<1>6. ASSUME NEW k \in Consumer, NEW e \in Event, Pull(k, e) PROVE TypeOK'
  <2> DEFINE n == Min({msg[e].n + 1, MaxDeliveries})
             f == [at |-> "watchers", event |-> e, n |-> n, inApp |-> inApp,
                   unread |-> {}, allows |-> {}, claimed |-> {}, to |-> {}]
  <2>1. n \in 1..MaxDeliveries
    BY PulledCount DEF TypeOK
  <2>2. f \in FanOut
    BY <2>1 DEF TypeOK, FanOut, Stages
  <2>3. consumer' \in [Consumer -> Fans]
    BY <1>6, <2>2, MoveType DEF TypeOK, Pull, Fans
  <2>4. [msg[e] EXCEPT !.state = "pending", !.n = n] \in Message
    <3>1. msg[e] \in Message
      BY DEF TypeOK
    <3>2. n \in 0..MaxDeliveries
      BY <2>1, NotifierAssumption
    <3> HIDE DEF n
    <3> QED
      BY <3>1, <3>2 DEF Message
  <2>5. msg' = [msg EXCEPT ![e] = [msg[e] EXCEPT !.state = "pending", !.n = n]]
    BY <1>6 DEF TypeOK, Pull, Message
  <2>6. msg' \in [Event -> Message]
    BY <2>4, <2>5 DEF TypeOK
  <2> QED
    BY <1>6, <2>3, <2>6 DEF TypeOK, Pull, Fans
<1>7. ASSUME NEW k \in Consumer, ReadWatchers(k) PROVE TypeOK'
  <2>1. consumer[k] \in FanOut
    BY <1>7, StageAtWork DEF ReadWatchers, TypeOK, Fans, Stages
  <2>2. unread_by(consumer[k].event[2]) \in SUBSET Reader /\ {u \in Reader : reader[u].allows} \in SUBSET Reader
    BY DEF unread_by
  <2>3. consumer' \in [Consumer -> Fans]
    BY <1>7, <2>1, <2>2, FanOutUpdates, MoveType DEF TypeOK, ReadWatchers, Fans, Stages
  <2> QED
    BY <1>7, <2>3 DEF TypeOK, ReadWatchers, Fans
<1>8. ASSUME NEW k \in Consumer, Claim(k) PROVE TypeOK'
  <2>1. consumer[k] \in FanOut /\ consumer[k].event[2] \in Chapter
    BY <1>8, StageAtWork DEF Claim, TypeOK, Fans, Stages
  <2>2. consumer[k].unread \in SUBSET Reader
    BY <2>1 DEF FanOut
  <2>3. dedup_claim_many(consumer[k].unread, consumer[k].event[2]) \in SUBSET Reader
    BY <2>2 DEF dedup_claim_many
  <2>4. consumer' \in [Consumer -> Fans]
    BY <1>8, <2>1, <2>3, FanOutUpdates, MoveType DEF TypeOK, Claim, Fans, Stages
  <2>5. dedup' \in [Chapter -> SUBSET Reader]
    BY <1>8, <2>1, <2>2 DEF TypeOK, Claim
  <2> QED
    BY <1>8, <2>4, <2>5 DEF TypeOK, Claim, Fans
<1>9. ASSUME NEW k \in Consumer, Filter(k) PROVE TypeOK'
  <2> DEFINE f == consumer[k]
             to == recipients(f)
  <2>1. f \in FanOut /\ f.event[2] \in Chapter
    BY <1>9, StageAtWork DEF Filter, TypeOK, Fans, Stages
  <2>2. f.claimed \in SUBSET Reader /\ to \in SUBSET Reader
    BY <2>1 DEF FanOut, recipients
  <2>3. (IF f.inApp /\ to # {} THEN "write" ELSE "send") \in Stages
    BY DEF Stages
  <2>4. (IF f.inApp THEN to ELSE {}) \in SUBSET Reader
    BY <2>2
  <2>5. consumer' \in [Consumer -> Fans]
    BY <1>9, <2>1, <2>3, <2>4, FanOutUpdates, MoveType DEF TypeOK, Filter, Fans
  <2>6. muted' \in [Chapter -> SUBSET Reader]
    BY <1>9, <2>1, <2>2 DEF TypeOK, Filter
  <2> QED
    BY <1>9, <2>5, <2>6 DEF TypeOK, Filter, Fans
<1>10. ASSUME NEW k \in Consumer, Write(k) PROVE TypeOK'
  <2>1. consumer[k] \in FanOut /\ consumer[k].event[2] \in Chapter
    BY <1>10, StageAtWork DEF Write, TypeOK, Fans, Stages
  <2>2. consumer[k].to \in SUBSET Reader
    BY <2>1 DEF FanOut
  <2>3. consumer' \in [Consumer -> Fans]
    BY <1>10, <2>1, FanOutUpdates, MoveType DEF TypeOK, Write, Fans, Stages
  <2>4. /\ open' \in [Reader -> {None} \union Row]
        /\ since' \in [Reader -> SUBSET Chapter]
        /\ told' \in [Reader -> [Chapter -> Nat]]
    BY <1>10, <2>1, <2>2, UpsertType DEF Write
  <2> QED
    BY <1>10, <2>3, <2>4 DEF TypeOK, Write, Fans
<1>11. ASSUME NEW k \in Consumer, Send(k) PROVE TypeOK'
  <2>1. consumer[k] \in FanOut /\ consumer[k].event[2] \in Chapter
    BY <1>11, StageAtWork DEF Send, TypeOK, Fans, Stages
  <2>2. consumer' \in [Consumer -> Fans]
    BY <1>11, <2>1, FanOutUpdates, MoveType DEF TypeOK, Send, Fans, Stages
  <2>3. sent' \in [Chapter -> Nat]
    BY <1>11, <2>1 DEF TypeOK, Send
  <2> QED
    BY <1>11, <2>2, <2>3 DEF TypeOK, Send, Fans
<1>12. ASSUME NEW k \in Consumer, Ack(k) PROVE TypeOK'
  <2>1. consumer[k] \in FanOut /\ consumer[k].event \in Event
    BY <1>12, StageAtWork DEF Ack, TypeOK, Fans, Stages
  <2>2. consumer[k].n \in Nat
    BY <2>1 DEF FanOut
  <2>3. msg' \in [Event -> Message]
    BY <1>12, <2>1, <2>2, SettledType DEF TypeOK, Ack
  <2>4. consumer' \in [Consumer -> Fans]
    BY <1>12, MoveType DEF TypeOK, Ack, Fans
  <2> QED
    BY <1>12, <2>3, <2>4 DEF TypeOK, Ack, Fans
<1>13. ASSUME NEW k \in Consumer, StatementFails(k) PROVE TypeOK'
  <2>1. consumer[k] \in FanOut /\ consumer[k].event \in Event /\ consumer[k].event[2] \in Chapter
    BY <1>13, FailsAtWork, AtWork DEF TypeOK, Fans
  <2>2. consumer[k].n \in Nat /\ consumer[k].unread \in SUBSET Reader /\ consumer[k].to \in SUBSET Reader
    BY <2>1 DEF FanOut
  <2>3. msg' \in [Event -> Message]
    BY <1>13, <2>1, <2>2, SettledType DEF TypeOK, StatementFails
  <2>4. consumer' \in [Consumer -> Fans]
    BY <1>13, MoveType DEF TypeOK, StatementFails, Fans
  <2>5. faults' \in 0..MaxFaults
    BY <1>13, NotifierAssumption DEF TypeOK, StatementFails, Fault
  <2>6. /\ dedup' \in [Chapter -> SUBSET Reader]
        /\ open' \in [Reader -> {None} \union Row]
        /\ since' \in [Reader -> SUBSET Chapter]
        /\ told' \in [Reader -> [Chapter -> Nat]]
    <3>1. CASE UNCHANGED <<dedup, open, since, told>>
      BY <3>1 DEF TypeOK
    <3>2. CASE /\ dedup' = [dedup EXCEPT ![consumer[k].event[2]] = @ \union consumer[k].unread]
               /\ UNCHANGED <<open, since, told>>
      BY <2>1, <2>2, <3>2 DEF TypeOK
    <3>3. CASE Upsert(consumer[k].to, consumer[k].event[2]) /\ UNCHANGED dedup
      BY <2>1, <2>2, <3>3, UpsertType DEF TypeOK
    <3> QED
      BY <1>13, <3>1, <3>2, <3>3 DEF StatementFails
  <2> QED
    BY <1>13, <2>3, <2>4, <2>5, <2>6 DEF TypeOK, StatementFails, Fans
<1>14. ASSUME NEW k \in Consumer, Crash(k) PROVE TypeOK'
  <2>1. consumer' \in [Consumer -> Fans]
    BY <1>14, MoveType DEF TypeOK, Crash, Fans
  <2> QED
    BY <1>14, <2>1, NotifierAssumption DEF TypeOK, Crash, Fault, Fans
<1>15. ASSUME NEW e \in Event, Lapse(e) PROVE TypeOK'
  <2>1. [msg[e] EXCEPT !.state = "queued"] \in Message
    <3>1. msg[e] \in Message
      BY DEF TypeOK
    <3> QED
      BY <3>1 DEF Message
  <2>2. msg' \in [Event -> Message]
    BY <1>15, <2>1 DEF TypeOK, Lapse
  <2> QED
    BY <1>15, <2>2, NotifierAssumption DEF TypeOK, Lapse, Fault
<1>16. CASE UNCHANGED vars
  BY <1>16 DEF TypeOK, vars
<1> QED
  BY <1>1, <1>2, <1>3, <1>4, <1>5, <1>6, <1>7, <1>8, <1>9, <1>10, <1>11, <1>12, <1>13, <1>14,
     <1>15, <1>16 DEF Next, FanOutStep

\* Every row, message and place has the shape its table or type gives it, for any number of readers,
\* chapters, replicas, deliveries and faults.
THEOREM NotifierTypeCorrect == Spec => []TypeOK
<1>1. Init => TypeOK
  <2> SUFFICES ASSUME Init PROVE TypeOK
    OBVIOUS
  <2>1. reader \in [Reader -> Settings]
    <3>1. 0 \in Whole
      BY DEF Whole
    <3>2. {None} \union [whole : {0}, part : Part] \subseteq Progress
      BY <3>1 DEF Progress
    <3>3. [watches : {TRUE}, allows : {TRUE}, optin : {{}}, progress : {None} \union [whole : {0}, part : Part]]
            \subseteq Settings
      BY <3>2 DEF Settings
    <3> QED
      BY <3>3 DEF Init
  <2>2. msg \in [Event -> Message]
    BY NotifierAssumption DEF Init, Message, Access
  <2>3. consumer \in [Consumer -> {Idle} \union FanOut]
    BY DEF Init
  <2> QED
    BY <2>1, <2>2, <2>3, NotifierAssumption DEF Init, TypeOK
<1>2. TypeOK /\ [Next]_vars => TypeOK'
  BY TypeStep
<1> QED
  BY <1>1, <1>2, PTL DEF Spec

-----------------------------------------------------------------------------
(* Claims.                                                                 *)

Working(k)   == ~At(k, "idle")
ChapterOf(k) == consumer[k].event[2]

\* What a replica has claimed is in the table; it tells only readers it has claimed, and holds
\* claims and recipients only between the statements that make and spend them.
ClaimsRecorded ==
    \A k \in Consumer : Working(k) =>
        /\ consumer[k].claimed \subseteq dedup[ChapterOf(k)]
        /\ consumer[k].to \subseteq consumer[k].claimed
        /\ consumer[k].at \in {"watchers", "claim", "ack"} => consumer[k].claimed = {}
        /\ consumer[k].at # "write" => consumer[k].to = {}

\* Two replicas never hold a claim to the same reader and chapter.
ClaimsApart ==
    \A k, h \in Consumer :
        k # h /\ Working(k) /\ Working(h) /\ ChapterOf(k) = ChapterOf(h) =>
            consumer[k].claimed \intersect consumer[h].claimed = {}

\* A claim that is still to be announced is to a reader who has not been told.
ClaimsUntold ==
    \A k \in Consumer : Working(k) /\ consumer[k].at \in {"filter", "write"} =>
        \A u \in consumer[k].claimed : told[u][ChapterOf(k)] = 0

\* Whoever was told had been claimed, and is told of what the open notification lists.
ToldWereClaimed ==
    /\ \A u \in Reader, c \in Chapter : told[u][c] > 0 => u \in dedup[c]
    /\ \A u \in Reader : \A c \in since[u] : told[u][c] > 0

ClaimInv == ClaimsRecorded /\ ClaimsApart /\ ClaimsUntold /\ ToldWereClaimed /\ ToldOnce

\* A step that tells nobody, takes no claim back from the table and leaves a replica as it is,
\* or at rest, or without claims, keeps ClaimInv.
LEMMA ClaimsQuiet ==
    ASSUME TypeOK, TypeOK', ClaimInv,
           UNCHANGED told,
           \A u \in Reader : since'[u] \subseteq since[u],
           \A c \in Chapter : dedup[c] \subseteq dedup'[c],
           \A k \in Consumer : Working(k)' =>
               \/ consumer'[k] = consumer[k]
               \/ /\ consumer'[k].claimed = {} /\ consumer'[k].to = {}
    PROVE  ClaimInv'
<1> USE DEF ClaimInv
<1>0. ASSUME NEW k \in Consumer, Working(k)'
      PROVE  /\ ChapterOf(k)' \in Chapter
             /\ consumer'[k].claimed # {} => /\ Working(k) /\ consumer'[k] = consumer[k]
                                            /\ ChapterOf(k)' = ChapterOf(k)
             /\ consumer'[k].to # {} => consumer'[k].claimed # {}
  <2>1. ChapterOf(k)' \in Chapter
    BY <1>0, FanOutShape DEF Working, At, ChapterOf, TypeOK, Fans
  <2> QED
    BY <1>0, <2>1 DEF Working, ChapterOf, At, ClaimsRecorded
<1>1. ClaimsRecorded'
  BY <1>0 DEF ClaimsRecorded
<1>2. ClaimsApart'
  BY <1>0 DEF ClaimsApart
<1>3. ClaimsUntold'
  BY <1>0 DEF ClaimsUntold
<1>4. ToldWereClaimed'
  BY DEF ToldWereClaimed, TypeOK
<1>5. ToldOnce'
  BY DEF ToldOnce
<1> QED
  BY <1>1, <1>2, <1>3, <1>4, <1>5

\* What a step leaves of the replicas it does not move.
LEMMA MoveOne ==
    ASSUME TypeOK, NEW k \in Consumer, NEW f, Move(k, f)
    PROVE  consumer'[k] = f /\ \A h \in Consumer \ {k} : consumer'[h] = consumer[h]
  BY DEF TypeOK, Move

\* dedup_claim_many hands out only slots that nobody holds.
LEMMA ClaimClaims ==
    ASSUME TypeOK, TypeOK', ClaimInv, NEW k \in Consumer, Claim(k)
    PROVE  ClaimInv'
<1> DEFINE f == consumer[k]
           c == ChapterOf(k)
           claimed == f.unread \ dedup[c]
<1>1. Working(k) /\ f \in FanOut /\ f.at = "claim" /\ c \in Chapter
  BY StageAtWork DEF Claim, TypeOK, Fans, Stages, Working, At, ChapterOf
<1>2. f.unread \in SUBSET Reader /\ f.to = {}
  BY <1>1 DEF FanOut, ClaimInv, ClaimsRecorded
<1>3. dedup' = [dedup EXCEPT ![c] = @ \union f.unread]
  BY DEF Claim, ChapterOf
<1>4. consumer'[k] = [f EXCEPT !.at = "filter", !.unread = {}, !.claimed = claimed]
      /\ \A h \in Consumer \ {k} : consumer'[h] = consumer[h]
  BY MoveOne DEF Claim, dedup_claim_many, ChapterOf
<1>5. /\ consumer'[k].at = "filter" /\ consumer'[k].claimed = claimed /\ consumer'[k].to = {}
      /\ consumer'[k].event = f.event /\ ChapterOf(k)' = c
  BY <1>1, <1>2, <1>4 DEF FanOut, ChapterOf
<1>6. \A h \in Consumer \ {k} : (Working(h)' <=> Working(h)) /\ ChapterOf(h)' = ChapterOf(h)
  BY <1>4 DEF Working, At, ChapterOf
<1>7. \A d \in Chapter : dedup[d] \subseteq dedup'[d]
  BY <1>1, <1>3 DEF TypeOK
<1>8. f.unread \subseteq dedup'[c]
  BY <1>1, <1>3 DEF TypeOK
<1>9. \A h \in Consumer : Working(h) => ChapterOf(h) \in Chapter
  BY AtWork DEF TypeOK, Fans, Working, ChapterOf
<1>10. UNCHANGED <<told, since>>
  BY DEF Claim, history
<1> HIDE DEF c, f
<1>11. ClaimsRecorded'
  BY <1>2, <1>4, <1>5, <1>6, <1>7, <1>8, <1>9 DEF ClaimInv, ClaimsRecorded
<1>12. ClaimsApart'
  <2>1. ASSUME NEW h \in Consumer \ {k}, Working(h), ChapterOf(h) = c
        PROVE  claimed \intersect consumer[h].claimed = {}
    BY <2>1 DEF ClaimInv, ClaimsRecorded
  <2>2. ASSUME NEW h \in Consumer \ {k}, Working(h)', ChapterOf(h)' = ChapterOf(k)'
        PROVE  consumer'[k].claimed \intersect consumer'[h].claimed = {}
    BY <1>4, <1>5, <1>6, <2>1, <2>2
  <2>3. ASSUME NEW g \in Consumer \ {k}, NEW h \in Consumer \ {k},
               g # h, Working(g)', Working(h)', ChapterOf(g)' = ChapterOf(h)'
        PROVE  consumer'[g].claimed \intersect consumer'[h].claimed = {}
    BY <1>4, <1>6, <2>3 DEF ClaimInv, ClaimsApart
  <2> QED
    BY <2>2, <2>3 DEF ClaimsApart
<1>13. ClaimsUntold'
  <2>1. \A u \in claimed : told[u][c] = 0
    BY <1>1, <1>2 DEF ClaimInv, ToldWereClaimed, TypeOK
  <2>2. \A u \in consumer'[k].claimed : told'[u][ChapterOf(k)'] = 0
    BY <1>5, <1>10, <2>1
  <2>3. ASSUME NEW h \in Consumer \ {k}, Working(h)', consumer'[h].at \in {"filter", "write"}
        PROVE  \A u \in consumer'[h].claimed : told'[u][ChapterOf(h)'] = 0
    BY <1>4, <1>6, <1>10, <2>3 DEF ClaimInv, ClaimsUntold
  <2> QED
    BY <2>2, <2>3 DEF ClaimsUntold
<1>14. ToldWereClaimed' /\ ToldOnce'
  BY <1>7, <1>10 DEF ClaimInv, ToldWereClaimed, ToldOnce, TypeOK
<1> QED
  BY <1>11, <1>12, <1>13, <1>14 DEF ClaimInv

\* The filters choose the recipients among the claimed readers.
LEMMA FilterClaims ==
    ASSUME TypeOK, TypeOK', ClaimInv, NEW k \in Consumer, Filter(k)
    PROVE  ClaimInv'
<1> DEFINE f == consumer[k]
           to == recipients(f)
<1>1. Working(k) /\ f \in FanOut /\ f.at = "filter" /\ ChapterOf(k) \in Chapter
  BY StageAtWork DEF Filter, TypeOK, Fans, Stages, Working, At, ChapterOf
<1>2. to \subseteq f.claimed
  BY DEF recipients
<1>3. consumer'[k] = [f EXCEPT !.at = IF f.inApp /\ to # {} THEN "write" ELSE "send",
                               !.allows = {}, !.to = IF f.inApp THEN to ELSE {}]
      /\ \A h \in Consumer \ {k} : consumer'[h] = consumer[h]
  BY MoveOne DEF Filter
<1>4. /\ consumer'[k].at \in {"write", "send"} /\ consumer'[k].claimed = f.claimed
      /\ consumer'[k].to \subseteq f.claimed /\ (consumer'[k].at = "send" => consumer'[k].to = {})
      /\ ChapterOf(k)' = ChapterOf(k)
  BY <1>1, <1>2, <1>3 DEF FanOut, ChapterOf
<1>5. \A h \in Consumer \ {k} : (Working(h)' <=> Working(h)) /\ ChapterOf(h)' = ChapterOf(h)
  BY <1>3 DEF Working, At, ChapterOf
<1>6. UNCHANGED <<told, since, dedup>>
  BY DEF Filter
<1>7. \A h \in Consumer : consumer'[h].claimed = consumer[h].claimed
  BY <1>3, <1>4
<1>8. \A h \in Consumer : (Working(h)' <=> Working(h)) /\ ChapterOf(h)' = ChapterOf(h)
  BY <1>1, <1>4, <1>5 DEF Working, At
<1>9. ClaimsRecorded'
  <2>1. ASSUME NEW h \in Consumer, h # k, Working(h) PROVE consumer'[h] = consumer[h]
    BY <1>3, <2>1
  <2> HIDE DEF f, to
  <2> QED
    BY <1>7, <1>8, <1>4, <1>6, <2>1 DEF ClaimInv, ClaimsRecorded, f
<1>10. ClaimsApart'
  BY <1>7, <1>8 DEF ClaimInv, ClaimsApart
<1>11. ClaimsUntold'
  <2>1. \A h \in Consumer : consumer'[h].at \in {"filter", "write"} => consumer[h].at \in {"filter", "write"}
    BY <1>1, <1>3
  <2> QED
    BY <1>7, <1>8, <1>6, <2>1 DEF ClaimInv, ClaimsUntold
<1>12. ToldWereClaimed' /\ ToldOnce'
  BY <1>6 DEF ClaimInv, ToldWereClaimed, ToldOnce
<1> QED
  BY <1>9, <1>10, <1>11, <1>12 DEF ClaimInv

\* The upsert tells its recipients for the first time, whether or not the replica hears of it.
LEMMA UpsertClaims ==
    ASSUME TypeOK, TypeOK', ClaimInv, NEW k \in Consumer, At(k, "write"),
           Upsert(consumer[k].to, ChapterOf(k)), UNCHANGED dedup,
           NEW f, Move(k, f),
           f = Idle \/ f = [consumer[k] EXCEPT !.at = "send", !.to = {}]
    PROVE  ClaimInv'
<1> DEFINE us == consumer[k].to
           c  == ChapterOf(k)
<1>1. Working(k) /\ consumer[k] \in FanOut /\ consumer[k].at = "write" /\ c \in Chapter
  BY StageAtWork DEF TypeOK, Fans, Stages, Working, At, ChapterOf
<1>2. us \subseteq consumer[k].claimed /\ us \subseteq dedup[c] /\ us \subseteq Reader
      /\ \A u \in us : told[u][c] = 0
  BY <1>1 DEF ClaimInv, ClaimsRecorded, ClaimsUntold, TypeOK
<1>3. \A u \in Reader, d \in Chapter :
         /\ told'[u][d] = IF u \in us /\ d = c THEN 1 ELSE told[u][d]
         /\ d \in since'[u] <=> (d \in since[u] \/ (u \in us /\ d = c))
  BY <1>1, <1>2 DEF Upsert, TypeOK
<1>4. consumer'[k] = f /\ \A h \in Consumer \ {k} : consumer'[h] = consumer[h]
  BY MoveOne
<1>5. Working(k)' => /\ consumer'[k].at = "send" /\ consumer'[k].claimed = consumer[k].claimed
                     /\ consumer'[k].to = {} /\ ChapterOf(k)' = c
  <2>1. CASE f = Idle
    BY <1>4, <2>1 DEF Working, At, Idle
  <2>2. CASE f = [consumer[k] EXCEPT !.at = "send", !.to = {}]
    BY <1>1, <1>4, <2>2 DEF FanOut, ChapterOf
  <2> QED
    BY <2>1, <2>2
<1>6. \A h \in Consumer \ {k} : (Working(h)' <=> Working(h)) /\ ChapterOf(h)' = ChapterOf(h)
  BY <1>4 DEF Working, At, ChapterOf
<1>7. \A h \in Consumer : Working(h) => ChapterOf(h) \in Chapter /\ consumer[h].claimed \subseteq Reader
  BY AtWork DEF TypeOK, Fans, Working, ChapterOf, FanOut
<1> HIDE DEF us, c
<1>8. ClaimsRecorded'
  BY <1>1, <1>4, <1>5, <1>6 DEF ClaimInv, ClaimsRecorded, c
<1>9. ClaimsApart'
  BY <1>1, <1>4, <1>5, <1>6 DEF ClaimInv, ClaimsApart, c
<1>10. ClaimsUntold'
  <2>1. ASSUME NEW h \in Consumer, Working(h)', consumer'[h].at \in {"filter", "write"},
               NEW u \in consumer'[h].claimed
        PROVE  told'[u][ChapterOf(h)'] = 0
    <3>1. h # k
      BY <1>5, <2>1
    <3>2. Working(h) /\ consumer'[h] = consumer[h] /\ ChapterOf(h)' = ChapterOf(h)
      BY <1>4, <1>6, <2>1, <3>1
    <3>3. told[u][ChapterOf(h)] = 0
      BY <2>1, <3>2 DEF ClaimInv, ClaimsUntold
    <3>4. ChapterOf(h) = c => u \notin us
      BY <1>1, <1>2, <2>1, <3>1, <3>2 DEF ClaimInv, ClaimsApart, c
    <3>5. u \in Reader /\ ChapterOf(h) \in Chapter
      BY <1>7, <2>1, <3>2
    <3> QED
      BY <1>3, <3>2, <3>3, <3>4, <3>5
  <2> QED
    BY <2>1 DEF ClaimsUntold
<1>11. ToldWereClaimed'
  <2>1. \A u \in Reader : since'[u] \subseteq Chapter
    BY DEF TypeOK
  <2>2. ASSUME NEW u \in Reader, NEW d \in Chapter, told'[u][d] > 0 PROVE u \in dedup'[d]
    BY <1>2, <1>3, <2>2 DEF ClaimInv, ToldWereClaimed
  <2>3. ASSUME NEW u \in Reader, NEW d \in since'[u] PROVE told'[u][d] > 0
    BY <1>3, <2>1 DEF ClaimInv, ToldWereClaimed
  <2> QED
    BY <2>2, <2>3 DEF ToldWereClaimed
<1>12. ToldOnce'
  BY <1>3 DEF ClaimInv, ToldOnce
<1> QED
  BY <1>8, <1>9, <1>10, <1>11, <1>12 DEF ClaimInv

\* ClaimInv is inductive.
LEMMA ClaimStep ==
    ASSUME TypeOK, TypeOK', ClaimInv, [Next]_vars
    PROVE  ClaimInv'
<1> USE DEF settings, history
<1> DEFINE Quiet == /\ UNCHANGED told
                    /\ \A u \in Reader : since'[u] \subseteq since[u]
                    /\ \A c \in Chapter : dedup[c] \subseteq dedup'[c]
                    /\ \A k \in Consumer : Working(k)' =>
                         \/ consumer'[k] = consumer[k]
                         \/ consumer'[k].claimed = {} /\ consumer'[k].to = {}
<1>0. Quiet => ClaimInv'
  BY ClaimsQuiet
<1>1. ASSUME NEW u \in Reader, ChangeSettings(u) PROVE ClaimInv'
  BY <1>0, <1>1 DEF ChangeSettings
<1>2. ASSUME NEW u \in Reader, MarkNotificationsRead(u) PROVE ClaimInv'
  BY <1>0, <1>2 DEF MarkNotificationsRead, TypeOK
<1>3. ASSUME NEW u \in Reader, NEW w \in Whole, ProgressSet(u, w) PROVE ClaimInv'
  BY <1>0, <1>3 DEF ProgressSet
<1>4. ASSUME SwitchInApp PROVE ClaimInv'
  BY <1>0, <1>4 DEF SwitchInApp
<1>5. ASSUME NEW e \in Event, NEW access \in Access, NEW published \in BOOLEAN,
             Discover(e, access, published)
      PROVE  ClaimInv'
  BY <1>0, <1>5 DEF Discover
<1>6. ASSUME NEW k \in Consumer, NEW e \in Event, Pull(k, e) PROVE ClaimInv'
  <2>1. \A h \in Consumer : \/ consumer'[h] = consumer[h]
                            \/ consumer'[h].claimed = {} /\ consumer'[h].to = {}
    BY <1>6 DEF Pull, Move, TypeOK
  <2> QED
    BY <1>0, <1>6, <2>1 DEF Pull
<1>7. ASSUME NEW k \in Consumer, ReadWatchers(k) PROVE ClaimInv'
  <2>1. consumer[k] \in FanOut /\ Working(k) /\ consumer[k].at = "watchers"
    BY <1>7, StageAtWork DEF ReadWatchers, TypeOK, Fans, Stages, Working, At
  <2>2. consumer[k].claimed = {} /\ consumer[k].to = {}
    BY <2>1 DEF ClaimInv, ClaimsRecorded
  <2>3. consumer'[k].claimed = {} /\ consumer'[k].to = {} /\ \A h \in Consumer \ {k} : consumer'[h] = consumer[h]
    <3> DEFINE S == unread_by(consumer[k].event[2])
               T == {u \in Reader : reader[u].allows}
    <3>1. Move(k, [consumer[k] EXCEPT !.at = "claim", !.unread = S, !.allows = T])
      BY <1>7 DEF ReadWatchers
    <3> HIDE DEF S, T
    <3>2. consumer'[k] = [consumer[k] EXCEPT !.at = "claim", !.unread = S, !.allows = T]
          /\ \A h \in Consumer \ {k} : consumer'[h] = consumer[h]
      BY <3>1, MoveOne
    <3> QED
      BY <2>1, <2>2, <3>2 DEF FanOut
  <2> QED
    BY <1>0, <1>7, <2>3 DEF ReadWatchers
<1>8. ASSUME NEW k \in Consumer, Claim(k) PROVE ClaimInv'
  BY <1>8, ClaimClaims
<1>9. ASSUME NEW k \in Consumer, Filter(k) PROVE ClaimInv'
  BY <1>9, FilterClaims
<1>10. ASSUME NEW k \in Consumer, Write(k) PROVE ClaimInv'
  BY <1>10, UpsertClaims DEF Write, ChapterOf
<1>11. ASSUME NEW k \in Consumer, Send(k) PROVE ClaimInv'
  <2>1. consumer[k] \in FanOut /\ Working(k) /\ consumer[k].at = "send"
    BY <1>11, StageAtWork DEF Send, TypeOK, Fans, Stages, Working, At
  <2>2. consumer[k].to = {}
    BY <2>1 DEF ClaimInv, ClaimsRecorded
  <2>3. consumer'[k].claimed = {} /\ consumer'[k].to = {} /\ \A h \in Consumer \ {k} : consumer'[h] = consumer[h]
    <3>1. consumer'[k] = [consumer[k] EXCEPT !.at = "ack", !.claimed = {}]
          /\ \A h \in Consumer \ {k} : consumer'[h] = consumer[h]
      BY <1>11, MoveOne DEF Send
    <3> QED
      BY <2>1, <2>2, <3>1 DEF FanOut
  <2> QED
    BY <1>0, <1>11, <2>3 DEF Send
<1>12. ASSUME NEW k \in Consumer, Ack(k) PROVE ClaimInv'
  <2>1. ~Working(k)' /\ \A h \in Consumer \ {k} : consumer'[h] = consumer[h]
    BY <1>12, MoveOne DEF Ack, Working, At, Idle
  <2> QED
    BY <1>0, <1>12, <2>1 DEF Ack
<1>13. ASSUME NEW k \in Consumer, StatementFails(k) PROVE ClaimInv'
  <2>1. consumer' = [consumer EXCEPT ![k] = Idle] /\ Move(k, Idle)
    BY <1>13 DEF StatementFails, Move
  <2>2. ~Working(k)' /\ \A h \in Consumer \ {k} : consumer'[h] = consumer[h]
    BY <2>1, MoveOne DEF Working, At, Idle
  <2>3. CASE UNCHANGED <<dedup, open, since, told>>
    BY <1>0, <2>2, <2>3
  <2>4. CASE /\ dedup' = [dedup EXCEPT ![consumer[k].event[2]] = @ \union consumer[k].unread]
             /\ UNCHANGED <<open, since, told>>
    BY <1>0, <2>2, <2>4 DEF TypeOK
  <2>5. CASE At(k, "write") /\ Upsert(consumer[k].to, consumer[k].event[2]) /\ UNCHANGED dedup
    BY <2>1, <2>5, UpsertClaims DEF ChapterOf
  <2> QED
    BY <1>13, <2>3, <2>4, <2>5 DEF StatementFails, At
<1>14. ASSUME NEW k \in Consumer, Crash(k) PROVE ClaimInv'
  <2>1. ~Working(k)' /\ \A h \in Consumer \ {k} : consumer'[h] = consumer[h]
    BY <1>14, MoveOne DEF Crash, Working, At, Idle
  <2> QED
    BY <1>0, <1>14, <2>1 DEF Crash
<1>15. ASSUME NEW e \in Event, Lapse(e) PROVE ClaimInv'
  BY <1>0, <1>15 DEF Lapse
<1>16. CASE UNCHANGED vars
  BY <1>0, <1>16 DEF vars
<1> QED
  BY <1>1, <1>2, <1>3, <1>4, <1>5, <1>6, <1>7, <1>8, <1>9, <1>10, <1>11, <1>12, <1>13, <1>14,
     <1>15, <1>16 DEF Next, FanOutStep

\* The claims hold at the start and stay.
THEOREM ClaimsHold == Spec => []ClaimInv
<1>1. Init => ClaimInv
  <2> SUFFICES ASSUME Init PROVE ClaimInv
    OBVIOUS
  <2>1. \A k \in Consumer : ~Working(k)
    BY DEF Init, Working, At, Idle
  <2> QED
    BY <2>1 DEF Init, ClaimInv, ClaimsRecorded, ClaimsApart, ClaimsUntold, ToldWereClaimed, ToldOnce
<1>2. TypeOK /\ TypeOK' /\ ClaimInv /\ [Next]_vars => ClaimInv'
  BY ClaimStep
<1> QED
  BY <1>1, <1>2, NotifierTypeCorrect, PTL DEF Spec

\* A reader is told of a chapter at most once: of the fan-outs of a chapter, whichever providers
\* announced it and however often it is delivered, fails or crashes, one claims the reader, and
\* what it has claimed it announces at most once.
THEOREM ReadersToldOnce == Spec => []ToldOnce
<1>1. ClaimInv => ToldOnce
  BY DEF ClaimInv
<1> QED
  BY <1>1, ClaimsHold, PTL

-----------------------------------------------------------------------------
(* Notifications.                                                          *)

\* The row a reader has sums up the chapters S.
SumsUp(row, S) ==
    /\ row \in Row
    /\ row.count = Cardinality(S)
    /\ row.first \in S /\ \A c \in S : row.first <= c
    /\ row.last \in S /\ \A c \in S : c <= row.last
    /\ row.latest = row.last

\* RowSumsUp in a form that does not choose a least and a greatest chapter.
RowInv ==
    \A u \in Reader : IF since[u] = {} THEN open[u] = None ELSE SumsUp(open[u], since[u])

\* A row that sums up a set of chapters is the one RowSumsUp asks for.
LEMMA SumIsUnique ==
    ASSUME NEW S \in SUBSET Chapter, NEW row, SumsUp(row, S)
    PROVE  row = [count |-> Cardinality(S), first |-> Min(S), last |-> Max(S), latest |-> Max(S)]
<1>1. S \subseteq Nat
  BY NotifierAssumption
<1>2. Min(S) \in S /\ \A c \in S : Min(S) <= c
  <2>1. \E x \in S : \A y \in S : x <= y
    BY DEF SumsUp
  <2> QED
    BY <2>1, Zenon DEF Min
<1>3. Max(S) \in S /\ \A c \in S : Max(S) >= c
  <2>1. \E x \in S : \A y \in S : x >= y
    BY <1>1 DEF SumsUp
  <2> QED
    BY <2>1, Zenon DEF Max
<1>4. row.first \in S /\ row.last \in S /\ row \in Row
  BY DEF SumsUp
<1>5. row.first = Min(S)
  <2>1. row.first <= Min(S) /\ Min(S) <= row.first
    BY <1>2, <1>4 DEF SumsUp
  <2> QED
    <3>1. row.first \in Nat /\ Min(S) \in Nat
      BY <1>1, <1>2, <1>4
    <3> QED
      BY <2>1, <3>1
<1>6. row.last = Max(S)
  <2>1. Max(S) <= row.last /\ Max(S) >= row.last
    BY <1>3, <1>4 DEF SumsUp
  <2> QED
    <3>1. row.last \in Nat /\ Max(S) \in Nat
      BY <1>1, <1>3, <1>4
    <3> QED
      BY <2>1, <3>1
<1>7. row = [count |-> row.count, first |-> row.first, last |-> row.last, latest |-> row.latest]
  BY <1>4 DEF Row
<1> QED
  BY <1>5, <1>6, <1>7 DEF SumsUp

\* The ON CONFLICT clause adds one chapter to the sum.
LEMMA CoalesceSums ==
    ASSUME NEW S \in SUBSET Chapter, NEW row, NEW c \in Chapter \ S,
           IF S = {} THEN row = None ELSE SumsUp(row, S)
    PROVE  SumsUp(coalesce(row, c), S \union {c})
<1>1. IsFiniteSet(S) /\ Cardinality(S) \in Nat /\ Cardinality(S \union {c}) = Cardinality(S) + 1
  BY NotifierAssumption, FS_Subset, FS_CardinalityType, FS_AddElement
<1>2. S \subseteq Nat /\ c \in Nat
  BY NotifierAssumption
<1>3. CASE S = {}
  <2>1. coalesce(row, c) = [count |-> 1, first |-> c, last |-> c, latest |-> c]
    BY <1>3 DEF coalesce
  <2>2. Cardinality(S \union {c}) = 1
    BY <1>1, <1>3, FS_EmptySet
  <2> QED
    BY <1>2, <1>3, <2>1, <2>2 DEF SumsUp, Row
<1>4. CASE S # {}
  <2>1. SumsUp(row, S) /\ row # None
    BY <1>4, NotifierAssumption DEF SumsUp
  <2>2. row.first \in Chapter /\ row.last \in Chapter
    BY <2>1 DEF SumsUp
  <2>3. coalesce(row, c) = [count  |-> row.count + 1,
                            first  |-> IF row.first <= c THEN row.first ELSE c,
                            last   |-> IF row.last >= c THEN row.last ELSE c,
                            latest |-> IF c >= row.last THEN c ELSE row.last]
    <3>1. Min({row.first, c}) = IF row.first <= c THEN row.first ELSE c
      BY <2>2, OfTwo
    <3>2. Max({row.last, c}) = IF row.last >= c THEN row.last ELSE c
      BY <2>2, OfTwo
    <3>3. row.latest = row.last
      BY <2>1 DEF SumsUp
    <3> QED
      BY <2>1, <3>1, <3>2, <3>3 DEF coalesce
  <2> DEFINE new == coalesce(row, c)
  <2>4. /\ new.count = Cardinality(S) + 1
        /\ new.first = IF row.first <= c THEN row.first ELSE c
        /\ new.last = IF row.last >= c THEN row.last ELSE c
        /\ new.latest = IF c >= row.last THEN c ELSE row.last
    BY <2>1, <2>3 DEF SumsUp
  <2>5. new \in Row
    BY <1>1, <2>1, <2>2, <2>3 DEF SumsUp, Row
  <2>6. /\ row.first \in S /\ row.last \in S
        /\ \A d \in S : row.first <= d /\ d <= row.last
    BY <2>1 DEF SumsUp
  <2>7. row.first \in Nat /\ row.last \in Nat
    BY <1>2, <2>6
  <2> DEFINE first == new.first
             last  == new.last
  <2>8. first \in S \union {c} /\ \A d \in S \union {c} : first <= d
    <3>1. CASE row.first <= c
      <4>1. first = row.first
        BY <2>4, <3>1
      <4> QED
        BY <2>6, <3>1, <4>1
    <3>2. CASE ~(row.first <= c)
      <4>1. first = c
        BY <2>4, <3>2
      <4>2. \A d \in S : c <= d
        BY <1>2, <2>6, <2>7, <3>2
      <4> QED
        BY <1>2, <4>1, <4>2
    <3> QED
      BY <3>1, <3>2
  <2>9. last \in S \union {c} /\ (\A d \in S \union {c} : d <= last) /\ new.latest = last
    <3>1. CASE row.last > c
      <4>1. last = row.last /\ new.latest = row.last
        BY <1>2, <2>4, <2>7, <3>1
      <4>2. c <= row.last
        BY <1>2, <2>7, <3>1
      <4> QED
        BY <2>6, <4>1, <4>2
    <3>2. CASE ~(row.last > c)
      <4>1. last = c /\ new.latest = c
        BY <1>2, <2>4, <2>7, <3>2
      <4>2. \A d \in S : d <= c
        BY <1>2, <2>6, <2>7, <3>2
      <4> QED
        BY <1>2, <4>1, <4>2
    <3> QED
      BY <3>1, <3>2
  <2> QED
    BY <1>1, <2>4, <2>5, <2>8, <2>9 DEF SumsUp
<1> QED
  BY <1>3, <1>4

\* An upsert keeps RowInv: its recipients have not been told, so that the chapter is new to them.
LEMMA UpsertSums ==
    ASSUME TypeOK, ClaimInv, RowInv, NEW k \in Consumer, At(k, "write"),
           Upsert(consumer[k].to, consumer[k].event[2])
    PROVE  RowInv'
<1> DEFINE us == consumer[k].to
           c  == consumer[k].event[2]
<1>1. Working(k) /\ consumer[k] \in FanOut /\ consumer[k].at = "write" /\ c \in Chapter
  BY StageAtWork DEF TypeOK, Fans, Stages, Working, At
<1>2. us \subseteq Reader /\ \A u \in us : told[u][c] = 0
  BY <1>1 DEF ClaimInv, ClaimsRecorded, ClaimsUntold, TypeOK, ChapterOf
<1>3. \A u \in us : c \notin since[u]
  BY <1>2 DEF ClaimInv, ToldWereClaimed
<1>4. \A u \in Reader : since[u] \in SUBSET Chapter
  BY DEF TypeOK
<1>5. ASSUME NEW u \in us
      PROVE  SumsUp(open'[u], since'[u]) /\ since'[u] # {}
  <2>1. open'[u] = coalesce(open[u], c) /\ since'[u] = since[u] \union {c}
    BY <1>2 DEF Upsert
  <2> HIDE DEF c
  <2>2. SumsUp(coalesce(open[u], c), since[u] \union {c})
    BY <1>1, <1>2, <1>3, <1>4, CoalesceSums DEF RowInv
  <2> QED
    BY <2>1, <2>2
<1>6. \A u \in Reader \ us : open'[u] = open[u] /\ since'[u] = since[u]
  BY DEF Upsert
<1> QED
  BY <1>5, <1>6 DEF RowInv

\* RowInv is kept by every step.
LEMMA RowStep ==
    ASSUME TypeOK, ClaimInv, RowInv, [Next]_vars
    PROVE  RowInv'
<1> USE DEF settings, history
<1>1. CASE UNCHANGED <<open, since>>
  BY <1>1 DEF RowInv
<1>2. ASSUME NEW u \in Reader, MarkNotificationsRead(u) PROVE RowInv'
  BY <1>2 DEF RowInv, MarkNotificationsRead, TypeOK
<1>3. ASSUME NEW k \in Consumer, Write(k) PROVE RowInv'
  BY <1>3, UpsertSums DEF Write
<1>4. ASSUME NEW k \in Consumer, StatementFails(k) PROVE RowInv'
  BY <1>1, <1>4, UpsertSums DEF StatementFails, At
<1>5. ASSUME NEW u \in Reader, ChangeSettings(u) \/ \E w \in Whole : ProgressSet(u, w) PROVE RowInv'
  BY <1>1, <1>5 DEF ChangeSettings, ProgressSet
<1>6. ASSUME NEW k \in Consumer,
             (\E e \in Event : Pull(k, e)) \/ ReadWatchers(k) \/ Claim(k) \/ Filter(k) \/ Send(k) \/ Ack(k) \/ Crash(k)
      PROVE  RowInv'
  BY <1>1, <1>6 DEF Pull, ReadWatchers, Claim, Filter, Send, Ack, Crash
<1>7. CASE SwitchInApp \/ (\E e \in Event : Lapse(e))
           \/ \E e \in Event, access \in Access, published \in BOOLEAN : Discover(e, access, published)
  BY <1>1, <1>7 DEF SwitchInApp, Lapse, Discover
<1>8. CASE UNCHANGED vars
  BY <1>1, <1>8 DEF vars
<1> QED
  BY <1>2, <1>3, <1>4, <1>5, <1>6, <1>7, <1>8 DEF Next, FanOutStep

\* The open notification is the sum of what was announced since the last one was read: the upserts of
\* any number of replicas neither lose a chapter nor count one twice, and the first, the last and the
\* linked chapter are the right ones.
THEOREM NotificationsSumUp == Spec => []RowSumsUp
<1>1. Init => RowInv
  BY DEF Init, RowInv
<1>2. TypeOK /\ ClaimInv /\ RowInv /\ [Next]_vars => RowInv'
  BY RowStep
<1>3. TypeOK /\ RowInv => RowSumsUp
  <2> SUFFICES ASSUME TypeOK, RowInv, NEW u \in Reader
               PROVE  open[u] = IF since[u] = {} THEN None
                                ELSE [count |-> Cardinality(since[u]), first |-> Min(since[u]),
                                      last |-> Max(since[u]), latest |-> Max(since[u])]
    BY DEF RowSumsUp
  <2>1. since[u] \in SUBSET Chapter
    BY DEF TypeOK
  <2> QED
    BY <2>1, SumIsUnique DEF RowInv
<1> QED
  BY <1>1, <1>2, <1>3, NotifierTypeCorrect, ClaimsHold, PTL DEF Spec

-----------------------------------------------------------------------------
(* Alerts.                                                                 *)

\* The claimed readers of c whose claim no replica holds any more.
Spent(c) ==
    {u \in dedup[c] : \A k \in Consumer :
        Working(k) /\ ChapterOf(k) = c => u \notin consumer[k].claimed}

\* Every alert of a chapter stands for a claim that has been spent on it.
AlertInv == \A c \in Chapter : sent[c] <= Cardinality(Spent(c))

\* Where the claims of a step's replicas come from: they held them, or nobody was in the table.
ClaimMoves ==
    /\ \A c \in Chapter : dedup[c] \subseteq dedup'[c]
    /\ \A k \in Consumer : Working(k)' =>
         \A u \in consumer'[k].claimed :
            \/ Working(k) /\ ChapterOf(k)' = ChapterOf(k) /\ u \in consumer[k].claimed
            \/ u \notin dedup[ChapterOf(k)']

\* Every step moves the claims that way.
LEMMA StepMovesClaims ==
    ASSUME TypeOK, TypeOK', ClaimInv, [Next]_vars
    PROVE  ClaimMoves
<1> USE DEF settings, history
<1>1. CASE UNCHANGED <<consumer, dedup>>
  BY <1>1 DEF ClaimMoves, Working, At, ChapterOf
<1>2. ASSUME NEW k \in Consumer, NEW f, Move(k, f),
             \A c \in Chapter : dedup[c] \subseteq dedup'[c],
             \/ f = Idle
             \/ f.claimed = {}
             \/ Working(k) /\ f.claimed \subseteq consumer[k].claimed /\ f.event = consumer[k].event
             \/ f.claimed \intersect dedup[f.event[2]] = {}
      PROVE  ClaimMoves
  <2>1. consumer'[k] = f /\ \A h \in Consumer \ {k} : consumer'[h] = consumer[h]
    BY <1>2, MoveOne
  <2>2. \A h \in Consumer \ {k} : (Working(h)' <=> Working(h)) /\ ChapterOf(h)' = ChapterOf(h)
    BY <2>1 DEF Working, At, ChapterOf
  <2>3. ChapterOf(k)' = f.event[2] /\ (Working(k)' => f # Idle)
    BY <2>1 DEF Working, At, ChapterOf, Idle
  <2>4. ASSUME Working(k)', NEW u \in f.claimed
        PROVE  \/ Working(k) /\ ChapterOf(k)' = ChapterOf(k) /\ u \in consumer[k].claimed
               \/ u \notin dedup[ChapterOf(k)']
    BY <1>2, <2>3, <2>4 DEF ChapterOf
  <2> QED
    BY <1>2, <2>1, <2>2, <2>4 DEF ClaimMoves
<1>3. ASSUME NEW k \in Consumer, NEW e \in Event, Pull(k, e) PROVE ClaimMoves
  <2>1. PICK f : f.claimed = {} /\ Move(k, f)
    BY <1>3 DEF Pull
  <2> QED
    BY <1>2, <1>3, <2>1 DEF Pull
<1>4. ASSUME NEW k \in Consumer, ReadWatchers(k) \/ Filter(k) \/ Write(k) \/ Send(k) PROVE ClaimMoves
  <2>1. consumer[k] \in FanOut /\ Working(k)
    BY <1>4, StageAtWork DEF ReadWatchers, Filter, Write, Send, TypeOK, Fans, Stages, Working
  <2>2. UNCHANGED dedup
    BY <1>4 DEF ReadWatchers, Filter, Write, Send
  <2>3. ASSUME NEW f, Move(k, f), f.claimed = {} \/ (f.claimed = consumer[k].claimed /\ f.event = consumer[k].event)
        PROVE  ClaimMoves
    BY <1>2, <2>1, <2>2, <2>3
  <2>4. ASSUME NEW S, NEW T, Move(k, [consumer[k] EXCEPT !.at = "claim", !.unread = S, !.allows = T])
        PROVE  ClaimMoves
    BY <2>1, <2>3, <2>4 DEF FanOut
  <2>5. ASSUME NEW st, NEW S, NEW T, Move(k, [consumer[k] EXCEPT !.at = st, !.allows = S, !.to = T])
        PROVE  ClaimMoves
    BY <2>1, <2>3, <2>5 DEF FanOut
  <2>6. CASE ReadWatchers(k)
    BY <2>4, <2>6 DEF ReadWatchers
  <2>7. CASE Filter(k)
    BY <2>5, <2>7 DEF Filter
  <2>8. CASE Write(k)
    BY <2>1, <2>3, <2>8 DEF Write, FanOut
  <2>9. CASE Send(k)
    BY <2>1, <2>3, <2>9 DEF Send, FanOut
  <2> QED
    BY <1>4, <2>6, <2>7, <2>8, <2>9
<1>5. ASSUME NEW k \in Consumer, Claim(k) PROVE ClaimMoves
  <2> DEFINE f == [consumer[k] EXCEPT !.at = "filter", !.unread = {},
                     !.claimed = dedup_claim_many(consumer[k].unread, consumer[k].event[2])]
  <2>1. consumer[k] \in FanOut /\ consumer[k].event[2] \in Chapter
    BY <1>5, StageAtWork DEF Claim, TypeOK, Fans, Stages
  <2>2. f.claimed \intersect dedup[f.event[2]] = {}
    BY <2>1 DEF FanOut, dedup_claim_many
  <2>3. \A c \in Chapter : dedup[c] \subseteq dedup'[c]
    BY <1>5, <2>1 DEF Claim, TypeOK
  <2>4. Move(k, f)
    BY <1>5 DEF Claim
  <2> HIDE DEF f
  <2> QED
    BY <1>2, <2>2, <2>3, <2>4
<1>6. ASSUME NEW k \in Consumer, Ack(k) \/ Crash(k) PROVE ClaimMoves
  BY <1>2, <1>6 DEF Ack, Crash
<1>7. ASSUME NEW k \in Consumer, StatementFails(k) PROVE ClaimMoves
  <2>1. consumer[k].event[2] \in Chapter
    BY <1>7, FailsAtWork, AtWork DEF TypeOK, Fans
  <2>2. \A c \in Chapter : dedup[c] \subseteq dedup'[c]
    BY <1>7, <2>1 DEF StatementFails, TypeOK
  <2> QED
    BY <1>2, <1>7, <2>2 DEF StatementFails
<1>8. ASSUME NEW u \in Reader,
             ChangeSettings(u) \/ MarkNotificationsRead(u) \/ \E w \in Whole : ProgressSet(u, w)
      PROVE  ClaimMoves
  BY <1>1, <1>8 DEF ChangeSettings, MarkNotificationsRead, ProgressSet
<1>9. CASE SwitchInApp \/ (\E e \in Event : Lapse(e))
           \/ \E e \in Event, access \in Access, published \in BOOLEAN : Discover(e, access, published)
  BY <1>1, <1>9 DEF SwitchInApp, Lapse, Discover
<1>10. CASE UNCHANGED vars
  BY <1>1, <1>10 DEF vars
<1> QED
  BY <1>3, <1>4, <1>5, <1>6, <1>7, <1>8, <1>9, <1>10 DEF Next, FanOutStep

\* Spent claims are finite in number and are never taken back.
LEMMA SpentGrows ==
    ASSUME TypeOK, TypeOK', ClaimMoves, NEW c \in Chapter
    PROVE  /\ IsFiniteSet(Spent(c)) /\ IsFiniteSet(Spent(c)')
           /\ Spent(c) \subseteq Spent(c)'
           /\ Cardinality(Spent(c)) \in Nat /\ Cardinality(Spent(c)') \in Nat
           /\ Cardinality(Spent(c)) <= Cardinality(Spent(c)')
<1>1. Spent(c) \subseteq Reader /\ Spent(c)' \subseteq Reader
  BY DEF Spent, TypeOK
<1>2. IsFiniteSet(Spent(c)) /\ IsFiniteSet(Spent(c)')
  BY <1>1, FS_Subset, NotifierAssumption
<1>3. Spent(c) \subseteq Spent(c)'
  BY DEF Spent, ClaimMoves
<1> QED
  BY <1>2, <1>3, FS_Subset, FS_CardinalityType

\* AlertInv is kept by every step.
LEMMA AlertStep ==
    ASSUME TypeOK, TypeOK', ClaimInv, AlertInv, [Next]_vars
    PROVE  AlertInv'
<1>0. ClaimMoves
  BY StepMovesClaims
<1>1. CASE UNCHANGED sent
  BY <1>0, <1>1, SpentGrows DEF AlertInv, TypeOK
<1>2. ASSUME NEW k \in Consumer, Send(k) PROVE AlertInv'
  <2> DEFINE f == consumer[k]
  <2>0. Working(k) /\ f \in FanOut /\ ChapterOf(k) \in Chapter
    BY <1>2, StageAtWork DEF Send, TypeOK, Fans, Stages, Working, ChapterOf
  <2> PICK c \in Chapter : c = ChapterOf(k)
    BY <2>0
  <2>1. Working(k) /\ f \in FanOut /\ c \in Chapter /\ c = ChapterOf(k)
    BY <2>0
  <2>2. sent' = [sent EXCEPT ![c] = IF Alerts(f) THEN @ + 1 ELSE @]
    BY <1>2, <2>1 DEF Send, ChapterOf
  <2>3. CASE ~Alerts(f)
    BY <1>1, <2>1, <2>2, <2>3 DEF TypeOK
  <2>4. CASE Alerts(f)
    <3>1. PICK u \in f.claimed : TRUE
      BY <2>4 DEF Alerts
    <3>2. u \in dedup[c] /\ u \notin Spent(c)
      BY <2>1, <3>1 DEF ClaimInv, ClaimsRecorded, Spent
    <3>3. u \in Spent(c)'
      <4>1. consumer'[k].claimed = {} /\ \A h \in Consumer \ {k} : consumer'[h] = consumer[h]
        <5>1. consumer'[k] = [f EXCEPT !.at = "ack", !.claimed = {}]
              /\ \A h \in Consumer \ {k} : consumer'[h] = consumer[h]
          BY <1>2, MoveOne DEF Send
        <5> QED
          BY <2>1, <5>1 DEF FanOut
      <4>2. ASSUME NEW h \in Consumer \ {k}, Working(h)', ChapterOf(h)' = c
            PROVE  u \notin consumer'[h].claimed
        BY <2>1, <3>1, <4>1, <4>2 DEF ClaimInv, ClaimsApart, Working, At, ChapterOf
      <4>3. u \in dedup'[c]
        BY <1>2, <3>2 DEF Send
      <4> QED
        BY <4>1, <4>2, <4>3 DEF Spent
    <3>4. Spent(c) \union {u} \subseteq Spent(c)'
      BY <1>0, <2>1, <3>3, SpentGrows
    <3>5. Cardinality(Spent(c)) + 1 <= Cardinality(Spent(c)')
      <4>1. IsFiniteSet(Spent(c)) /\ IsFiniteSet(Spent(c)') /\ Cardinality(Spent(c)) \in Nat
        BY <1>0, <2>1, SpentGrows
      <4>2. Cardinality(Spent(c) \union {u}) = Cardinality(Spent(c)) + 1
        BY <3>2, <4>1, FS_AddElement
      <4>3. Cardinality(Spent(c) \union {u}) <= Cardinality(Spent(c)')
        BY <3>4, <4>1, FS_Subset
      <4> QED
        BY <4>2, <4>3
    <3>6. ASSUME NEW d \in Chapter PROVE sent'[d] <= Cardinality(Spent(d)')
      <4>1. CASE d = c
        BY <1>0, <2>1, <2>2, <2>4, <3>5, <4>1, SpentGrows DEF AlertInv, TypeOK
      <4>2. CASE d # c
        BY <1>0, <2>2, <4>2, SpentGrows DEF AlertInv, TypeOK
      <4> QED
        BY <4>1, <4>2
    <3> QED
      BY <3>6 DEF AlertInv
  <2> QED
    BY <2>3, <2>4
<1>3. (\E k \in Consumer : Send(k)) \/ UNCHANGED sent
  BY DEF Next, FanOutStep, vars, ChangeSettings, MarkNotificationsRead, ProgressSet, SwitchInApp,
         Discover, Pull, ReadWatchers, Claim, Filter, Write, Ack, StatementFails, Crash, Lapse
<1> QED
  BY <1>1, <1>2, <1>3

\* The external channels hear of a chapter at most once for every reader claimed for it, so that
\* rescans, redeliveries and the events of other providers alert nobody again.
THEOREM AlertsStandForClaims == Spec => []RescansNeverRealert
<1>1. Init => AlertInv
  <2> SUFFICES ASSUME Init, NEW c \in Chapter PROVE sent[c] <= Cardinality(Spent(c))
    BY DEF AlertInv
  <2>1. Spent(c) = {} /\ sent[c] = 0
    BY DEF Init, Spent
  <2> QED
    BY <2>1, FS_EmptySet
<1>2. TypeOK /\ TypeOK' /\ ClaimInv /\ AlertInv /\ [Next]_vars => AlertInv'
  BY AlertStep
<1>3. TypeOK /\ AlertInv => RescansNeverRealert
  <2> SUFFICES ASSUME TypeOK, AlertInv, NEW c \in Chapter PROVE sent[c] <= Cardinality(dedup[c])
    BY DEF RescansNeverRealert
  <2>1. IsFiniteSet(dedup[c])
    BY FS_Subset, NotifierAssumption DEF TypeOK
  <2>2. Spent(c) \subseteq dedup[c]
    BY DEF Spent
  <2>3. Cardinality(Spent(c)) \in Nat /\ Cardinality(dedup[c]) \in Nat /\ Cardinality(Spent(c)) <= Cardinality(dedup[c])
    BY <2>1, <2>2, FS_Subset, FS_CardinalityType
  <2> QED
    BY <2>3 DEF AlertInv, TypeOK
<1> QED
  BY <1>1, <1>2, <1>3, NotifierTypeCorrect, ClaimsHold, PTL DEF Spec

-----------------------------------------------------------------------------
(* Losses.                                                                 *)

\* Replica k is going to announce c to u, or to leave u out on purpose.
WillTell(k, u, c) ==
    /\ Working(k) /\ ChapterOf(k) = c
    /\ \/ At(k, "filter") /\ u \in consumer[k].claimed
       \/ At(k, "write") /\ u \in consumer[k].to

Accounted(u, c) == told[u][c] > 0 \/ u \in muted[c] \/ \E k \in Consumer : WillTell(k, u, c)

\* While nothing has failed every reader in the table is accounted for.
LossInv == faults = 0 => \A c \in Chapter : \A u \in dedup[c] : Accounted(u, c)

\* A reader stays accounted for by a replica that does not move.
LEMMA StillTold ==
    ASSUME NEW k \in Consumer, NEW u, NEW c, WillTell(k, u, c), consumer'[k] = consumer[k]
    PROVE  WillTell(k, u, c)'
  BY DEF WillTell, Working, At, ChapterOf

\* LossInv is kept by a step in which only a replica with nobody to tell moves.
LEMMA LossQuiet ==
    ASSUME LossInv, faults = 0, UNCHANGED <<dedup, told, muted>>,
           \A k \in Consumer : consumer'[k] = consumer[k] \/ (~At(k, "filter") /\ ~At(k, "write"))
    PROVE  LossInv'
<1> SUFFICES ASSUME NEW c \in Chapter, NEW u \in dedup[c] PROVE Accounted(u, c)'
  BY DEF LossInv
<1>1. Accounted(u, c)
  BY DEF LossInv
<1>2. ASSUME NEW k \in Consumer, WillTell(k, u, c) PROVE WillTell(k, u, c)'
  BY <1>2, StillTold DEF WillTell
<1> QED
  BY <1>1, <1>2 DEF Accounted

\* The claim hands every reader it enters to its own replica.
LEMMA ClaimLosesNobody ==
    ASSUME TypeOK, LossInv, faults = 0, NEW k \in Consumer, Claim(k)
    PROVE  LossInv'
<1> DEFINE f == consumer[k]
<1>1. Working(k) /\ f \in FanOut /\ f.at = "claim" /\ ChapterOf(k) \in Chapter
  BY StageAtWork DEF Claim, TypeOK, Fans, Stages, Working, At, ChapterOf
<1>2. consumer'[k] = [f EXCEPT !.at = "filter", !.unread = {}, !.claimed = f.unread \ dedup[ChapterOf(k)]]
      /\ \A h \in Consumer \ {k} : consumer'[h] = consumer[h]
  BY MoveOne DEF Claim, dedup_claim_many, ChapterOf
<1>3. consumer'[k].at = "filter" /\ consumer'[k].claimed = f.unread \ dedup[ChapterOf(k)]
      /\ ChapterOf(k)' = ChapterOf(k)
  BY <1>1, <1>2 DEF FanOut, ChapterOf
<1>4. dedup' = [dedup EXCEPT ![ChapterOf(k)] = @ \union f.unread] /\ UNCHANGED <<told, muted>>
  BY DEF Claim, ChapterOf, history
<1> SUFFICES ASSUME NEW c \in Chapter, NEW u \in dedup'[c] PROVE Accounted(u, c)'
  BY DEF LossInv
<1>5. CASE u \in dedup[c]
  <2>1. Accounted(u, c)
    BY <1>5 DEF LossInv
  <2>2. ASSUME NEW h \in Consumer, WillTell(h, u, c) PROVE WillTell(h, u, c)'
    <3>1. h # k
      BY <1>1, <2>2 DEF WillTell, At
    <3> QED
      BY <1>2, <2>2, <3>1, StillTold
  <2> QED
    BY <1>4, <2>1, <2>2 DEF Accounted
<1>6. CASE u \notin dedup[c]
  <2>1. c = ChapterOf(k) /\ u \in f.unread
    BY <1>1, <1>4, <1>6 DEF TypeOK
  <2>2. WillTell(k, u, c)'
    BY <1>3, <1>6, <2>1 DEF WillTell, Working, At
  <2> QED
    BY <2>2 DEF Accounted
<1> QED
  BY <1>5, <1>6

\* Whom the filters leave out they leave out on purpose, and the others are written to.
LEMMA FilterLosesNobody ==
    ASSUME TypeOK, LossInv, faults = 0, NEW k \in Consumer, Filter(k)
    PROVE  LossInv'
<1> DEFINE f == consumer[k]
           to == recipients(f)
           st == IF f.inApp /\ to # {} THEN "write" ELSE "send"
           us == IF f.inApp THEN to ELSE {}
<1>1. Working(k) /\ f \in FanOut /\ f.at = "filter" /\ ChapterOf(k) \in Chapter
  BY StageAtWork DEF Filter, TypeOK, Fans, Stages, Working, At, ChapterOf
<1>2. consumer'[k] = [f EXCEPT !.at = st, !.allows = {}, !.to = us]
      /\ \A h \in Consumer \ {k} : consumer'[h] = consumer[h]
  BY MoveOne DEF Filter
<1>3. /\ muted' = [muted EXCEPT ![ChapterOf(k)] =
                      @ \union (IF f.inApp THEN f.claimed \ to ELSE f.claimed)]
      /\ UNCHANGED <<told, dedup>>
  BY DEF Filter, ChapterOf
<1> HIDE DEF to
<1>4. consumer'[k].at = st /\ consumer'[k].to = us /\ ChapterOf(k)' = ChapterOf(k)
  BY <1>1, <1>2 DEF FanOut, ChapterOf
<1>5. \A c \in Chapter : muted[c] \subseteq muted'[c]
  BY <1>1, <1>3 DEF TypeOK
<1> SUFFICES ASSUME NEW c \in Chapter, NEW u \in dedup[c] PROVE Accounted(u, c)'
  BY <1>3 DEF LossInv
<1>6. Accounted(u, c)
  BY DEF LossInv
<1>7. CASE WillTell(k, u, c)
  <2>1. u \in f.claimed /\ c = ChapterOf(k)
    BY <1>1, <1>7 DEF WillTell, At
  <2>2. CASE u \in us
    <3>1. st = "write"
      BY <2>2
    <3>2. WillTell(k, u, c)'
      BY <1>4, <2>1, <2>2, <3>1 DEF WillTell, Working, At
    <3> QED
      BY <3>2 DEF Accounted
  <2>3. CASE u \notin us
    <3>1. u \in muted'[c]
      BY <1>1, <1>3, <2>1, <2>3 DEF TypeOK
    <3> QED
      BY <3>1 DEF Accounted
  <2> QED
    BY <2>2, <2>3
<1>8. ASSUME NEW h \in Consumer \ {k}, WillTell(h, u, c) PROVE WillTell(h, u, c)'
  BY <1>2, <1>8, StillTold
<1> QED
  BY <1>3, <1>5, <1>6, <1>7, <1>8 DEF Accounted

\* The upsert tells everybody it is to tell.
LEMMA WriteLosesNobody ==
    ASSUME TypeOK, LossInv, faults = 0, NEW k \in Consumer, Write(k)
    PROVE  LossInv'
<1>1. Working(k) /\ consumer[k] \in FanOut /\ consumer[k].at = "write" /\ ChapterOf(k) \in Chapter
  BY StageAtWork DEF Write, TypeOK, Fans, Stages, Working, At, ChapterOf
<1>2. \A h \in Consumer \ {k} : consumer'[h] = consumer[h]
  BY MoveOne DEF Write
<1>3. UNCHANGED <<dedup, muted>>
  BY DEF Write
<1>4. \A u \in Reader, c \in Chapter :
         /\ told[u][c] > 0 => told'[u][c] > 0
         /\ u \in consumer[k].to /\ c = ChapterOf(k) => told'[u][c] > 0
  BY DEF Write, Upsert, ChapterOf, TypeOK
<1> SUFFICES ASSUME NEW c \in Chapter, NEW u \in dedup[c] PROVE Accounted(u, c)'
  BY <1>3 DEF LossInv
<1>5. Accounted(u, c) /\ u \in Reader
  BY DEF LossInv, TypeOK
<1>6. CASE WillTell(k, u, c)
  BY <1>1, <1>4, <1>5, <1>6 DEF WillTell, At, Accounted
<1>7. ASSUME NEW h \in Consumer \ {k}, WillTell(h, u, c) PROVE WillTell(h, u, c)'
  BY <1>2, <1>7, StillTold
<1> QED
  BY <1>3, <1>4, <1>5, <1>6, <1>7 DEF Accounted

\* LossInv is kept by every step.
LEMMA LossStep ==
    ASSUME TypeOK, TypeOK', LossInv, [Next]_vars
    PROVE  LossInv'
<1> USE DEF settings, history
<1> SUFFICES ASSUME faults' = 0 PROVE LossInv'
  BY DEF LossInv
<1>0. faults \in Nat /\ (faults' = faults + 1 => FALSE)
  BY NotifierAssumption DEF TypeOK
<1>1. CASE UNCHANGED <<consumer, dedup, told, muted, faults>>
  BY <1>1, LossQuiet
<1>2. ASSUME NEW k \in Consumer, Claim(k) \/ Filter(k) \/ Write(k) PROVE LossInv'
  <2>1. faults = 0
    BY <1>2 DEF Claim, Filter, Write
  <2> QED
    BY <1>2, <2>1, ClaimLosesNobody, FilterLosesNobody, WriteLosesNobody
<1>3. ASSUME NEW k \in Consumer,
             (\E e \in Event : Pull(k, e)) \/ ReadWatchers(k) \/ Send(k) \/ Ack(k)
      PROVE  LossInv'
  <2>1. ~At(k, "filter") /\ ~At(k, "write") /\ UNCHANGED <<dedup, told, muted, faults>>
    BY <1>3 DEF Pull, ReadWatchers, Send, Ack, At
  <2>2. \E f : Move(k, f)
    BY <1>3 DEF Pull, ReadWatchers, Send, Ack
  <2>3. \A h \in Consumer \ {k} : consumer'[h] = consumer[h]
    BY <2>2, MoveOne
  <2> QED
    BY <2>1, <2>3, LossQuiet
<1>4. ASSUME NEW k \in Consumer, StatementFails(k) \/ Crash(k) PROVE FALSE
  BY <1>0, <1>4 DEF StatementFails, Crash, Fault
<1>5. ASSUME NEW u \in Reader,
             ChangeSettings(u) \/ MarkNotificationsRead(u) \/ \E w \in Whole : ProgressSet(u, w)
      PROVE  LossInv'
  BY <1>1, <1>5 DEF ChangeSettings, MarkNotificationsRead, ProgressSet
<1>6. ASSUME NEW e \in Event, Lapse(e) PROVE LossInv'
  BY <1>0, <1>1, <1>6 DEF Lapse, Fault
<1>7. ASSUME NEW e \in Event, NEW access \in Access, NEW published \in BOOLEAN,
             Discover(e, access, published)
      PROVE  LossInv'
  BY <1>0, <1>1, <1>7 DEF Discover
<1>8. CASE SwitchInApp
  BY <1>1, <1>8 DEF SwitchInApp
<1>9. CASE UNCHANGED vars
  BY <1>1, <1>9 DEF vars
<1> QED
  BY <1>2, <1>3, <1>4, <1>5, <1>6, <1>7, <1>8, <1>9 DEF Next, FanOutStep

\* While no call fails no announcement is lost, however the fan-outs of the same and of other
\* chapters interleave with each other and with what readers and operators change.
THEOREM NoLossWithoutFault == Spec => []LossNeedsFault
<1>1. Init => LossInv
  BY DEF Init, LossInv
<1>2. TypeOK /\ TypeOK' /\ LossInv /\ [Next]_vars => LossInv'
  BY LossStep
<1>3. TypeOK /\ ClaimInv /\ LossInv => LossNeedsFault
  <2> SUFFICES ASSUME TypeOK, ClaimInv, LossInv, faults = 0, NEW c \in Chapter, NEW u \in Lost(c)
               PROVE  FALSE
    BY DEF LossNeedsFault
  <2>1. u \in dedup[c] /\ told[u][c] = 0 /\ u \notin muted[c]
    BY DEF Lost
  <2>2. PICK k \in Consumer : WillTell(k, u, c)
    BY <2>1 DEF LossInv, Accounted, TypeOK
  <2>3. u \in consumer[k].claimed
    BY <2>2 DEF WillTell, ClaimInv, ClaimsRecorded
  <2> QED
    BY <2>2, <2>3 DEF Lost, WillTell, Working, ChapterOf
<1> QED
  BY <1>1, <1>2, <1>3, NotifierTypeCorrect, ClaimsHold, PTL DEF Spec

-----------------------------------------------------------------------------
(* Deliveries.                                                             *)

\* A message has been delivered once more than things have failed, at most, and no more often
\* than that when it waits to be delivered again.
DeliveryInv ==
    /\ \A e \in Event :
         /\ msg[e].n <= faults + 1
         /\ msg[e].state = "queued" \/ (msg[e].state = "pending" /\ Holders(e) = {}) => msg[e].n <= faults
    /\ \A k \in Consumer : Working(k) => consumer[k].n <= faults + 1

\* A step on which something fails and no delivery is counted keeps DeliveryInv.
LEMMA FaultCounts ==
    ASSUME TypeOK, TypeOK', DeliveryInv, Fault,
           \A e \in Event : msg'[e].n \in {msg[e].n, 0},
           \A k \in Consumer : Working(k)' => consumer'[k] = consumer[k]
    PROVE  DeliveryInv'
<1>1. faults \in Nat /\ faults' = faults + 1
  BY NotifierAssumption DEF TypeOK, Fault
<1>2. \A e \in Event : msg[e].n \in Nat /\ msg'[e].n <= faults'
  <2>1. \A e \in Event : msg[e].n \in Nat
    BY DEF TypeOK, Message
  <2> QED
    BY <1>1, <2>1 DEF DeliveryInv
<1>3. \A e \in Event : msg'[e].n \in Nat
  BY <1>2
<1>4. \A k \in Consumer : Working(k)' => consumer'[k].n \in Nat /\ consumer'[k].n <= faults' + 1
  <2> SUFFICES ASSUME NEW k \in Consumer, Working(k)'
               PROVE  consumer'[k].n \in Nat /\ consumer'[k].n <= faults' + 1
    OBVIOUS
  <2>1. consumer'[k] = consumer[k] /\ Working(k)
    BY DEF Working, At
  <2>2. consumer[k].n \in Nat
    BY <2>1, AtWork DEF TypeOK, Fans, Working, FanOut
  <2> QED
    BY <1>1, <2>1, <2>2 DEF DeliveryInv
<1> QED
  BY <1>1, <1>2, <1>3, <1>4 DEF DeliveryInv

\* A step that leaves messages and faults alone and moves a replica within its fan-out keeps it.
LEMMA DeliveryQuiet ==
    ASSUME DeliveryInv, UNCHANGED <<msg, faults>>,
           \A k \in Consumer :
              \/ consumer'[k] = consumer[k]
              \/ Working(k) /\ Working(k)' /\ consumer'[k].event = consumer[k].event /\ consumer'[k].n = consumer[k].n
    PROVE  DeliveryInv'
<1>1. \A k \in Consumer : Working(k)' <=> Working(k)
  BY DEF Working, At
<1>2. \A e \in Event : Holders(e)' = Holders(e)
  BY <1>1 DEF Holders, Working
<1> QED
  BY <1>1, <1>2 DEF DeliveryInv

\* What becomes of the counts when a message is settled.
LEMMA SettledCounts ==
    ASSUME TypeOK, NEW e \in Event, NEW n \in Nat, NEW retry \in BOOLEAN, msg' = Settled(e, n, retry)
    PROVE  /\ \A d \in Event \ {e} : msg'[d] = msg[d]
           /\ msg'[e].state = IF retry /\ n < MaxDeliveries /\ msg[e].state # "gone" THEN "queued" ELSE "gone"
           /\ msg'[e].n = IF msg'[e].state = "queued" THEN msg[e].n ELSE 0
<1>1. msg \in [Event -> Message] /\ msg[e] \in Message
  BY DEF TypeOK
<1>2. CASE retry /\ n < MaxDeliveries /\ msg[e].state # "gone"
  BY <1>1, <1>2 DEF Settled, Message
<1>3. CASE ~(retry /\ n < MaxDeliveries /\ msg[e].state # "gone")
  BY <1>1, <1>3 DEF Settled, Message
<1> QED
  BY <1>2, <1>3

\* DeliveryInv is kept by every step.
LEMMA DeliveryStep ==
    ASSUME TypeOK, TypeOK', DeliveryInv, [Next]_vars
    PROVE  DeliveryInv'
<1> USE DEF settings, history
<1>0. faults \in Nat /\ (\A e \in Event : msg[e].n \in Nat) /\ (\A k \in Consumer : Working(k) => consumer[k].n \in Nat)
  <2>1. \A e \in Event : msg[e].n \in Nat
    BY DEF TypeOK, Message
  <2>2. \A k \in Consumer : Working(k) => consumer[k].n \in Nat
    BY AtWork DEF TypeOK, Fans, Working, FanOut
  <2> QED
    BY <2>1, <2>2, NotifierAssumption DEF TypeOK
<1>1. CASE UNCHANGED <<msg, consumer, faults>>
  BY <1>1, DeliveryQuiet
<1>2. ASSUME NEW e \in Event, NEW access \in Access, NEW published \in BOOLEAN,
             Discover(e, access, published)
      PROVE  DeliveryInv'
  <2>1. /\ msg'[e].n = 0 /\ \A d \in Event \ {e} : msg'[d] = msg[d]
    BY <1>2 DEF Discover, TypeOK
  <2>2. (faults' = faults \/ faults' = faults + 1) /\ faults' \in Nat
    BY <1>0, <1>2 DEF Discover
  <2>3. \A k \in Consumer : consumer'[k] = consumer[k] /\ (Working(k)' <=> Working(k))
    BY <1>2 DEF Discover, Working, At
  <2>4. \A d \in Event : Holders(d)' = Holders(d)
    BY <2>3 DEF Holders, At
  <2> QED
    BY <1>0, <2>1, <2>2, <2>3, <2>4 DEF DeliveryInv
<1>3. ASSUME NEW k \in Consumer, NEW e \in Event, Pull(k, e) PROVE DeliveryInv'
  <2> DEFINE n == Min({msg[e].n + 1, MaxDeliveries})
  <2>1. n \in Nat /\ n <= msg[e].n + 1
    BY PulledCount, NotifierAssumption DEF TypeOK
  <2>2. msg[e].n <= faults
    BY <1>3 DEF Pull, DeliveryInv
  <2>3. /\ msg'[e].n = n /\ msg'[e].state = "pending" /\ \A d \in Event \ {e} : msg'[d] = msg[d]
    BY <1>3 DEF Pull, TypeOK, Message
  <2>4. /\ consumer'[k].n = n /\ consumer'[k].event = e /\ consumer'[k].at = "watchers"
        /\ \A h \in Consumer \ {k} : consumer'[h] = consumer[h]
    BY <1>3 DEF Pull, Move, TypeOK
  <2> HIDE DEF n
  <2>5. k \in Holders(e)' /\ \A d \in Event \ {e} : Holders(d)' = Holders(d)
    BY <1>3, <2>4 DEF Holders, At, Pull
  <2>6. UNCHANGED faults /\ n <= faults + 1
    BY <1>0, <1>3, <2>1, <2>2 DEF Pull
  <2>7. \A h \in Consumer \ {k} : Working(h)' <=> Working(h)
    BY <2>4 DEF Working, At
  <2>8. \A d \in Event : /\ msg'[d].n <= faults' + 1
                         /\ msg'[d].state = "queued" \/ (msg'[d].state = "pending" /\ Holders(d)' = {}) => msg'[d].n <= faults'
    BY <2>3, <2>5, <2>6 DEF DeliveryInv
  <2>9. \A h \in Consumer : Working(h)' => consumer'[h].n <= faults' + 1
    BY <2>4, <2>6, <2>7 DEF DeliveryInv
  <2> QED
    BY <2>8, <2>9 DEF DeliveryInv
<1>4. ASSUME NEW k \in Consumer, ReadWatchers(k) \/ Claim(k) \/ Filter(k) \/ Write(k) \/ Send(k) PROVE DeliveryInv'
  <2>1. consumer[k] \in FanOut /\ Working(k)
    BY <1>4, StageAtWork DEF ReadWatchers, Claim, Filter, Write, Send, TypeOK, Fans, Stages, Working
  <2>2. UNCHANGED <<msg, faults>>
    BY <1>4 DEF ReadWatchers, Claim, Filter, Write, Send
  <2>3. ASSUME NEW f, Move(k, f), f.at # "idle", f.event = consumer[k].event, f.n = consumer[k].n
        PROVE  DeliveryInv'
    BY <2>1, <2>2, <2>3, MoveOne, DeliveryQuiet DEF Working, At
  <2>4. ASSUME NEW S, NEW T, Move(k, [consumer[k] EXCEPT !.at = "claim", !.unread = S, !.allows = T])
        PROVE  DeliveryInv'
    BY <2>1, <2>3, <2>4 DEF FanOut
  <2>5. ASSUME NEW S, NEW T, Move(k, [consumer[k] EXCEPT !.at = "filter", !.unread = S, !.claimed = T])
        PROVE  DeliveryInv'
    BY <2>1, <2>3, <2>5 DEF FanOut
  <2>6. ASSUME NEW st \in {"write", "send"}, NEW S, NEW T, Move(k, [consumer[k] EXCEPT !.at = st, !.allows = S, !.to = T])
        PROVE  DeliveryInv'
    BY <2>1, <2>3, <2>6 DEF FanOut
  <2>7. CASE ReadWatchers(k)
    BY <2>4, <2>7 DEF ReadWatchers
  <2>8. CASE Claim(k)
    BY <2>5, <2>8 DEF Claim
  <2>9. CASE Filter(k)
    BY <2>6, <2>9 DEF Filter
  <2>10. CASE Write(k)
    BY <2>1, <2>3, <2>10 DEF Write, FanOut
  <2>11. CASE Send(k)
    BY <2>1, <2>3, <2>11 DEF Send, FanOut
  <2> QED
    BY <1>4, <2>7, <2>8, <2>9, <2>10, <2>11
<1>5. ASSUME NEW k \in Consumer, Ack(k) PROVE DeliveryInv'
  <2> DEFINE e == consumer[k].event
  <2>1. e \in Event /\ consumer[k].n \in Nat /\ Working(k)
    BY <1>0, <1>5, StageAtWork DEF Ack, TypeOK, Fans, Stages, Working
  <2>2. msg' = Settled(e, consumer[k].n, FALSE) /\ UNCHANGED faults
    BY <1>5 DEF Ack
  <2>3. msg'[e].n = 0 /\ msg'[e].state = "gone" /\ \A d \in Event \ {e} : msg'[d] = msg[d]
    BY <2>1, <2>2, SettledCounts
  <2>4. ~Working(k)' /\ \A h \in Consumer \ {k} : consumer'[h] = consumer[h] /\ (Working(h)' <=> Working(h))
    BY <1>5, MoveOne DEF Ack, Working, At, Idle
  <2>5. \A d \in Event \ {e} : Holders(d)' = Holders(d)
    BY <2>1, <2>4 DEF Holders, Working
  <2> HIDE DEF e
  <2>6. \A d \in Event : /\ msg'[d].n <= faults' + 1
                         /\ msg'[d].state = "queued" \/ (msg'[d].state = "pending" /\ Holders(d)' = {}) => msg'[d].n <= faults'
    <3> SUFFICES ASSUME NEW d \in Event
                 PROVE  /\ msg'[d].n <= faults' + 1
                        /\ msg'[d].state = "queued" \/ (msg'[d].state = "pending" /\ Holders(d)' = {}) => msg'[d].n <= faults'
      OBVIOUS
    <3>1. CASE d = e
      <4>1. msg'[d].n = 0 /\ faults' = faults
        BY <2>2, <2>3, <3>1
      <4> QED
        BY <1>0, <4>1
    <3>2. CASE d # e
      <4>1. msg'[d] = msg[d] /\ Holders(d)' = Holders(d) /\ faults' = faults
        BY <2>2, <2>3, <2>5, <3>2
      <4> QED
        BY <4>1 DEF DeliveryInv
    <3> QED
      BY <3>1, <3>2
  <2>7. \A h \in Consumer : Working(h)' => consumer'[h].n <= faults' + 1
    BY <2>2, <2>4 DEF DeliveryInv
  <2> QED
    BY <2>6, <2>7 DEF DeliveryInv
<1>6. ASSUME NEW k \in Consumer, StatementFails(k) PROVE DeliveryInv'
  <2>1. Working(k) /\ consumer[k].event \in Event /\ consumer[k].n \in Nat
    BY <1>0, <1>6, FailsAtWork, AtWork DEF TypeOK, Fans, Working
  <2>2. msg' = Settled(consumer[k].event, consumer[k].n, TRUE) /\ Fault /\ Move(k, Idle)
    BY <1>6 DEF StatementFails
  <2>3. \A d \in Event : msg'[d].n \in {msg[d].n, 0}
    BY <2>1, <2>2, SettledCounts
  <2>4. \A h \in Consumer : Working(h)' => consumer'[h] = consumer[h]
    BY <2>2, MoveOne DEF Working, At, Idle
  <2> QED
    BY <2>2, <2>3, <2>4, FaultCounts
<1>7. ASSUME NEW k \in Consumer, Crash(k) PROVE DeliveryInv'
  <2>1. \A h \in Consumer : Working(h)' => consumer'[h] = consumer[h]
    BY <1>7, MoveOne DEF Crash, Working, At, Idle
  <2> QED
    BY <1>7, <2>1, FaultCounts DEF Crash
<1>8. ASSUME NEW e \in Event, Lapse(e) PROVE DeliveryInv'
  <2>1. msg'[e].n = msg[e].n /\ \A d \in Event \ {e} : msg'[d] = msg[d]
    <3>1. msg \in [Event -> Message] /\ msg[e] \in Message
      BY DEF TypeOK
    <3>2. msg' = [msg EXCEPT ![e].state = "queued"]
      BY <1>8 DEF Lapse
    <3> QED
      BY <3>1, <3>2 DEF Message
  <2>2. UNCHANGED consumer /\ \A k \in Consumer : Working(k)' <=> Working(k)
    BY <1>8 DEF Lapse, Working, At
  <2>3. CASE Fault
    BY <2>1, <2>2, <2>3, FaultCounts
  <2>4. CASE Holders(e) = {} /\ UNCHANGED faults
    <3>1. msg[e].n <= faults
      BY <1>8, <2>4 DEF Lapse, DeliveryInv
    <3>2. \A d \in Event : Holders(d)' = Holders(d)
      BY <2>2 DEF Holders, At
    <3> QED
      BY <2>1, <2>2, <2>4, <3>1, <3>2 DEF DeliveryInv
  <2> QED
    BY <1>8, <2>3, <2>4 DEF Lapse
<1>9. ASSUME NEW u \in Reader,
             ChangeSettings(u) \/ MarkNotificationsRead(u) \/ \E w \in Whole : ProgressSet(u, w)
      PROVE  DeliveryInv'
  BY <1>1, <1>9 DEF ChangeSettings, MarkNotificationsRead, ProgressSet
<1>10. CASE SwitchInApp \/ UNCHANGED vars
  BY <1>1, <1>10 DEF SwitchInApp, vars
<1> QED
  BY <1>2, <1>3, <1>4, <1>5, <1>6, <1>7, <1>8, <1>9, <1>10 DEF Next, FanOutStep

\* While settings stand still: a replica has read the watchers as they are, has claimed them once it
\* is past the claim, and an event is settled only behind one that has, or after MaxDeliveries faults.
SettledInv ==
    acts = 0 =>
        /\ \A k \in Consumer : Working(k) =>
             /\ At(k, "claim") => consumer[k].unread = unread_by(ChapterOf(k))
             /\ consumer[k].at \in {"filter", "write", "send", "ack"} =>
                    unread_by(ChapterOf(k)) \subseteq dedup[ChapterOf(k)]
        /\ faults < MaxDeliveries =>
             \A e \in Event : msg[e].state = "gone" => unread_by(e[2]) \subseteq dedup[e[2]]

\* A step that settles nothing and moves a replica to a stage whose promise holds keeps SettledInv.
LEMMA SettledQuiet ==
    ASSUME TypeOK, SettledInv, acts = 0, UNCHANGED reader,
           faults \in Nat, faults' \in Nat, faults <= faults',
           \A c \in Chapter : dedup[c] \subseteq dedup'[c],
           \A e \in Event : msg'[e].state = "gone" =>
               msg[e].state = "gone" \/ unread_by(e[2]) \subseteq dedup[e[2]] \/ MaxDeliveries <= faults',
           \A k \in Consumer : Working(k)' =>
               \/ consumer'[k] = consumer[k]
               \/ ~At(k, "claim")' /\ ~(consumer'[k].at \in {"filter", "write", "send", "ack"})
               \/ At(k, "claim")' /\ consumer'[k].unread = unread_by(ChapterOf(k)')
               \/ ~At(k, "claim")' /\ unread_by(ChapterOf(k)') \subseteq dedup'[ChapterOf(k)']
    PROVE  SettledInv'
<1>1. \A c : unread_by(c)' = unread_by(c)
  BY DEF unread_by
<1>2. \A k \in Consumer : Working(k) => ChapterOf(k) \in Chapter
  BY AtWork DEF TypeOK, Fans, Working, ChapterOf
<1>3. ASSUME NEW k \in Consumer, Working(k)'
      PROVE  /\ At(k, "claim")' => consumer'[k].unread = unread_by(ChapterOf(k)')
             /\ consumer'[k].at \in {"filter", "write", "send", "ack"} =>
                    unread_by(ChapterOf(k)') \subseteq dedup'[ChapterOf(k)']
  <2>1. CASE consumer'[k] = consumer[k]
    <3>1. Working(k) /\ ChapterOf(k)' = ChapterOf(k) /\ (At(k, "claim")' <=> At(k, "claim"))
      BY <1>3, <2>1 DEF Working, At, ChapterOf
    <3> QED
      BY <1>2, <2>1, <3>1 DEF SettledInv
  <2>2. CASE ~At(k, "claim")' /\ ~(consumer'[k].at \in {"filter", "write", "send", "ack"})
    BY <2>2
  <2>3. CASE At(k, "claim")' /\ consumer'[k].unread = unread_by(ChapterOf(k)')
    BY <2>3 DEF At
  <2>4. CASE ~At(k, "claim")' /\ unread_by(ChapterOf(k)') \subseteq dedup'[ChapterOf(k)']
    BY <2>4
  <2> QED
    BY <1>3, <2>1, <2>2, <2>3, <2>4
<1>4. MaxDeliveries \in Nat
  BY NotifierAssumption
<1>5. ASSUME faults' < MaxDeliveries, NEW e \in Event, msg'[e].state = "gone"
      PROVE  unread_by(e[2]) \subseteq dedup'[e[2]]
  <2>1. e[2] \in Chapter
    BY EventChapter
  <2>2. faults < MaxDeliveries /\ ~(MaxDeliveries <= faults')
    BY <1>4, <1>5
  <2>3. unread_by(e[2]) \subseteq dedup[e[2]]
    BY <1>5, <2>2 DEF SettledInv
  <2> QED
    BY <2>1, <2>3
<1>6. \A k \in Consumer : unread_by(ChapterOf(k))' = unread_by(ChapterOf(k)')
  BY DEF unread_by
<1> QED
  BY <1>1, <1>3, <1>5, <1>6 DEF SettledInv

\* SettledInv is kept by every step.
LEMMA SettledStep ==
    ASSUME TypeOK, TypeOK', ClaimMoves, DeliveryInv, SettledInv, [Next]_vars
    PROVE  SettledInv'
<1> USE DEF settings, history
<1> SUFFICES ASSUME acts' = 0 PROVE SettledInv'
  BY DEF SettledInv
<1>0. /\ acts \in Nat /\ faults \in Nat /\ faults' \in Nat /\ MaxDeliveries \in Nat
      /\ \A c \in Chapter : dedup[c] \subseteq dedup'[c]
  BY NotifierAssumption DEF TypeOK, ClaimMoves
<1>1. ASSUME NEW u \in Reader,
             ChangeSettings(u) \/ MarkNotificationsRead(u) \/ \E w \in Whole : ProgressSet(u, w)
      PROVE  FALSE
  BY <1>0, <1>1 DEF ChangeSettings, MarkNotificationsRead, ProgressSet, Act
<1>2. CASE SwitchInApp
  BY <1>0, <1>2 DEF SwitchInApp, Act
<1>3. ASSUME NEW e \in Event, NEW access \in Access, NEW published \in BOOLEAN,
             Discover(e, access, published)
      PROVE  SettledInv'
  <2>1. msg'[e].state # "gone" /\ \A d \in Event \ {e} : msg'[d] = msg[d]
    BY <1>3 DEF Discover, TypeOK
  <2>2. UNCHANGED <<reader, consumer>> /\ acts = 0 /\ faults <= faults'
    BY <1>0, <1>3 DEF Discover
  <2> QED
    BY <1>0, <2>1, <2>2, SettledQuiet
<1>4. ASSUME NEW k \in Consumer, NEW e \in Event, Pull(k, e) PROVE SettledInv'
  <2>1. msg'[e].state # "gone" /\ \A d \in Event \ {e} : msg'[d] = msg[d]
    BY <1>4 DEF Pull, TypeOK, Message
  <2>2. consumer'[k].at = "watchers" /\ \A h \in Consumer \ {k} : consumer'[h] = consumer[h]
    BY <1>4 DEF Pull, Move, TypeOK
  <2>3. UNCHANGED <<reader, faults>> /\ acts = 0
    BY <1>4 DEF Pull
  <2>4. ~At(k, "claim")' /\ ~(consumer'[k].at \in {"filter", "write", "send", "ack"})
    BY <2>2 DEF At
  <2> QED
    BY <1>0, <2>1, <2>2, <2>3, <2>4, SettledQuiet
<1>5. ASSUME NEW k \in Consumer, ReadWatchers(k) PROVE SettledInv'
  <2> DEFINE S == unread_by(consumer[k].event[2])
             T == {u \in Reader : reader[u].allows}
  <2>1. consumer[k] \in FanOut
    BY <1>5, StageAtWork DEF ReadWatchers, TypeOK, Fans, Stages
  <2>2. Move(k, [consumer[k] EXCEPT !.at = "claim", !.unread = S, !.allows = T])
    BY <1>5 DEF ReadWatchers
  <2> HIDE DEF S, T
  <2>3. consumer'[k] = [consumer[k] EXCEPT !.at = "claim", !.unread = S, !.allows = T]
        /\ \A h \in Consumer \ {k} : consumer'[h] = consumer[h]
    BY <2>2, MoveOne
  <2>4. consumer'[k].at = "claim" /\ consumer'[k].unread = S /\ consumer'[k].event = consumer[k].event
    BY <2>1, <2>3 DEF FanOut
  <2>5. At(k, "claim")' /\ consumer'[k].unread = unread_by(ChapterOf(k)')
    BY <2>4 DEF At, ChapterOf, S
  <2>6. UNCHANGED <<reader, faults, msg>> /\ acts = 0
    BY <1>5 DEF ReadWatchers
  <2>7. ASSUME NEW h \in Consumer
        PROVE  consumer'[h] = consumer[h] \/ (At(h, "claim")' /\ consumer'[h].unread = unread_by(ChapterOf(h)'))
    BY <2>3, <2>5
  <2> QED
    BY <1>0, <2>6, <2>7, SettledQuiet
<1>6. ASSUME NEW k \in Consumer, Claim(k) PROVE SettledInv'
  <2>1. consumer[k] \in FanOut /\ Working(k) /\ At(k, "claim") /\ ChapterOf(k) \in Chapter
    BY <1>6, StageAtWork DEF Claim, TypeOK, Fans, Stages, Working, ChapterOf
  <2>2. dedup' = [dedup EXCEPT ![ChapterOf(k)] = @ \union consumer[k].unread]
        /\ UNCHANGED <<reader, faults, msg>> /\ acts = 0
    BY <1>6 DEF Claim, ChapterOf
  <2>3. unread_by(ChapterOf(k)) \subseteq dedup'[ChapterOf(k)]
    BY <2>1, <2>2 DEF SettledInv, TypeOK
  <2> DEFINE S == dedup_claim_many(consumer[k].unread, consumer[k].event[2])
  <2>4. consumer'[k] = [consumer[k] EXCEPT !.at = "filter", !.unread = {}, !.claimed = S]
        /\ \A h \in Consumer \ {k} : consumer'[h] = consumer[h]
    BY <1>6, MoveOne DEF Claim
  <2>5. consumer'[k].at = "filter" /\ ChapterOf(k)' = ChapterOf(k)
    BY <2>1, <2>4 DEF FanOut, ChapterOf
  <2>6. ~At(k, "claim")'
    BY <2>5 DEF At
  <2> QED
    BY <1>0, <2>2, <2>3, <2>4, <2>5, <2>6, SettledQuiet
<1>7. ASSUME NEW k \in Consumer, Filter(k) \/ Write(k) \/ Send(k) PROVE SettledInv'
  <2>1. consumer[k] \in FanOut /\ Working(k) /\ consumer[k].at \in {"filter", "write", "send"}
        /\ ChapterOf(k) \in Chapter
    BY <1>7, StageAtWork DEF Filter, Write, Send, TypeOK, Fans, Stages, Working, At, ChapterOf
  <2>2. UNCHANGED <<reader, faults, msg, dedup>> /\ acts = 0
    BY <1>7 DEF Filter, Write, Send
  <2>3. unread_by(ChapterOf(k)) \subseteq dedup'[ChapterOf(k)]
    BY <2>1, <2>2 DEF SettledInv
  <2>4. ASSUME NEW f, Move(k, f), f.at # "claim", f.event = consumer[k].event PROVE SettledInv'
    <3>1. consumer'[k] = f /\ \A h \in Consumer \ {k} : consumer'[h] = consumer[h]
      BY <2>4, MoveOne
    <3>2. ~At(k, "claim")' /\ ChapterOf(k)' = ChapterOf(k)
      BY <2>4, <3>1 DEF At, ChapterOf
    <3> QED
      BY <1>0, <2>2, <2>3, <3>1, <3>2, SettledQuiet
  <2>5. ASSUME NEW st \in {"write", "send"}, NEW S, NEW T, Move(k, [consumer[k] EXCEPT !.at = st, !.allows = S, !.to = T])
        PROVE  SettledInv'
    BY <2>1, <2>4, <2>5 DEF FanOut
  <2>6. CASE Filter(k)
    BY <2>5, <2>6 DEF Filter
  <2>7. CASE Write(k)
    BY <2>1, <2>4, <2>7 DEF Write, FanOut
  <2>8. CASE Send(k)
    BY <2>1, <2>4, <2>8 DEF Send, FanOut
  <2> QED
    BY <1>7, <2>6, <2>7, <2>8
<1>8. ASSUME NEW k \in Consumer, Ack(k) PROVE SettledInv'
  <2>1. consumer[k].event \in Event /\ consumer[k].n \in Nat /\ Working(k) /\ consumer[k].at = "ack"
    BY <1>8, StageAtWork DEF Ack, TypeOK, Fans, Stages, Working, At, FanOut
  <2>2. UNCHANGED <<reader, faults, dedup>> /\ acts = 0
    BY <1>8 DEF Ack
  <2>3. unread_by(consumer[k].event[2]) \subseteq dedup[consumer[k].event[2]]
    BY <2>1, <2>2 DEF SettledInv, ChapterOf
  <2>4. \A d \in Event \ {consumer[k].event} : msg'[d] = msg[d]
    BY <1>8, <2>1, SettledCounts DEF Ack
  <2>5. ~Working(k)' /\ \A h \in Consumer \ {k} : consumer'[h] = consumer[h]
    BY <1>8, MoveOne DEF Ack, Working, At, Idle
  <2> QED
    BY <1>0, <2>2, <2>3, <2>4, <2>5, SettledQuiet
<1>9. ASSUME NEW k \in Consumer, StatementFails(k) PROVE SettledInv'
  <2>1. Working(k) /\ consumer[k].event \in Event /\ consumer[k].n \in Nat /\ consumer[k].n <= faults + 1
    BY <1>9, FailsAtWork, AtWork DEF TypeOK, Fans, Working, FanOut, DeliveryInv
  <2>2. UNCHANGED reader /\ acts = 0 /\ faults' = faults + 1
    BY <1>9 DEF StatementFails, Fault
  <2>3. \A d \in Event : msg'[d].state = "gone" => msg[d].state = "gone" \/ MaxDeliveries <= faults'
    <3>1. msg' = Settled(consumer[k].event, consumer[k].n, TRUE)
      BY <1>9 DEF StatementFails
    <3>2. /\ \A d \in Event \ {consumer[k].event} : msg'[d] = msg[d]
          /\ msg'[consumer[k].event].state = "gone" =>
                msg[consumer[k].event].state = "gone" \/ ~(consumer[k].n < MaxDeliveries)
      BY <2>1, <3>1, SettledCounts
    <3>3. ~(consumer[k].n < MaxDeliveries) => MaxDeliveries <= faults'
      BY <1>0, <2>1, <2>2
    <3> QED
      BY <3>2, <3>3
  <2>4. ~Working(k)' /\ \A h \in Consumer \ {k} : consumer'[h] = consumer[h]
    BY <1>9, MoveOne DEF StatementFails, Working, At, Idle
  <2> QED
    BY <1>0, <2>2, <2>3, <2>4, SettledQuiet
<1>10. ASSUME NEW k \in Consumer, Crash(k) PROVE SettledInv'
  <2>1. ~Working(k)' /\ \A h \in Consumer \ {k} : consumer'[h] = consumer[h]
    BY <1>10, MoveOne DEF Crash, Working, At, Idle
  <2>2. UNCHANGED <<reader, msg>> /\ acts = 0 /\ faults' = faults + 1
    BY <1>10 DEF Crash, Fault
  <2> QED
    BY <1>0, <2>1, <2>2, SettledQuiet
<1>11. ASSUME NEW e \in Event, Lapse(e) PROVE SettledInv'
  <2>1. msg'[e].state # "gone" /\ \A d \in Event \ {e} : msg'[d] = msg[d]
    <3>1. msg \in [Event -> Message] /\ msg[e] \in Message
      BY DEF TypeOK
    <3>2. msg' = [msg EXCEPT ![e].state = "queued"]
      BY <1>11 DEF Lapse
    <3> QED
      BY <3>1, <3>2 DEF Message
  <2>2. UNCHANGED <<reader, consumer>> /\ acts = 0 /\ faults <= faults'
    BY <1>0, <1>11 DEF Lapse, Fault
  <2> QED
    BY <1>0, <2>1, <2>2, SettledQuiet
<1>12. CASE UNCHANGED vars
  BY <1>0, <1>12, SettledQuiet DEF vars
<1> QED
  BY <1>1, <1>2, <1>3, <1>4, <1>5, <1>6, <1>7, <1>8, <1>9, <1>10, <1>11, <1>12 DEF Next, FanOutStep

\* An event is settled only when every watcher with the chapter unread has been claimed for it, unless
\* failures have used up its deliveries: a failed fan-out is handed back, not acked.
THEOREM SettledAreClaimed == Spec => []SettledMeansClaimed
<1>1. Init => DeliveryInv /\ SettledInv
  <2> SUFFICES ASSUME Init PROVE DeliveryInv /\ SettledInv
    OBVIOUS
  <2>1. (\A k \in Consumer : ~Working(k)) /\ (\A e \in Event : msg[e].n = 0 /\ msg[e].state = "absent") /\ faults = 0
    BY DEF Init, Working, At, Idle
  <2> QED
    BY <2>1 DEF DeliveryInv, SettledInv
<1>2. TypeOK /\ TypeOK' /\ ClaimInv /\ DeliveryInv /\ SettledInv /\ [Next]_vars => DeliveryInv' /\ SettledInv'
  BY DeliveryStep, StepMovesClaims, SettledStep
<1>3. SettledInv => SettledMeansClaimed
  BY DEF SettledInv, SettledMeansClaimed
<1> QED
  BY <1>1, <1>2, <1>3, NotifierTypeCorrect, ClaimsHold, PTL DEF Spec
=============================================================================
