---- MODULE MCSyncMerge ----
(* Small instances of SyncMerge: one or two linked series, two statuses. *)
EXTENDS SyncMerge

CONSTANTS s1, s2

One == <<s1>>
Two == <<s1, s2>>

Settled == [progress |-> 1, status |-> "reading"]

\* Another reader of the series is a chapter ahead; or nobody else syncs it.
Ahead  == {[progress |-> 2, status |-> "reading"]}
Nobody == {}
====
