----------------------------- MODULE MCScanRun -----------------------------
(***************************************************************************)
(* Small instances of ScanRun: a catalogue page that fans out one series   *)
(* and chains a second page, and a feed that names one series.             *)
(***************************************************************************)
EXTENDS ScanRun, TLC

CONSTANTS r, a, b

\* Page r: one chunk with series a, then the chained page b, which is empty.
PageBatches == (r :> <<{a}, {b}>>) @@ (a :> <<>>) @@ (b :> <<>>)

\* Feed r: one chunk with series a.
FeedBatches == (r :> <<{a}>>) @@ (a :> <<>>)

\* Feed r names no series.
EmptyBatches == (r :> <<>>)

Symmetry == Permutations(Worker) \union Permutations(Copy)
=============================================================================
