---------------------------- MODULE MCMatchMerge ----------------------------
(***************************************************************************)
(* A small instance of MatchMerge: three series and two names.  Two of the *)
(* series have a source; the third has none and the canonical title of one *)
(* that does.                                                              *)
(***************************************************************************)
EXTENDS MatchMerge

CONSTANTS a, b, c, m, n, x, y

\* b and c share their canonical title, and c is without a source.
Canonical == [s \in {a, b, c} |-> IF s = a THEN m ELSE n]
Filed     == [w \in {x, y} |-> IF w = x THEN a ELSE b]
Called    == [w \in {x, y} |-> m]
=============================================================================
