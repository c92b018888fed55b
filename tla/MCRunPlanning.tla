---- MODULE MCRunPlanning ----
(* A small instance of RunPlanning: two planners. *)
EXTENDS RunPlanning

CONSTANTS p1, p2
====
