---------------------------- MODULE MCFairQueue ----------------------------
(***************************************************************************)
(* A small instance of FairQueue: two providers.                           *)
(***************************************************************************)
EXTENDS FairQueue

CONSTANTS p1, p2

Two == <<p1, p2>>
=============================================================================
