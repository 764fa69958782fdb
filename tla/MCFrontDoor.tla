----------------------------- MODULE MCFrontDoor -----------------------------
(***************************************************************************)
(* Instances of a router's front door for TLC.                             *)
(***************************************************************************)
EXTENDS FrontDoor, TLC

MCRequests == Permutations(Requests)
=============================================================================
