------------------------------ MODULE RouterClock ------------------------------
(***************************************************************************)
(* What the parts of a router process share: the requests it serves and    *)
(* the clock they all read (Date.now).                                     *)
(***************************************************************************)
EXTENDS Integers

CONSTANTS
  Requests,    \* the requests of a behaviour
  None,
  MaxTime      \* bound on the clock

ASSUME ClockAssumption == MaxTime \in Nat /\ None \notin Nat

VARIABLE now
=============================================================================
