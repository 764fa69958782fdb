------------------------------- MODULE MCStore -------------------------------
(***************************************************************************)
(* Instances of the federation store for TLC.                              *)
(***************************************************************************)
EXTENDS StoreProperties

MCAllStatuses == Statuses \cup {"bogus"}
=============================================================================
