------------------------------ MODULE MCExtension ------------------------------
(***************************************************************************)
(* An instance of the browser extension for TLC.                           *)
(***************************************************************************)
EXTENDS Extension

MCDefaults == [enabled |-> TRUE, action |-> "label", provider |-> "local-model"]
=============================================================================
