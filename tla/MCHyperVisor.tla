---------------------------- MODULE MCHyperVisor -----------------------------
(***************************************************************************)
(* Three calls of any kind, all to machines of one name.                   *)
(***************************************************************************)
EXTENDS HyperVisor
=============================================================================
