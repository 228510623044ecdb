---------------------------- MODULE MCHostService ----------------------------
(***************************************************************************)
(* Two machines with either of two MAC addresses, created and destroyed at *)
(* any time, two commands to either name, two results, and any number of   *)
(* connections and restarts.                                               *)
(***************************************************************************)
EXTENDS HostService

MCRequests == [toVmName : Names, toVmId : Ids]
=============================================================================
