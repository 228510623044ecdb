------------------------- MODULE MCCommandProtocol --------------------------
(***************************************************************************)
(* Small instances of the protocol: one or two VMs and commands.           *)
(***************************************************************************)
EXTENDS CommandProtocol

CONSTANTS v1, v2, c1, c2

TargetBoth == [id \in CmdIds |-> IF id = c1 THEN v1 ELSE v2]
TargetFirst == [id \in CmdIds |-> v1]
=============================================================================
