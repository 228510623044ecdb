------------------------- MODULE MCCommandExecuter --------------------------
(***************************************************************************)
(* Three commands in one virtual machine, whose resources are distinct     *)
(* powers of two: a sum tells which commands it counts.                    *)
(***************************************************************************)
EXTENDS CommandExecuter

CONSTANTS c1, c2, c3

Commands == {c1, c2, c3}
CostOf == [id \in Commands |-> CASE id = c1 -> 1 [] id = c2 -> 2 [] id = c3 -> 4]
=============================================================================
