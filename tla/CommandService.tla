--------------------------- MODULE CommandService ---------------------------
(***************************************************************************)
(* What host agent, broker and VMs promise together, without any message,  *)
(* connection or dictionary: a command is executed at most once, only      *)
(* after it was issued; it is answered only after its execution is over,   *)
(* by the VM it was issued to; and for the client it goes through the life *)
(* CommandLifecycle describes.  Nothing promises that it is executed or    *)
(* answered at all.                                                        *)
(***************************************************************************)
CONSTANTS CmdIds,       \* commands
          VMs,          \* virtual machines
          Target        \* the VM each command is issued to

VARIABLES status, answer,   \* the client's view (CommandLifecycle)
          execution         \* how far the execution of each command is

svars == <<status, answer, execution>>

Life == INSTANCE CommandLifecycle WITH Results <- VMs

SInit == /\ Life!LInit
         /\ execution = [id \in CmdIds |-> "none"]

Issue(id) == /\ Life!Issue(id)
             /\ UNCHANGED execution

Execute(id) == /\ status[id] # "unissued"
               /\ execution[id] = "none"
               /\ execution' = [execution EXCEPT ![id] = "running"]
               /\ UNCHANGED <<status, answer>>

\* Executions end one by one, or together when a VM goes down.
End(ids) == /\ ids # {}
            /\ \A id \in ids : execution[id] = "running"
            /\ execution' = [id \in CmdIds |-> IF id \in ids THEN "over" ELSE execution[id]]
            /\ UNCHANGED <<status, answer>>

Answer(id) == /\ execution[id] = "over"
              /\ Life!Complete(id, Target[id])
              /\ UNCHANGED execution

Collect(id) == /\ Life!Collect(id)
               /\ UNCHANGED execution

Forget == /\ Life!Forget
          /\ UNCHANGED execution

SNext == \/ \E id \in CmdIds : Issue(id) \/ Execute(id) \/ Answer(id) \/ Collect(id)
         \/ \E ids \in SUBSET CmdIds : End(ids)
         \/ Forget

SSpec == SInit /\ [][SNext]_svars
=============================================================================
