-------------------------- MODULE CommandLifecycle --------------------------
(***************************************************************************)
(* What the host agent promises to the XML-RPC client about one command:   *)
(* runCmd issues it, at most one answer is taken for it, getCmdResults     *)
(* hands that answer out at most once, and a host that goes down forgets   *)
(* the commands whose answer was not yet collected.  The registry of the   *)
(* host (CommandRegistry) and the whole message exchange                   *)
(* (CommandProtocol, through CommandService) are shown to implement it.    *)
(***************************************************************************)
CONSTANTS CmdIds,       \* the uuids given to commands
          Results       \* the answers a command may have

VARIABLES status,       \* how far each command is, for the client
          answer        \* the answers taken for a command: none, or one

lvars == <<status, answer>>

Statuses == {"unissued", "outstanding", "ready", "collected", "forgotten"}

LInit == /\ status = [id \in CmdIds |-> "unissued"]
         /\ answer = [id \in CmdIds |-> {}]

Issue(id) == /\ status[id] = "unissued"
             /\ status' = [status EXCEPT ![id] = "outstanding"]
             /\ UNCHANGED answer

Complete(id, r) == /\ status[id] = "outstanding"
                   /\ status' = [status EXCEPT ![id] = "ready"]
                   /\ answer' = [answer EXCEPT ![id] = {r}]

Collect(id) == /\ status[id] = "ready"
               /\ status' = [status EXCEPT ![id] = "collected"]
               /\ UNCHANGED answer

\* The host goes down: what was not collected is never answered any more.
Forget == LET lost == {id \in CmdIds : status[id] \in {"outstanding", "ready"}}
          IN  /\ status' = [id \in CmdIds |->
                              IF id \in lost THEN "forgotten" ELSE status[id]]
              /\ answer' = [id \in CmdIds |->
                              IF id \in lost THEN {} ELSE answer[id]]

LNext == \/ \E id \in CmdIds : \/ Issue(id)
                               \/ \E r \in Results : Complete(id, r)
                               \/ Collect(id)
         \/ Forget

LSpec == LInit /\ [][LNext]_lvars
=============================================================================
