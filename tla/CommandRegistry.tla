-------------------------- MODULE CommandRegistry ---------------------------
(***************************************************************************)
(* The CommandRegistry of the host agent (host/Host.py): three             *)
(* dictionaries keyed by command id.  A request is in _cmdReqsSent until   *)
(* its result arrives, then in _cmdReqsRetired for good; the result waits  *)
(* in _cmdReqsRcvd until the XML-RPC client takes it.  Results come from   *)
(* the network: late, more than once, or for a command an earlier host     *)
(* process sent.                                                           *)
(*                                                                         *)
(* issued and handedOut are history variables: the uuids given out by this *)
(* and earlier host processes, and what getCmdResults has returned.        *)
(***************************************************************************)
CONSTANTS CmdIds,       \* uuid4 values
          Requests,     \* what addCmdRequest keeps of a request
          Results,      \* deserialized results, without their cmd-id
          NoDetails     \* what getCmdDetails finds for an id it does not know

ASSUME NoDetailsAssumption == NoDetails \notin Requests

VARIABLES cmdReqsSent, cmdReqsRetired, cmdReqsRcvd, issued, handedOut

vars == <<cmdReqsSent, cmdReqsRetired, cmdReqsRcvd, issued, handedOut>>

Dicts(values) == UNION {[ids -> values] : ids \in SUBSET CmdIds}
EmptyDict == [id \in {} |-> id]
With(dict, id, value) == [k \in DOMAIN dict \cup {id} |->
                            IF k = id THEN value ELSE dict[k]]
Without(dict, id) == [k \in DOMAIN dict \ {id} |-> dict[k]]

TypeOK == /\ cmdReqsSent \in Dicts(Requests)
          /\ cmdReqsRetired \in Dicts(Requests)
          /\ cmdReqsRcvd \in Dicts(Results)
          /\ issued \subseteq CmdIds
          /\ handedOut \subseteq CmdIds \X Results

Init == /\ cmdReqsSent = EmptyDict
        /\ cmdReqsRetired = EmptyDict
        /\ cmdReqsRcvd = EmptyDict
        /\ issued = {}
        /\ handedOut = {}

\* Host.sendCmdRequest draws a fresh uuid4 and, once the message is written,
\* records the request under it.
AddCmdRequest(id, request) ==
  /\ id \notin issued
  /\ issued' = issued \cup {id}
  /\ cmdReqsSent' = With(cmdReqsSent, id, request)
  /\ UNCHANGED <<cmdReqsRetired, cmdReqsRcvd, handedOut>>

\* What is retired is the result, not its request.
AcceptResult_ResultRetired(id, results) ==
  /\ id \in DOMAIN cmdReqsSent
  /\ cmdReqsRcvd' = With(cmdReqsRcvd, id, results)
  /\ cmdReqsRetired' = With(cmdReqsRetired, id, results)
  /\ cmdReqsSent' = Without(cmdReqsSent, id)
  /\ UNCHANGED <<issued, handedOut>>

AcceptResult(id, results) ==
  /\ id \in DOMAIN cmdReqsSent
  /\ cmdReqsRcvd' = With(cmdReqsRcvd, id, results)
  /\ cmdReqsRetired' = With(cmdReqsRetired, id, cmdReqsSent[id])
  /\ cmdReqsSent' = Without(cmdReqsSent, id)
  /\ UNCHANGED <<issued, handedOut>>

\* The assertion fails before anything is changed; react() logs the exception
\* and goes on.
RejectResult(id) == /\ id \notin DOMAIN cmdReqsSent
                    /\ UNCHANGED vars

\* Without the assertion the result is stored first, and only then does the
\* pop of the unknown id raise KeyError.
ProcessCmdResult_NoAssert(id, results) ==
  \/ AcceptResult(id, results)
  \/ /\ id \notin DOMAIN cmdReqsSent
     /\ cmdReqsRcvd' = With(cmdReqsRcvd, id, results)
     /\ UNCHANGED <<cmdReqsSent, cmdReqsRetired, issued, handedOut>>

\* The request is copied to the retired ones and not taken from those sent.
ProcessCmdResult_GetForPop(id, results) ==
  /\ id \in DOMAIN cmdReqsSent
  /\ cmdReqsRcvd' = With(cmdReqsRcvd, id, results)
  /\ cmdReqsRetired' = With(cmdReqsRetired, id, cmdReqsSent[id])
  /\ UNCHANGED <<cmdReqsSent, issued, handedOut>>

\* The request is dropped from those sent and not kept among the retired.
ProcessCmdResult_NotRetired(id, results) ==
  /\ id \in DOMAIN cmdReqsSent
  /\ cmdReqsRcvd' = With(cmdReqsRcvd, id, results)
  /\ cmdReqsSent' = Without(cmdReqsSent, id)
  /\ UNCHANGED <<cmdReqsRetired, issued, handedOut>>

ProcessCmdResult(id, results) == \/ AcceptResult(id, results)
                                 \/ RejectResult(id)

\* Returns the results and forgets them; an empty string when there are none.
PopCmdResults(id) ==
  /\ handedOut' = handedOut \cup
       {<<i, cmdReqsRcvd[i]>> : i \in {id} \cap DOMAIN cmdReqsRcvd}
  /\ cmdReqsRcvd' = Without(cmdReqsRcvd, id)
  /\ UNCHANGED <<cmdReqsSent, cmdReqsRetired, issued>>

\* A new host process begins with an empty registry.
Restart == /\ cmdReqsSent' = EmptyDict
           /\ cmdReqsRetired' = EmptyDict
           /\ cmdReqsRcvd' = EmptyDict
           /\ UNCHANGED <<issued, handedOut>>

Next == \/ \E id \in CmdIds :
             \/ \E request \in Requests : AddCmdRequest(id, request)
             \/ \E results \in Results : ProcessCmdResult(id, results)
             \/ PopCmdResults(id)
        \/ Restart

Spec == Init /\ [][Next]_vars

-----------------------------------------------------------------------------
CmdDetails(id) == IF id \in DOMAIN cmdReqsSent THEN cmdReqsSent[id]
                  ELSE IF id \in DOMAIN cmdReqsRetired THEN cmdReqsRetired[id]
                  ELSE NoDetails

\* The three dictionaries split the commands of this host process: a command is
\* sent or retired, never both, and a result that waits belongs to a retired
\* command.  processCmdResult moves an id through all three in three statements.
RegistryPartition ==
  /\ DOMAIN cmdReqsSent \cap DOMAIN cmdReqsRetired = {}
  /\ DOMAIN cmdReqsRcvd \subseteq DOMAIN cmdReqsRetired
  /\ DOMAIN cmdReqsSent \cup DOMAIN cmdReqsRetired \subseteq issued

\* Only a restart, which forgets every command at once, takes away or changes
\* the details getCmdDetails finds for a command: moving the request from one
\* dictionary to the other loses nothing and mixes nothing up.
DetailsAreStable ==
  [][ (\E id \in CmdIds : CmdDetails(id) \notin {NoDetails, CmdDetails(id)'})
        => \A id \in CmdIds : CmdDetails(id)' = NoDetails ]_vars

HandedOutIds == {pair[1] : pair \in handedOut}

\* A command whose answer getCmdResults returned is over: no late or duplicated
\* CMD_RESULT makes a second answer ready under the same id, after a restart
\* of the host either.
NeverAnsweredTwice == HandedOutIds \cap (DOMAIN cmdReqsSent \cup DOMAIN cmdReqsRcvd) = {}

\* What makes the three above inductive: a retired command still has its result
\* or has handed it out.
RegistryInv == /\ TypeOK
               /\ RegistryPartition
               /\ NeverAnsweredTwice
               /\ HandedOutIds \subseteq issued
               /\ DOMAIN cmdReqsRetired \subseteq DOMAIN cmdReqsRcvd \cup HandedOutIds

\* The client's view of a command, computed from the dictionaries.
ClientStatus == [id \in CmdIds |->
                   IF id \in DOMAIN cmdReqsRcvd THEN "ready"
                   ELSE IF id \in HandedOutIds THEN "collected"
                   ELSE IF id \in DOMAIN cmdReqsSent THEN "outstanding"
                   ELSE IF id \in issued THEN "forgotten"
                   ELSE "unissued"]

\* The answers a command has had: the one that waits, and the one handed out.
ClientAnswer == [id \in CmdIds |->
                   {r \in Results : \/ id \in DOMAIN cmdReqsRcvd /\ r = cmdReqsRcvd[id]
                                    \/ <<id, r>> \in handedOut}]

Lifecycle == INSTANCE CommandLifecycle WITH status <- ClientStatus,
                                            answer <- ClientAnswer

\* The registry implements the life of a command the client may rely on:
\* issued, answered at most once, the answer collected at most once and equal to
\* the one that was taken first.
ImplementsLifecycle == Lifecycle!LSpec
=============================================================================
