------------------------------ MODULE HostService -----------------------------
(***************************************************************************)
(* The host agent as its XML-RPC client and the broker see it              *)
(* (host/Host.py): HostXMLRPCService and Host over the two registries,     *)
(* one transport, and the hypervisor.  A reactor runs one call or one      *)
(* message at a time.  runCmd translates the name, writes CMD_RUN and then *)
(* records the request; what raises on the way reaches the client as a     *)
(* fault.  The registries are lazy: a command or a HELLO makes them.       *)
(*                                                                         *)
(* Two VMs may have one MAC address, and both execute what is sent to it:  *)
(* CMD_RESULT for a command that went out arrives any number of times, and *)
(* after a restart.                                                        *)
(***************************************************************************)
EXTENDS CommandRegistry

CONSTANTS Ids, Names      \* as in VMRegistry

VARIABLES machines, made, idsToNames, namesToIds, vms, heard,   \* as in VMRegistry
          transport,      \* stompProtocol.transport: "none" yet, "up", or "lost"
          wentOut,        \* history: commands written while it was up
          told            \* history: ids runCmd returned, by this process

Party == INSTANCE VMRegistry

registry == vars
party == <<machines, made, idsToNames, namesToIds, vms, heard>>
svars == <<registry, party, transport, wentOut, told>>

\* What addCmdRequest keeps, as far as it is looked at: the name the client gave and the id
\* it led to.
ASSUME RequestsAssumption == [toVmName : Names, toVmId : Ids] \subseteq Requests

STypeOK == /\ TypeOK
           /\ Party!TypeOK
           /\ transport \in {"none", "up", "lost"}
           /\ wentOut \subseteq issued
           /\ told \subseteq issued

SInit == /\ Init
         /\ Party!Init
         /\ transport = "none"
         /\ wentOut = {}
         /\ told = {}

-----------------------------------------------------------------------------
(* The connection with the broker *)

ConnectionMade == /\ transport # "up"
                  /\ transport' = "up"
                  /\ UNCHANGED <<registry, party, wentOut, told>>

\* The protocol keeps the transport of the connection it lost, which drops what is written.
ConnectionLost == /\ transport = "up"
                  /\ transport' = "lost"
                  /\ UNCHANGED <<registry, party, wentOut, told>>

-----------------------------------------------------------------------------
(* Calls of the client *)

\* _fail: the exception is the client's, and nothing else has happened.
Fault == UNCHANGED <<registry, transport, wentOut, told>>

\* transport.write: there is one after the first connection, and it takes no unicode, which
\* a message becomes when cmd, path or fileForStdin is not ASCII.
CanWrite(ascii) == transport # "none" /\ ascii

\* The request is recorded first, and stays recorded when the write raises.
SendCmdRequest_RecordedFirst(id, name, ascii) ==
  IF name \notin DOMAIN namesToIds' THEN Fault
  ELSE /\ AddCmdRequest(id, [toVmName |-> name, toVmId |-> namesToIds'[name]])
       /\ wentOut' = IF transport = "up" /\ ascii THEN wentOut \cup {id} ELSE wentOut
       /\ told' = IF CanWrite(ascii) THEN told \cup {id} ELSE told
       /\ UNCHANGED transport

SendCmdRequest(id, name, ascii) ==
  IF name \in DOMAIN namesToIds' /\ CanWrite(ascii)
  THEN /\ AddCmdRequest(id, [toVmName |-> name, toVmId |-> namesToIds'[name]])
       /\ wentOut' = IF transport = "up" THEN wentOut \cup {id} ELSE wentOut
       /\ told' = told \cup {id}
       /\ UNCHANGED transport
  ELSE Fault

\* xmlrpc_runCmd.  The id is drawn before the write, and is lost with a fault.
RunCmd(id, name, ascii) == /\ Party!GetIdForName(name)
                           /\ SendCmdRequest(id, name, ascii)

\* The client, or its connection, may be gone when the results are written.
GetCmdResults(id) == /\ PopCmdResults(id)
                     /\ UNCHANGED <<party, transport, wentOut, told>>

\* listRegisteredVMs, ping, listFinishedCmds, getCmdDetails and the file transfers ask
\* Host, or the service itself, for methods they do not have.
LacksMethod == Fault /\ UNCHANGED party

\* createVM, one of the functions of HyperVisorController the service publishes.
CreateVM(name, id) == /\ Party!CreateVM(name, id)
                      /\ UNCHANGED <<registry, transport, wentOut, told>>

-----------------------------------------------------------------------------
(* Messages, and the hypervisor's other users *)

HearsHello(id) == /\ transport = "up"
                  /\ Party!Hello(id)
                  /\ UNCHANGED <<registry, transport, wentOut, told>>

HearsCmdResult(id, results) == /\ transport = "up" /\ id \in wentOut
                               /\ ProcessCmdResult(id, results)
                               /\ UNCHANGED <<party, transport, wentOut, told>>

DestroyVM(name) == /\ Party!DestroyVM(name)
                   /\ UNCHANGED <<registry, transport, wentOut, told>>

HostRestart == /\ Restart
               /\ Party!HostRestart
               /\ transport' = "none"
               /\ told' = {}
               /\ UNCHANGED wentOut

SNext == \/ ConnectionMade
         \/ ConnectionLost
         \/ \E id \in CmdIds, name \in Names, ascii \in BOOLEAN : RunCmd(id, name, ascii)
         \/ \E id \in CmdIds : GetCmdResults(id)
         \/ LacksMethod
         \/ \E name \in Names, id \in Ids : CreateVM(name, id)
         \/ \E id \in Ids : HearsHello(id)
         \/ \E id \in CmdIds, results \in Results : HearsCmdResult(id, results)
         \/ \E name \in Names : DestroyVM(name)
         \/ HostRestart

SSpec == SInit /\ [][SNext]_svars

-----------------------------------------------------------------------------
Recorded == DOMAIN cmdReqsSent \cup DOMAIN cmdReqsRetired

\* The client knows the id of every command that is recorded, and every id it was told is
\* recorded: a call that ends in a fault leaves no request behind that nobody can ask for,
\* and a command that was written is never one whose result the registry would refuse.
RecordedIffTold == Recorded = told

\* Commands go to the VM that joined under the name the client gave, whether it joined
\* before they were sent or after, and whatever machines were created, destroyed and made
\* again under that name meanwhile.
ReachesWhoJoined ==
  \A id \in Recorded, vm \in DOMAIN vms :
    vms[vm] = CmdDetails(id).toVmName => CmdDetails(id).toVmId = vm

\* What makes ReachesWhoJoined inductive: the tables lead from the name of a recorded
\* command to the id it was sent to, and there are none before the registry is made.
NamesLead ==
  \A id \in Recorded :
    /\ made
    /\ CmdDetails(id).toVmName \in DOMAIN namesToIds
    /\ CmdDetails(id).toVmId = namesToIds[CmdDetails(id).toVmName]

\* A VM that joined is addressed by the name it is listed under (see VMRegistry).
JoinedIsAddressable == Party!JoinedIsAddressable

\* "the host agent is aware of all the available VMs and [...] appropriately discards those
\* which [...] are no longer available" (common/doc/wiki.txt): the VMs that joined are those
\* that said HELLO and are there.
AwareOfAvailable == DOMAIN vms = heard \cap Party!Values(machines)
=============================================================================
