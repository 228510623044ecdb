--------------------------- MODULE HostServiceProofs ---------------------------
(***************************************************************************)
(* Proofs about the host agent, for any commands, names and MAC addresses. *)
(* Seen through the variables of either registry it takes only that        *)
(* registry's steps, so what is proved of the registries holds of the      *)
(* agent; HostInv then ties the two together.                              *)
(***************************************************************************)
EXTENDS HostService, CommandRegistryProofs

HostInv == /\ RegistryInv
           /\ Party!RegistryInv
           /\ transport \in {"none", "up", "lost"}
           /\ wentOut \subseteq issued
           /\ RecordedIffTold
           /\ NamesLead

-----------------------------------------------------------------------------
(* The VM registry by itself: any MAC addresses and names, machines that come and go *)

\* A table taken from the hypervisor maps ids of machines to names of machines,
\* and no two ids to the same name.
LEMMA TableOfMachines ==
  ASSUME Party!TypeOK, NEW f \in Party!IdsToNamesMappings
  PROVE  /\ DOMAIN f \subseteq Ids
         /\ Party!Values(f) \subseteq Names
         /\ \A i, j \in DOMAIN f : f[i] = f[j] => i = j
<1>1. f \in [Party!Values(machines) -> DOMAIN machines]
  BY DEF Party!IdsToNamesMappings
<1>2. \A i \in DOMAIN f : f[i] \in DOMAIN machines /\ machines[f[i]] = i
  BY <1>1 DEF Party!IdsToNamesMappings
<1>3. Party!Values(f) \subseteq Names
  BY <1>2 DEF Party!Values, Party!TypeOK
<1>. QED BY <1>1, <1>2, <1>3 DEF Party!TypeOK

\* The reverse of a table without duplicate names takes every name back to its id.
LEMMA ReverseOfTable ==
  ASSUME NEW f, NEW g \in Party!Reverse(f), \A i, j \in DOMAIN f : f[i] = f[j] => i = j
  PROVE  /\ DOMAIN g = Party!Values(f)
         /\ Party!Values(g) \subseteq DOMAIN f
         /\ \A i \in DOMAIN f : f[i] \in DOMAIN g /\ g[f[i]] = i
<1>1. g \in [Party!Values(f) -> DOMAIN f] /\ \A n \in Party!Values(f) : f[g[n]] = n
  BY DEF Party!Reverse
<1>2. ASSUME NEW i \in DOMAIN f
      PROVE  f[i] \in Party!Values(f) /\ g[f[i]] = i
  BY <1>1 DEF Party!Values
<1>. QED BY <1>1, <1>2 DEF Party!Values

\* A host process without a registry satisfies the invariant.
THEOREM PartyInit == Party!Init => Party!RegistryInv
  BY DEF Party!Init, Party!NoRegistry, Party!RegistryInv, Party!TypeOK, Party!NoEntries,
         Party!Values

\* The first access makes two tables that are each other's reverse.
LEMMA PartyAccess ==
  ASSUME Party!RegistryInv, Party!Access
  PROVE  /\ made' \in BOOLEAN
         /\ DOMAIN idsToNames' \subseteq Ids /\ Party!Values(idsToNames') \subseteq Names
         /\ DOMAIN namesToIds' \subseteq Names /\ Party!Values(namesToIds') \subseteq Ids
         /\ \A id \in DOMAIN idsToNames' : /\ idsToNames'[id] \in DOMAIN namesToIds'
                                           /\ namesToIds'[idsToNames'[id]] = id
         /\ \A id \in DOMAIN vms : id \in DOMAIN idsToNames' /\ vms[id] = idsToNames'[id]
         /\ made'
<1>1. CASE Party!Make
  <2>1. /\ ~ made /\ made' = TRUE
        /\ idsToNames' \in Party!IdsToNamesMappings
        /\ namesToIds' \in Party!Reverse(idsToNames')
    BY <1>1 DEF Party!Make
  <2>2. DOMAIN vms = {}
    BY <2>1 DEF Party!RegistryInv, Party!NoEntries
  <2>3. /\ DOMAIN idsToNames' \subseteq Ids
        /\ Party!Values(idsToNames') \subseteq Names
        /\ \A i, j \in DOMAIN idsToNames' : idsToNames'[i] = idsToNames'[j] => i = j
    BY <2>1, TableOfMachines DEF Party!RegistryInv
  <2>4. /\ DOMAIN namesToIds' = Party!Values(idsToNames')
        /\ Party!Values(namesToIds') \subseteq DOMAIN idsToNames'
        /\ \A i \in DOMAIN idsToNames' : /\ idsToNames'[i] \in DOMAIN namesToIds'
                                         /\ namesToIds'[idsToNames'[i]] = i
    BY <2>1, <2>3, ReverseOfTable
  <2>. QED BY <2>1, <2>2, <2>3, <2>4
<1>2. CASE made /\ UNCHANGED Party!tables
  BY <1>2 DEF Party!tables, Party!RegistryInv, Party!TypeOK, Party!Values
<1>. QED BY <1>1, <1>2 DEF Party!Access

\* Creating and destroying machines disturbs no table.
LEMMA PartyMachines ==
  ASSUME Party!RegistryInv, NEW name \in Names, NEW id \in Ids,
         Party!CreateVM(name, id) \/ Party!DestroyVM(name)
  PROVE  Party!RegistryInv'
<1>1. DOMAIN machines' \subseteq Names /\ Party!Values(machines') \subseteq Ids
  <2>1. CASE Party!CreateVM(name, id)
    BY <2>1 DEF Party!CreateVM, Party!RegistryInv, Party!TypeOK, Party!Values
  <2>2. CASE Party!DestroyVM(name)
    BY <2>2 DEF Party!DestroyVM, Party!RegistryInv, Party!TypeOK, Party!Values
  <2>. QED BY <2>1, <2>2
<1>2. UNCHANGED <<made, idsToNames, namesToIds, vms, heard>>
  BY DEF Party!CreateVM, Party!DestroyVM, Party!tables
<1>. QED BY <1>1, <1>2 DEF Party!RegistryInv, Party!TypeOK, Party!Values

\* A HELLO adds at most the VM the table knows, under the name it gives it.
LEMMA PartyHello ==
  ASSUME Party!RegistryInv, NEW id \in Ids, Party!Hello(id)
  PROVE  Party!RegistryInv'
<1>1. Party!Access /\ UNCHANGED machines
  BY DEF Party!Hello
<1>2. DOMAIN vms' = DOMAIN vms \cup ({id} \cap DOMAIN idsToNames')
  BY DEF Party!Hello
<1>3. \A i \in DOMAIN vms' : i \in DOMAIN idsToNames' /\ vms'[i] = idsToNames'[i]
  BY <1>1, PartyAccess DEF Party!Hello
<1>4. DOMAIN vms' \subseteq Ids /\ Party!Values(vms') \subseteq Names
  BY <1>1, <1>2, <1>3, PartyAccess DEF Party!Values
<1>5. heard' \subseteq Ids
  BY DEF Party!Hello, Party!RegistryInv, Party!TypeOK
<1>6. DOMAIN machines' \subseteq Names /\ Party!Values(machines') \subseteq Ids
  BY <1>1 DEF Party!RegistryInv, Party!TypeOK, Party!Values
<1>. QED BY <1>1, <1>3, <1>4, <1>5, <1>6, PartyAccess DEF Party!RegistryInv, Party!TypeOK

\* No operation of the agent and no restart breaks the invariant.
THEOREM PartyNext == Party!RegistryInv /\ [Party!Next]_(Party!vars) => Party!RegistryInv'
<1>. SUFFICES ASSUME Party!RegistryInv, [Party!Next]_(Party!vars)
              PROVE  Party!RegistryInv'
  OBVIOUS
<1>1. ASSUME NEW name \in Names, NEW id \in Ids, Party!CreateVM(name, id)
      PROVE  Party!RegistryInv'
  BY <1>1, PartyMachines
<1>2. ASSUME NEW name \in Names, Party!DestroyVM(name)
      PROVE  Party!RegistryInv'
  <2>1. PICK id \in Ids : TRUE
    BY <1>2 DEF Party!DestroyVM, Party!RegistryInv, Party!TypeOK, Party!Values
  <2>. QED BY <1>2, <2>1, PartyMachines
<1>3. ASSUME NEW name \in Names, Party!GetIdForName(name)
      PROVE  Party!RegistryInv'
  <2>1. Party!Access /\ UNCHANGED <<machines, vms, heard>>
    BY <1>3 DEF Party!GetIdForName
  <2>. QED BY <2>1, PartyAccess DEF Party!RegistryInv, Party!TypeOK, Party!Values
<1>4. ASSUME NEW id \in Ids, Party!Hello(id)
      PROVE  Party!RegistryInv'
  BY <1>4, PartyHello
<1>5. CASE Party!HostRestart
  BY <1>5 DEF Party!HostRestart, Party!RegistryInv, Party!TypeOK, Party!NoEntries, Party!Values
<1>6. CASE UNCHANGED Party!vars
  BY <1>6 DEF Party!vars, Party!RegistryInv, Party!TypeOK, Party!Values
<1>. QED BY <1>1, <1>2, <1>3, <1>4, <1>5, <1>6 DEF Party!Next

\* RegistryInv holds in every state of the registry.
THEOREM PartyInvariance == Party!Spec => []Party!RegistryInv
  BY PartyInit, PartyNext, PTL DEF Party!Spec

\* Every table maps ids to names or names to ids.
THEOREM PartyTypeCorrect == Party!Spec => []Party!TypeOK
<1>1. Party!RegistryInv => Party!TypeOK
  BY DEF Party!RegistryInv
<1>. QED BY <1>1, PartyInvariance, PTL

\* A VM that joined is addressed by the name it is listed under, however many
\* machines come and go and whichever of them share a MAC address.
THEOREM PartyAddresses == Party!Spec => []Party!JoinedIsAddressable
<1>1. Party!RegistryInv => Party!JoinedIsAddressable
  BY DEF Party!RegistryInv, Party!JoinedIsAddressable
<1>. QED BY <1>1, PartyInvariance, PTL

-----------------------------------------------------------------------------
(* The VM registry inside the agent *)

\* A step of the agent is a step of the VM registry or of the hypervisor, or leaves both.
LEMMA PartyStep == [SNext]_svars => [Party!Next]_(Party!vars)
<1>. SUFFICES ASSUME [SNext]_svars PROVE Party!Next \/ UNCHANGED party
  BY DEF party, Party!vars
<1>1. ASSUME NEW id \in CmdIds, NEW name \in Names, NEW ascii \in BOOLEAN,
             RunCmd(id, name, ascii)
      PROVE  Party!Next
  BY <1>1 DEF RunCmd, Party!Next
<1>2. ASSUME NEW name \in Names, NEW id \in Ids, CreateVM(name, id)
      PROVE  Party!Next
  BY <1>2 DEF CreateVM, Party!Next
<1>3. ASSUME NEW id \in Ids, HearsHello(id)
      PROVE  Party!Next
  BY <1>3 DEF HearsHello, Party!Next
<1>4. ASSUME NEW name \in Names, DestroyVM(name)
      PROVE  Party!Next
  BY <1>4 DEF DestroyVM, Party!Next
<1>5. CASE HostRestart
  BY <1>5 DEF HostRestart, Party!Next
<1>6. ASSUME NEW id \in CmdIds, GetCmdResults(id) \/ \E r \in Results : HearsCmdResult(id, r)
      PROVE  UNCHANGED party
  BY <1>6 DEF GetCmdResults, HearsCmdResult
<1>7. CASE ConnectionMade \/ ConnectionLost \/ LacksMethod \/ UNCHANGED svars
  BY <1>7 DEF ConnectionMade, ConnectionLost, LacksMethod, svars
<1>. QED BY <1>1, <1>2, <1>3, <1>4, <1>5, <1>6, <1>7 DEF SNext

\* The VM registry's invariant holds on through every step of the agent.
LEMMA PartyInv == Party!RegistryInv /\ [SNext]_svars => Party!RegistryInv'
  BY PartyStep, PartyNext

\* Once they are made, the tables stay until the host goes down.
LEMMA TablesStay ==
  ASSUME [SNext]_svars, made, ~ HostRestart
  PROVE  made' /\ UNCHANGED <<idsToNames, namesToIds>>
<1>1. ASSUME NEW id \in CmdIds, NEW name \in Names, NEW ascii \in BOOLEAN,
             RunCmd(id, name, ascii)
      PROVE  UNCHANGED <<made, idsToNames, namesToIds>>
  BY <1>1 DEF RunCmd, Party!GetIdForName, Party!Access, Party!Make, Party!tables
<1>2. ASSUME NEW id \in Ids, HearsHello(id)
      PROVE  UNCHANGED <<made, idsToNames, namesToIds>>
  BY <1>2 DEF HearsHello, Party!Hello, Party!Access, Party!Make, Party!tables
<1>3. ASSUME NEW name \in Names, DestroyVM(name) \/ \E id \in Ids : CreateVM(name, id)
      PROVE  UNCHANGED <<made, idsToNames, namesToIds>>
  BY <1>3 DEF DestroyVM, CreateVM, Party!DestroyVM, Party!CreateVM, Party!tables
<1>4. ASSUME NEW id \in CmdIds, GetCmdResults(id) \/ \E r \in Results : HearsCmdResult(id, r)
      PROVE  UNCHANGED <<made, idsToNames, namesToIds>>
  BY <1>4 DEF GetCmdResults, HearsCmdResult, party, Party!tables
<1>5. CASE ConnectionMade \/ ConnectionLost \/ LacksMethod \/ UNCHANGED svars
  BY <1>5 DEF ConnectionMade, ConnectionLost, LacksMethod, svars, party, Party!tables
<1>6. SNext \/ UNCHANGED svars
  OBVIOUS
<1>7. UNCHANGED <<made, idsToNames, namesToIds>>
  BY <1>1, <1>2, <1>3, <1>4, <1>5, <1>6 DEF SNext
<1>. QED BY <1>7

\* A command is sent under the id the tables have for its name.
LEMMA SentRequest ==
  ASSUME Party!RegistryInv', Party!Access, NEW name \in DOMAIN namesToIds'
  PROVE  /\ made'
         /\ namesToIds'[name] \in Ids
         /\ [toVmName |-> name, toVmId |-> namesToIds'[name]] \in Requests
<1>1. name \in Names /\ namesToIds'[name] \in Ids
  BY DEF Party!RegistryInv, Party!TypeOK, Party!Values
<1>2. made'
  BY DEF Party!Access, Party!Make, Party!tables
<1>. QED BY <1>1, <1>2, RequestsAssumption

-----------------------------------------------------------------------------
(* The command registry inside the agent *)

\* A call of runCmd that does not end in a fault records a request and tells its id.
LEMMA RunCmdRecords ==
  ASSUME Party!RegistryInv', NEW id \in CmdIds, NEW name \in Names, NEW ascii \in BOOLEAN,
         RunCmd(id, name, ascii), ~ Fault
  PROVE  /\ made' /\ name \in DOMAIN namesToIds'
         /\ [toVmName |-> name, toVmId |-> namesToIds'[name]] \in Requests
         /\ AddCmdRequest(id, [toVmName |-> name, toVmId |-> namesToIds'[name]])
         /\ told' = told \cup {id}
         /\ wentOut' \subseteq wentOut \cup {id}
         /\ UNCHANGED transport
<1>1. Party!Access
  BY DEF RunCmd, Party!GetIdForName
<1>. QED BY <1>1, SentRequest DEF RunCmd, SendCmdRequest

\* A step of the agent is a step of the command registry, or leaves it alone.
LEMMA RegistryStep ==
  ASSUME [SNext]_svars, Party!RegistryInv'
  PROVE  [Next]_vars
<1>1. ASSUME NEW id \in CmdIds, NEW name \in Names, NEW ascii \in BOOLEAN,
             RunCmd(id, name, ascii)
      PROVE  [Next]_vars
  <2>1. CASE Fault
    BY <2>1 DEF Fault, registry
  <2>2. CASE ~ Fault
    <3>. DEFINE request == [toVmName |-> name, toVmId |-> namesToIds'[name]]
    <3>1. request \in Requests /\ AddCmdRequest(id, request)
      BY <1>1, <2>2, RunCmdRecords
    <3>. HIDE DEF request
    <3>. QED BY <3>1 DEF Next
  <2>. QED BY <2>1, <2>2
<1>2. ASSUME NEW id \in CmdIds, GetCmdResults(id)
      PROVE  [Next]_vars
  BY <1>2 DEF GetCmdResults, Next
<1>3. ASSUME NEW id \in CmdIds, NEW results \in Results, HearsCmdResult(id, results)
      PROVE  [Next]_vars
  BY <1>3 DEF HearsCmdResult, Next
<1>4. CASE HostRestart
  BY <1>4 DEF HostRestart, Next
<1>5. ASSUME NEW name \in Names, DestroyVM(name) \/ \E id \in Ids : CreateVM(name, id)
      PROVE  [Next]_vars
  BY <1>5 DEF DestroyVM, CreateVM, registry
<1>6. ASSUME NEW id \in Ids, HearsHello(id)
      PROVE  [Next]_vars
  BY <1>6 DEF HearsHello, registry
<1>7. CASE ConnectionMade \/ ConnectionLost \/ LacksMethod \/ UNCHANGED svars
  BY <1>7 DEF ConnectionMade, ConnectionLost, LacksMethod, Fault, svars, registry
<1>. QED BY <1>1, <1>2, <1>3, <1>4, <1>5, <1>6, <1>7 DEF SNext

\* Recording a request under a fresh id adds that id, and touches no other details.
LEMMA AddRecords ==
  ASSUME RegistryInv, NEW id \in CmdIds, NEW request, AddCmdRequest(id, request)
  PROVE  /\ id \notin Recorded
         /\ Recorded' = Recorded \cup {id}
         /\ CmdDetails(id)' = request
         /\ \A k \in Recorded : CmdDetails(k)' = CmdDetails(k)
<1>1. /\ id \notin issued
      /\ cmdReqsSent' = With(cmdReqsSent, id, request)
      /\ cmdReqsRetired' = cmdReqsRetired
  BY DEF AddCmdRequest
<1>2. /\ DOMAIN cmdReqsSent' = DOMAIN cmdReqsSent \cup {id}
      /\ cmdReqsSent'[id] = request
      /\ \A k \in DOMAIN cmdReqsSent \ {id} : cmdReqsSent'[k] = cmdReqsSent[k]
  BY <1>1 DEF With
<1>3. id \notin Recorded
  BY <1>1 DEF RegistryInv, RegistryPartition, Recorded
<1>. QED BY <1>1, <1>2, <1>3 DEF Recorded, CmdDetails

\* A result that arrives changes neither which commands are recorded nor their details.
LEMMA ResultRecords ==
  ASSUME RegistryInv, NEW id \in CmdIds, NEW results \in Results,
         ProcessCmdResult(id, results)
  PROVE  /\ Recorded' = Recorded
         /\ \A k \in Recorded : CmdDetails(k)' = CmdDetails(k)
<1>1. CASE RejectResult(id)
  BY <1>1 DEF RejectResult, vars, Recorded, CmdDetails
<1>2. CASE AcceptResult(id, results)
  <2>1. /\ id \in DOMAIN cmdReqsSent
        /\ cmdReqsSent' = Without(cmdReqsSent, id)
        /\ cmdReqsRetired' = With(cmdReqsRetired, id, cmdReqsSent[id])
    BY <1>2 DEF AcceptResult
  <2>2. /\ DOMAIN cmdReqsSent' = DOMAIN cmdReqsSent \ {id}
        /\ \A k \in DOMAIN cmdReqsSent \ {id} : cmdReqsSent'[k] = cmdReqsSent[k]
    BY <2>1, WithoutEntries
  <2>3. /\ DOMAIN cmdReqsRetired' = DOMAIN cmdReqsRetired \cup {id}
        /\ cmdReqsRetired'[id] = cmdReqsSent[id]
        /\ \A k \in DOMAIN cmdReqsRetired \ {id} : cmdReqsRetired'[k] = cmdReqsRetired[k]
    BY <2>1 DEF With
  <2>4. DOMAIN cmdReqsSent \cap DOMAIN cmdReqsRetired = {}
    BY DEF RegistryInv, RegistryPartition
  <2>. QED BY <2>1, <2>2, <2>3, <2>4 DEF Recorded, CmdDetails
<1>. QED BY <1>1, <1>2 DEF ProcessCmdResult

\* A new command registry holds no command.
LEMMA EmptyRecords ==
  /\ Init => Recorded = {}
  /\ Restart => Recorded' = {}
  BY DEF Init, Restart, Recorded, EmptyDict

-----------------------------------------------------------------------------
(* The invariant that ties the registries together *)

\* A host that starts satisfies the invariant.
LEMMA HostInit == SInit => HostInv
<1>. SUFFICES ASSUME SInit PROVE HostInv
  OBVIOUS
<1>1. RegistryInv
  BY InitInv DEF SInit
<1>2. Party!RegistryInv
  BY PartyInit DEF SInit
<1>3. Recorded = {}
  BY EmptyRecords DEF SInit
<1>. QED BY <1>1, <1>2, <1>3 DEF SInit, HostInv, RecordedIffTold, NamesLead

\* A call of runCmd keeps what the client was told and what is recorded the same, and
\* records the id the tables lead to.
LEMMA RunCmdInv ==
  ASSUME HostInv, [SNext]_svars, Party!RegistryInv',
         NEW id \in CmdIds, NEW name \in Names, NEW ascii \in BOOLEAN,
         RunCmd(id, name, ascii)
  PROVE  /\ RecordedIffTold' /\ NamesLead'
         /\ transport' \in {"none", "up", "lost"} /\ wentOut' \subseteq issued'
<1>2. made => made' /\ UNCHANGED <<idsToNames, namesToIds>>
  BY DEF RunCmd, Party!GetIdForName, Party!Access, Party!Make, Party!tables
<1>3. CASE Fault
  <2>1. /\ UNCHANGED <<transport, wentOut, told, issued>>
        /\ Recorded' = Recorded /\ \A k \in Recorded : CmdDetails(k)' = CmdDetails(k)
    BY <1>3 DEF Fault, registry, vars, Recorded, CmdDetails
  <2>. QED BY <1>2, <2>1 DEF HostInv, RecordedIffTold, NamesLead
<1>4. CASE ~ Fault
  <2>. DEFINE request == [toVmName |-> name, toVmId |-> namesToIds'[name]]
  <2>1. /\ made' /\ name \in DOMAIN namesToIds'
        /\ AddCmdRequest(id, request)
        /\ told' = told \cup {id}
        /\ wentOut' \subseteq wentOut \cup {id}
        /\ UNCHANGED transport
    BY <1>4, RunCmdRecords
  <2>2. request.toVmName = name /\ request.toVmId = namesToIds'[name]
    OBVIOUS
  <2>3. issued' = issued \cup {id}
    BY <2>1 DEF AddCmdRequest
  <2>. HIDE DEF request
  <2>4. /\ Recorded' = Recorded \cup {id}
        /\ CmdDetails(id)' = request
        /\ \A k \in Recorded : CmdDetails(k)' = CmdDetails(k)
    BY <2>1, AddRecords DEF HostInv
  <2>. QED BY <1>2, <2>1, <2>2, <2>3, <2>4 DEF HostInv, RecordedIffTold, NamesLead
<1>. QED BY <1>3, <1>4

\* A step that is no call of runCmd and no restart leaves the recorded commands, their
\* details and what the client was told alone.
LEMMA OthersRecord ==
  ASSUME HostInv, [SNext]_svars, ~ HostRestart,
         ~ \E id \in CmdIds, name \in Names, ascii \in BOOLEAN : RunCmd(id, name, ascii)
  PROVE  /\ Recorded' = Recorded
         /\ \A k \in Recorded : CmdDetails(k)' = CmdDetails(k)
         /\ UNCHANGED <<told, wentOut, issued>>
         /\ transport' \in {"none", "up", "lost"}
<1>. DEFINE Same == /\ Recorded' = Recorded
                    /\ \A k \in Recorded : CmdDetails(k)' = CmdDetails(k)
                    /\ UNCHANGED <<told, wentOut, issued>>
                    /\ transport' \in {"none", "up", "lost"}
<1>1. ASSUME NEW id \in CmdIds, GetCmdResults(id)
      PROVE  Same
  BY <1>1 DEF GetCmdResults, PopCmdResults, Recorded, CmdDetails, HostInv
<1>2. ASSUME NEW id \in CmdIds, NEW results \in Results, HearsCmdResult(id, results)
      PROVE  Same
  <2>1. issued' = issued
    BY <1>2 DEF HearsCmdResult, ProcessCmdResult, AcceptResult, RejectResult, vars
  <2>. QED BY <1>2, <2>1, ResultRecords DEF HearsCmdResult, HostInv
<1>3. CASE UNCHANGED registry /\ UNCHANGED <<told, wentOut>> /\ transport' \in {"none", "up", "lost"}
  BY <1>3 DEF registry, vars, Recorded, CmdDetails
<1>4. CASE ConnectionMade \/ ConnectionLost \/ LacksMethod \/ UNCHANGED svars
  BY <1>3, <1>4 DEF ConnectionMade, ConnectionLost, LacksMethod, Fault, svars, HostInv
<1>5. ASSUME NEW name \in Names, DestroyVM(name) \/ \E id \in Ids : CreateVM(name, id)
      PROVE  Same
  BY <1>3, <1>5 DEF DestroyVM, CreateVM, HostInv
<1>6. ASSUME NEW id \in Ids, HearsHello(id)
      PROVE  Same
  BY <1>3, <1>6 DEF HearsHello, HostInv
<1>. QED BY <1>1, <1>2, <1>4, <1>5, <1>6 DEF SNext

\* No step of the agent breaks the invariant.
LEMMA HostNext == HostInv /\ [SNext]_svars => HostInv'
<1>. SUFFICES ASSUME HostInv, [SNext]_svars PROVE HostInv'
  OBVIOUS
<1>1. Party!RegistryInv'
  BY PartyInv DEF HostInv
<1>2. RegistryInv'
  BY <1>1, RegistryStep, NextInv DEF HostInv
<1>3. CASE \E id \in CmdIds, name \in Names, ascii \in BOOLEAN : RunCmd(id, name, ascii)
  BY <1>1, <1>2, <1>3, RunCmdInv DEF HostInv
<1>4. CASE HostRestart
  <2>1. /\ Recorded' = {} /\ told' = {} /\ transport' = "none"
        /\ UNCHANGED <<wentOut, issued>>
    BY <1>4, EmptyRecords DEF HostRestart, Restart
  <2>. QED BY <1>1, <1>2, <2>1 DEF HostInv, RecordedIffTold, NamesLead
<1>5. CASE /\ ~ HostRestart
           /\ ~ \E id \in CmdIds, name \in Names, ascii \in BOOLEAN : RunCmd(id, name, ascii)
  <2>1. made => made' /\ UNCHANGED <<idsToNames, namesToIds>>
    BY <1>5, TablesStay
  <2>2. /\ Recorded' = Recorded
        /\ \A k \in Recorded : CmdDetails(k)' = CmdDetails(k)
        /\ UNCHANGED <<told, wentOut, issued>>
        /\ transport' \in {"none", "up", "lost"}
    BY <1>5, OthersRecord
  <2>. QED BY <1>1, <1>2, <2>1, <2>2 DEF HostInv, RecordedIffTold, NamesLead
<1>. QED BY <1>3, <1>4, <1>5

-----------------------------------------------------------------------------
(* Theorems *)

\* HostInv holds in every state of the agent.
THEOREM HostInvariance == SSpec => []HostInv
  BY HostInit, HostNext, PTL DEF SSpec

\* Both registries are of their types, and no id went out, or was told, that was not drawn.
THEOREM HostTypeCorrect == SSpec => []STypeOK
<1>1. HostInv => STypeOK
  <2>1. HostInv => told \subseteq issued
    BY DEF HostInv, RecordedIffTold, Recorded, RegistryInv, RegistryPartition
  <2>. QED BY <2>1 DEF HostInv, STypeOK, RegistryInv, Party!RegistryInv
<1>. QED BY <1>1, HostInvariance, PTL

\* The client was told the id of every recorded command, and no other.
THEOREM Recording == SSpec => []RecordedIffTold
<1>1. HostInv => RecordedIffTold
  BY DEF HostInv
<1>. QED BY <1>1, HostInvariance, PTL

\* A VM that joined is addressed by the name it is listed under.
THEOREM HostAddresses == SSpec => []JoinedIsAddressable
<1>1. HostInv => JoinedIsAddressable
  BY DEF HostInv, JoinedIsAddressable, Party!JoinedIsAddressable, Party!RegistryInv
<1>. QED BY <1>1, HostInvariance, PTL

\* Commands to the name of a VM that joined went, and go, to that VM.
THEOREM Reaches == SSpec => []ReachesWhoJoined
<1>1. HostInv => ReachesWhoJoined
  <2>1. ASSUME HostInv, NEW id \in Recorded, NEW vm \in DOMAIN vms,
               vms[vm] = CmdDetails(id).toVmName
        PROVE  CmdDetails(id).toVmId = vm
    <3>1. CmdDetails(id).toVmId = namesToIds[vms[vm]]
      BY <2>1 DEF HostInv, NamesLead
    <3>2. namesToIds[vms[vm]] = vm
      BY <2>1 DEF HostInv, Party!RegistryInv
    <3>. QED BY <3>1, <3>2
  <2>. QED BY <2>1 DEF ReachesWhoJoined
<1>. QED BY <1>1, HostInvariance, PTL

\* Seen through the three dictionaries the agent is the command registry: whatever is proved
\* of CommandRegistry holds of the agent.
THEOREM ImplementsRegistry == SSpec => Spec
<1>1. HostInv' /\ [SNext]_svars => [Next]_vars
  BY RegistryStep DEF HostInv
<1>2. SInit => Init
  BY DEF SInit
<1>. QED BY <1>1, <1>2, HostInvariance, PTL DEF SSpec, Spec

\* Commands are sent or retired, their answers handed out once, their details kept, and
\* their lives are those of CommandLifecycle, in the whole agent.
THEOREM HostKeepsCommands ==
  SSpec => /\ []RegistryPartition
           /\ []NeverAnsweredTwice
           /\ DetailsAreStable
           /\ ImplementsLifecycle
  BY ImplementsRegistry, Partition, AnsweredOnce, DetailsStable, Refinement
=============================================================================
