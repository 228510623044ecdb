----------------------- MODULE CommandRegistryProofs ------------------------
(***************************************************************************)
(* Proofs about the host's command registry, for any sets of command ids,  *)
(* requests and results.  RegistryInv is inductive; the properties the     *)
(* runs check, and the refinement of CommandLifecycle, follow from it.     *)
(***************************************************************************)
EXTENDS CommandRegistry, TLAPS

-----------------------------------------------------------------------------
(* Dictionaries *)

\* A dictionary is a function from some command ids to values.
LEMMA DictsDef ==
  ASSUME NEW V, NEW d
  PROVE  d \in Dicts(V) <=> /\ DOMAIN d \subseteq CmdIds
                            /\ d \in [DOMAIN d -> V]
  BY DEF Dicts

\* Storing under an id yields a dictionary with that id and the earlier ones.
LEMMA WithDict ==
  ASSUME NEW V, NEW d \in Dicts(V), NEW id \in CmdIds, NEW v \in V
  PROVE  With(d, id, v) \in Dicts(V)
<1>1. DOMAIN d \cup {id} \subseteq CmdIds
  BY DEF Dicts
<1>2. With(d, id, v) \in [DOMAIN d \cup {id} -> V]
  BY DEF With, Dicts
<1>. QED BY <1>1, <1>2 DEF Dicts

\* Storing under an id sets that entry and no other.
LEMMA WithEntries ==
  ASSUME NEW d, NEW id, NEW v
  PROVE  /\ DOMAIN With(d, id, v) = DOMAIN d \cup {id}
         /\ With(d, id, v)[id] = v
         /\ \A k \in DOMAIN d \ {id} : With(d, id, v)[k] = d[k]
  BY DEF With

\* Popping an id yields a dictionary without it.
LEMMA WithoutDict ==
  ASSUME NEW V, NEW d \in Dicts(V), NEW id
  PROVE  Without(d, id) \in Dicts(V)
<1>1. DOMAIN d \ {id} \subseteq CmdIds
  BY DEF Dicts
<1>2. Without(d, id) \in [DOMAIN d \ {id} -> V]
  BY DEF Without, Dicts
<1>. QED BY <1>1, <1>2 DEF Dicts

\* Popping an id takes that entry away and no other.
LEMMA WithoutEntries ==
  ASSUME NEW d, NEW id
  PROVE  /\ DOMAIN Without(d, id) = DOMAIN d \ {id}
         /\ \A k \in DOMAIN d \ {id} : Without(d, id)[k] = d[k]
  BY DEF Without

\* The empty dictionary holds no id.
LEMMA EmptyDictProps ==
  ASSUME NEW V
  PROVE  EmptyDict \in Dicts(V) /\ DOMAIN EmptyDict = {}
<1>1. EmptyDict \in [{} -> V] /\ DOMAIN EmptyDict = {}
  BY DEF EmptyDict
<1>. QED BY <1>1 DEF Dicts

\* What getCmdResults hands out is the entry that waited, if there was one.
LEMMA PopHandsOut ==
  ASSUME TypeOK, NEW id \in CmdIds, PopCmdResults(id)
  PROVE  /\ handedOut' = IF id \in DOMAIN cmdReqsRcvd
                         THEN handedOut \cup {<<id, cmdReqsRcvd[id]>>}
                         ELSE handedOut
         /\ handedOut' \subseteq CmdIds \X Results
         /\ HandedOutIds' = HandedOutIds \cup ({id} \cap DOMAIN cmdReqsRcvd)
<1>1. id \in DOMAIN cmdReqsRcvd => cmdReqsRcvd[id] \in Results
  BY DEF TypeOK, Dicts
<1>2. CASE id \in DOMAIN cmdReqsRcvd
  <2>1. handedOut' = handedOut \cup {<<id, cmdReqsRcvd[id]>>}
    BY <1>2 DEF PopCmdResults
  <2>2. PICK pair : pair = <<id, cmdReqsRcvd[id]>>
    OBVIOUS
  <2>3. pair[1] = id /\ handedOut' = handedOut \cup {pair}
    BY <2>1, <2>2
  <2>4. HandedOutIds' = HandedOutIds \cup {id}
    BY <2>3 DEF HandedOutIds
  <2>. QED BY <1>1, <1>2, <2>1, <2>4 DEF TypeOK
<1>3. CASE id \notin DOMAIN cmdReqsRcvd
  <2>1. handedOut' = handedOut
    BY <1>3 DEF PopCmdResults
  <2>2. HandedOutIds' = HandedOutIds
    BY <2>1 DEF HandedOutIds
  <2>. QED BY <1>3, <2>1, <2>2 DEF TypeOK
<1>. QED BY <1>2, <1>3

-----------------------------------------------------------------------------
(* The invariant *)

\* The empty registry of a new host process satisfies the invariant.
THEOREM InitInv == Init => RegistryInv
  BY EmptyDictProps DEF Init, RegistryInv, TypeOK, RegistryPartition, NeverAnsweredTwice, HandedOutIds

\* Recording a request under a fresh id.
LEMMA AddInv ==
  ASSUME RegistryInv, NEW id \in CmdIds, NEW request \in Requests,
         AddCmdRequest(id, request)
  PROVE  RegistryInv'
<1>1. /\ cmdReqsSent' \in Dicts(Requests)
      /\ DOMAIN cmdReqsSent' = DOMAIN cmdReqsSent \cup {id}
  BY WithDict, WithEntries DEF AddCmdRequest, RegistryInv, TypeOK
<1>2. /\ UNCHANGED <<cmdReqsRetired, cmdReqsRcvd, handedOut>>
      /\ issued' = issued \cup {id}
      /\ id \notin issued
  BY DEF AddCmdRequest
<1>3. HandedOutIds' = HandedOutIds
  BY <1>2 DEF HandedOutIds
<1>. QED BY <1>1, <1>2, <1>3 DEF RegistryInv, TypeOK, RegistryPartition, NeverAnsweredTwice

\* A result for a command that was sent moves it through the dictionaries.
LEMMA AcceptInv ==
  ASSUME RegistryInv, NEW id \in CmdIds, NEW results \in Results,
         AcceptResult(id, results)
  PROVE  RegistryInv'
<1>1. /\ id \in DOMAIN cmdReqsSent
      /\ cmdReqsSent[id] \in Requests
  BY DEF AcceptResult, RegistryInv, TypeOK, Dicts
<1>2. /\ cmdReqsRcvd' \in Dicts(Results)
      /\ DOMAIN cmdReqsRcvd' = DOMAIN cmdReqsRcvd \cup {id}
  BY WithDict, WithEntries DEF AcceptResult, RegistryInv, TypeOK
<1>3. /\ cmdReqsRetired' \in Dicts(Requests)
      /\ DOMAIN cmdReqsRetired' = DOMAIN cmdReqsRetired \cup {id}
  BY <1>1, WithDict, WithEntries DEF AcceptResult, RegistryInv, TypeOK
<1>4. /\ cmdReqsSent' \in Dicts(Requests)
      /\ DOMAIN cmdReqsSent' = DOMAIN cmdReqsSent \ {id}
  BY WithoutDict, WithoutEntries DEF AcceptResult, RegistryInv, TypeOK
<1>5. /\ UNCHANGED <<issued, handedOut>>
      /\ HandedOutIds' = HandedOutIds
  BY DEF AcceptResult, HandedOutIds
<1>. QED BY <1>1, <1>2, <1>3, <1>4, <1>5
         DEF RegistryInv, TypeOK, RegistryPartition, NeverAnsweredTwice

\* Collecting moves a result from the registry to the client.
LEMMA PopInv ==
  ASSUME RegistryInv, NEW id \in CmdIds, PopCmdResults(id)
  PROVE  RegistryInv'
<1>1. /\ cmdReqsRcvd \in Dicts(Results)
      /\ cmdReqsRcvd' = Without(cmdReqsRcvd, id)
  BY DEF PopCmdResults, RegistryInv, TypeOK
<1>2. /\ cmdReqsRcvd' \in Dicts(Results)
      /\ DOMAIN cmdReqsRcvd' = DOMAIN cmdReqsRcvd \ {id}
  BY <1>1, WithoutDict, WithoutEntries, Zenon
<1>3. UNCHANGED <<cmdReqsSent, cmdReqsRetired, issued>>
  BY DEF PopCmdResults
<1>4. /\ HandedOutIds' = HandedOutIds \cup ({id} \cap DOMAIN cmdReqsRcvd)
      /\ handedOut' \subseteq CmdIds \X Results
  BY PopHandsOut DEF RegistryInv
<1>. QED BY <1>2, <1>3, <1>4
         DEF RegistryInv, TypeOK, RegistryPartition, NeverAnsweredTwice

\* A new host process knows no command; the history is kept.
LEMMA RestartInv ==
  ASSUME RegistryInv, Restart
  PROVE  RegistryInv'
<1>1. HandedOutIds' = HandedOutIds
  BY DEF Restart, HandedOutIds
<1>. QED BY <1>1, EmptyDictProps
         DEF Restart, RegistryInv, TypeOK, RegistryPartition, NeverAnsweredTwice

\* No operation of the registry, and no restart, breaks the invariant.
THEOREM NextInv == RegistryInv /\ [Next]_vars => RegistryInv'
<1>. SUFFICES ASSUME RegistryInv, [Next]_vars
              PROVE  RegistryInv'
  OBVIOUS
<1>1. ASSUME NEW id \in CmdIds, NEW request \in Requests, AddCmdRequest(id, request)
      PROVE  RegistryInv'
  BY <1>1, AddInv
<1>2. ASSUME NEW id \in CmdIds, NEW results \in Results, AcceptResult(id, results)
      PROVE  RegistryInv'
  BY <1>2, AcceptInv
<1>3. ASSUME NEW id \in CmdIds, PopCmdResults(id)
      PROVE  RegistryInv'
  BY <1>3, PopInv
<1>4. CASE Restart
  BY <1>4, RestartInv
<1>5. CASE UNCHANGED vars
  BY <1>5 DEF vars, RegistryInv, TypeOK, RegistryPartition, NeverAnsweredTwice, HandedOutIds
<1>. QED BY <1>1, <1>2, <1>3, <1>4, <1>5 DEF Next, ProcessCmdResult, RejectResult

\* RegistryInv holds in every state of the registry.
THEOREM Invariance == Spec => []RegistryInv
  BY InitInv, NextInv, PTL DEF Spec

\* Every dictionary maps command ids to requests, or to results.
THEOREM TypeCorrect == Spec => []TypeOK
<1>1. RegistryInv => TypeOK
  BY DEF RegistryInv
<1>. QED BY <1>1, Invariance, PTL

\* A command is never both sent and retired, and only a retired command has a
\* result that waits.
THEOREM Partition == Spec => []RegistryPartition
<1>1. RegistryInv => RegistryPartition
  BY DEF RegistryInv
<1>. QED BY <1>1, Invariance, PTL

\* Once getCmdResults has returned a command's answer, the command is neither
\* outstanding nor ready again.
THEOREM AnsweredOnce == Spec => []NeverAnsweredTwice
<1>1. RegistryInv => NeverAnsweredTwice
  BY DEF RegistryInv
<1>. QED BY <1>1, Invariance, PTL

-----------------------------------------------------------------------------
(* The details of a command *)

DetailsStep ==
  (\E id \in CmdIds : CmdDetails(id) \notin {NoDetails, CmdDetails(id)'})
    => \A id \in CmdIds : CmdDetails(id)' = NoDetails

\* One step of the registry keeps every command's details, or forgets them all.
LEMMA DetailsKept ==
  ASSUME RegistryInv, [Next]_vars
  PROVE  DetailsStep
<1>1. ASSUME NEW id \in CmdIds, NEW request \in Requests, AddCmdRequest(id, request)
      PROVE  DetailsStep
  <2>1. /\ DOMAIN cmdReqsSent' = DOMAIN cmdReqsSent \cup {id}
        /\ \A k \in DOMAIN cmdReqsSent \ {id} : cmdReqsSent'[k] = cmdReqsSent[k]
        /\ cmdReqsRetired' = cmdReqsRetired
    BY <1>1 DEF AddCmdRequest, With
  <2>2. CmdDetails(id) = NoDetails
    BY <1>1 DEF AddCmdRequest, CmdDetails, RegistryInv, RegistryPartition
  <2>3. \A k \in CmdIds \ {id} : CmdDetails(k)' = CmdDetails(k)
    BY <2>1 DEF CmdDetails
  <2>. QED BY <2>2, <2>3 DEF DetailsStep
<1>2. ASSUME NEW id \in CmdIds, NEW results \in Results, AcceptResult(id, results)
      PROVE  DetailsStep
  <2>1. /\ DOMAIN cmdReqsSent' = DOMAIN cmdReqsSent \ {id}
        /\ \A k \in DOMAIN cmdReqsSent \ {id} : cmdReqsSent'[k] = cmdReqsSent[k]
    BY <1>2, WithoutEntries DEF AcceptResult
  <2>2. /\ DOMAIN cmdReqsRetired' = DOMAIN cmdReqsRetired \cup {id}
        /\ cmdReqsRetired'[id] = cmdReqsSent[id]
        /\ \A k \in DOMAIN cmdReqsRetired \ {id} : cmdReqsRetired'[k] = cmdReqsRetired[k]
    BY <1>2 DEF AcceptResult, With
  <2>3. id \in DOMAIN cmdReqsSent
    BY <1>2 DEF AcceptResult
  <2>4. \A k \in CmdIds : CmdDetails(k)' = CmdDetails(k)
    BY <2>1, <2>2, <2>3 DEF CmdDetails
  <2>. QED BY <2>4 DEF DetailsStep
<1>3. ASSUME UNCHANGED <<cmdReqsSent, cmdReqsRetired>>
      PROVE  DetailsStep
  BY <1>3 DEF DetailsStep, CmdDetails
<1>4. CASE Restart
  BY <1>4, EmptyDictProps DEF Restart, DetailsStep, CmdDetails
<1>. QED BY <1>1, <1>2, <1>3, <1>4
         DEF Next, ProcessCmdResult, RejectResult, PopCmdResults, vars

\* The details of a command change only when a restart forgets every command.
THEOREM DetailsStable == Spec => DetailsAreStable
<1>1. RegistryInv /\ [Next]_vars => [DetailsStep]_vars
  BY DetailsKept
<1>2. Spec => [][DetailsStep]_vars
  BY <1>1, Invariance, PTL DEF Spec
<1>. QED BY <1>2 DEF DetailsAreStable, DetailsStep

-----------------------------------------------------------------------------
(* Refinement of CommandLifecycle *)

\* In an empty registry no command has been issued yet.
THEOREM InitRefines == Init => Lifecycle!LInit
<1>. SUFFICES ASSUME Init PROVE Lifecycle!LInit
  OBVIOUS
<1>1. /\ DOMAIN cmdReqsRcvd = {} /\ DOMAIN cmdReqsSent = {}
      /\ HandedOutIds = {} /\ issued = {} /\ handedOut = {}
  BY EmptyDictProps DEF Init, HandedOutIds
<1>2. ClientStatus = [id \in CmdIds |-> "unissued"]
  BY <1>1 DEF ClientStatus
<1>3. ClientAnswer = [id \in CmdIds |-> {}]
  BY <1>1 DEF ClientAnswer
<1>. QED BY <1>2, <1>3 DEF Lifecycle!LInit

\* addCmdRequest issues the command.
LEMMA AddRefines ==
  ASSUME RegistryInv, NEW id \in CmdIds, NEW request \in Requests,
         AddCmdRequest(id, request)
  PROVE  Lifecycle!Issue(id)
<1>1. /\ DOMAIN cmdReqsSent' = DOMAIN cmdReqsSent \cup {id}
      /\ UNCHANGED <<cmdReqsRcvd, handedOut>>
      /\ HandedOutIds' = HandedOutIds
      /\ issued' = issued \cup {id}
      /\ id \notin issued
  BY WithEntries DEF AddCmdRequest, HandedOutIds
<1>2. id \notin DOMAIN cmdReqsRcvd \cup HandedOutIds \cup DOMAIN cmdReqsSent
  BY <1>1 DEF RegistryInv, RegistryPartition
<1>3. ClientStatus[id] = "unissued"
  BY <1>1, <1>2 DEF ClientStatus
<1>4. ClientStatus' = [ClientStatus EXCEPT ![id] = "outstanding"]
  BY <1>1, <1>2 DEF ClientStatus
<1>5. ClientAnswer' = ClientAnswer
  BY <1>1 DEF ClientAnswer
<1>. QED BY <1>3, <1>4, <1>5 DEF Lifecycle!Issue

\* An accepted result completes the command.
LEMMA AcceptRefines ==
  ASSUME RegistryInv, RegistryInv', NEW id \in CmdIds, NEW results \in Results,
         AcceptResult(id, results)
  PROVE  Lifecycle!Complete(id, results)
<1>1. /\ DOMAIN cmdReqsSent' = DOMAIN cmdReqsSent \ {id}
      /\ id \in DOMAIN cmdReqsSent
      /\ UNCHANGED <<issued, handedOut>>
      /\ HandedOutIds' = HandedOutIds
  BY WithoutEntries DEF AcceptResult, HandedOutIds
<1>2. /\ DOMAIN cmdReqsRcvd' = DOMAIN cmdReqsRcvd \cup {id}
      /\ cmdReqsRcvd'[id] = results
      /\ \A k \in DOMAIN cmdReqsRcvd \ {id} : cmdReqsRcvd'[k] = cmdReqsRcvd[k]
  BY DEF AcceptResult, With
<1>3. id \notin DOMAIN cmdReqsRcvd \cup HandedOutIds
  BY <1>1 DEF RegistryInv, RegistryPartition, NeverAnsweredTwice
<1>4. ClientStatus[id] = "outstanding"
  BY <1>1, <1>3 DEF ClientStatus
<1>5. ClientStatus' = [ClientStatus EXCEPT ![id] = "ready"]
  BY <1>1, <1>2, <1>3 DEF ClientStatus
<1>6. \A r : <<id, r>> \notin handedOut
  BY <1>3 DEF HandedOutIds
<1>7. ClientAnswer' = [ClientAnswer EXCEPT ![id] = {results}]
  BY <1>1, <1>2, <1>6 DEF ClientAnswer
<1>. QED BY <1>4, <1>5, <1>7 DEF Lifecycle!Complete

\* getCmdResults collects the answer, or leaves the command as it is.
LEMMA PopRefines ==
  ASSUME RegistryInv, NEW id \in CmdIds, PopCmdResults(id)
  PROVE  Lifecycle!Collect(id) \/ UNCHANGED <<ClientStatus, ClientAnswer>>
<1>1. /\ DOMAIN cmdReqsRcvd' = DOMAIN cmdReqsRcvd \ {id}
      /\ \A k \in DOMAIN cmdReqsRcvd \ {id} : cmdReqsRcvd'[k] = cmdReqsRcvd[k]
      /\ UNCHANGED <<cmdReqsSent, issued>>
  BY WithoutEntries DEF PopCmdResults
<1>2. /\ HandedOutIds' = HandedOutIds \cup ({id} \cap DOMAIN cmdReqsRcvd)
      /\ handedOut' = IF id \in DOMAIN cmdReqsRcvd
                      THEN handedOut \cup {<<id, cmdReqsRcvd[id]>>} ELSE handedOut
  BY PopHandsOut DEF RegistryInv
<1>3. CASE id \in DOMAIN cmdReqsRcvd
  <2>1. ClientStatus[id] = "ready"
    BY <1>3 DEF ClientStatus
  <2>2. ClientStatus' = [ClientStatus EXCEPT ![id] = "collected"]
    BY <1>1, <1>2, <1>3 DEF ClientStatus
  <2>3. ClientAnswer' = ClientAnswer
    BY <1>1, <1>2, <1>3 DEF ClientAnswer
  <2>. QED BY <2>1, <2>2, <2>3 DEF Lifecycle!Collect
<1>4. CASE id \notin DOMAIN cmdReqsRcvd
  <2>1. ClientStatus' = ClientStatus
    BY <1>1, <1>2, <1>4 DEF ClientStatus
  <2>2. ClientAnswer' = ClientAnswer
    BY <1>1, <1>2, <1>4 DEF ClientAnswer
  <2>. QED BY <2>1, <2>2
<1>. QED BY <1>3, <1>4

\* A restart forgets what was not collected.
LEMMA RestartRefines ==
  ASSUME RegistryInv, Restart
  PROVE  Lifecycle!Forget
<1>1. /\ DOMAIN cmdReqsSent' = {} /\ DOMAIN cmdReqsRcvd' = {}
      /\ UNCHANGED <<issued, handedOut>>
      /\ HandedOutIds' = HandedOutIds
  BY EmptyDictProps DEF Restart, HandedOutIds
<1>2. DOMAIN cmdReqsSent \cup DOMAIN cmdReqsRcvd \subseteq issued
  BY DEF RegistryInv, RegistryPartition
<1>3. (DOMAIN cmdReqsSent \cup DOMAIN cmdReqsRcvd) \cap HandedOutIds = {}
  BY DEF RegistryInv, NeverAnsweredTwice
<1>4. {id \in CmdIds : ClientStatus[id] \in {"outstanding", "ready"}}
        = {id \in CmdIds : id \in DOMAIN cmdReqsSent \cup DOMAIN cmdReqsRcvd}
  BY <1>3 DEF ClientStatus
<1>5. ClientStatus' = [id \in CmdIds |->
                         IF id \in DOMAIN cmdReqsSent \cup DOMAIN cmdReqsRcvd
                         THEN "forgotten" ELSE ClientStatus[id]]
  BY <1>1, <1>2, <1>3 DEF ClientStatus
<1>6. ClientAnswer' = [id \in CmdIds |->
                         IF id \in DOMAIN cmdReqsSent \cup DOMAIN cmdReqsRcvd
                         THEN {} ELSE ClientAnswer[id]]
  <2>1. \A id \in DOMAIN cmdReqsSent \cup DOMAIN cmdReqsRcvd : \A r : <<id, r>> \notin handedOut
    BY <1>3 DEF HandedOutIds
  <2>. QED BY <1>1, <2>1 DEF ClientAnswer
<1>. QED BY <1>4, <1>5, <1>6 DEF Lifecycle!Forget

\* Every step of the registry is a step in the life of one command, the loss of
\* the uncollected ones, or invisible to the client.
THEOREM StepRefines ==
  RegistryInv /\ RegistryInv' /\ [Next]_vars => [Lifecycle!LNext]_(Lifecycle!lvars)
<1>. SUFFICES ASSUME RegistryInv, RegistryInv', [Next]_vars
              PROVE  Lifecycle!LNext \/ UNCHANGED <<ClientStatus, ClientAnswer>>
  BY DEF Lifecycle!lvars
<1>1. ASSUME NEW id \in CmdIds, NEW request \in Requests, AddCmdRequest(id, request)
      PROVE  Lifecycle!LNext
  BY <1>1, AddRefines DEF Lifecycle!LNext
<1>2. ASSUME NEW id \in CmdIds, NEW results \in Results, AcceptResult(id, results)
      PROVE  Lifecycle!LNext
  BY <1>2, AcceptRefines DEF Lifecycle!LNext
<1>3. ASSUME NEW id \in CmdIds, PopCmdResults(id)
      PROVE  Lifecycle!LNext \/ UNCHANGED <<ClientStatus, ClientAnswer>>
  BY <1>3, PopRefines DEF Lifecycle!LNext
<1>4. CASE Restart
  BY <1>4, RestartRefines DEF Lifecycle!LNext
<1>5. CASE UNCHANGED vars
  BY <1>5 DEF vars, ClientStatus, ClientAnswer, HandedOutIds
<1>. QED BY <1>1, <1>2, <1>3, <1>4, <1>5 DEF Next, ProcessCmdResult, RejectResult

\* The registry implements the life of a command promised to the client.
THEOREM Refinement == Spec => ImplementsLifecycle
<1>1. Spec => [][Lifecycle!LNext]_(Lifecycle!lvars)
  BY Invariance, StepRefines, PTL DEF Spec
<1>. QED BY <1>1, InitRefines DEF Spec, ImplementsLifecycle, Lifecycle!LSpec
=============================================================================
