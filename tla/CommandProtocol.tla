-------------------------- MODULE CommandProtocol ---------------------------
(***************************************************************************)
(* The host agent and the controllers inside its virtual machines, talking *)
(* through the broker: the composition of TopicBroker and CommandRegistry  *)
(* with the words the two sides exchange.                                  *)
(*                                                                         *)
(*  - a VM that is connected subscribes to the command requests and then   *)
(*    says HELLO; the host, when connected, subscribes to the HELLOs and   *)
(*    to the command results;                                              *)
(*  - runCmd publishes a CMD_RUN and records it; every subscribed VM gets  *)
(*    it, and the one it is addressed to executes it and says CMD_RESULT;  *)
(*  - a client whose connection breaks connects again, and what it writes  *)
(*    in between is dropped; nothing is ever sent again.                   *)
(*                                                                         *)
(* Faults says what goes wrong in a run: connections break, chunks are     *)
(* misread, VMs go down, the host process (and the broker with it) is      *)
(* restarted.                                                              *)
(***************************************************************************)
EXTENDS Naturals, Sequences

CONSTANTS CmdIds, VMs, Host, NoConn, NoDetails,
          Target,       \* the VM the client runs each command on
          KnownVMs,     \* VMs in the host's snapshot of names and ids
          Mute,         \* commands a VM starts or ends with an exception, unanswered
          Faults,       \* what goes wrong in this run
          MaxConns,     \* bound: connections of a client
          Room          \* bound: frames between the broker and a client

VARIABLES sock, engines, topics, lock, unserved, toBroker, toClient,    \* TopicBroker
          cmdReqsSent, cmdReqsRetired, cmdReqsRcvd, issued, handedOut,  \* CommandRegistry
          transport,    \* StompProtocol.transport of each client
          vms,          \* VMs that joined the party (VMRegistry._vms)
          up,           \* VMs whose controller runs
          running,      \* commands each VM executes
          executed      \* history: commands some VM began to execute

Clients == VMs \cup {Host}
Conns == Clients \X (1 .. MaxConns)

ASSUME ProtocolAssumptions ==
  /\ Host \notin VMs
  /\ NoConn \notin Conns
  /\ NoDetails \notin VMs
  /\ Target \in [CmdIds -> VMs]
  /\ KnownVMs \subseteq VMs
  /\ Faults \subseteq {"break", "misread", "crash", "restart"}
  /\ MaxConns \in Nat /\ Room \in Nat

CONN == "/topic/connections"
CMD_REQ == "/topic/cmd_requests"
CMD_RES == "/topic/cmd_responses"

\* The conn of a HELLO is not on the wire: it tells the properties which
\* connection of the VM the HELLO was said on.
Hello(conn)       == [word |-> "HELLO", conn |-> conn]
CmdRun(id)        == [word |-> "CMD_RUN", id |-> id, to |-> Target[id]]
CmdResult(id, vm) == [word |-> "CMD_RESULT", id |-> id, from |-> vm]
Msgs == {Hello(c) : c \in VMs \X (1 .. MaxConns)} \cup {CmdRun(id) : id \in CmdIds}
          \cup {CmdResult(id, vm) : id \in CmdIds, vm \in VMs}

Broker == INSTANCE TopicBroker WITH Topics <- {CONN, CMD_REQ, CMD_RES}
Registry == INSTANCE CommandRegistry WITH Requests <- VMs, Results <- VMs

brokerVars == <<sock, engines, topics, lock, unserved, toBroker, toClient>>
registryVars == <<cmdReqsSent, cmdReqsRetired, cmdReqsRcvd, issued, handedOut>>
localVars == <<transport, vms, up, running, executed>>
vars == <<brokerVars, registryVars, localVars>>

TypeOK == /\ Broker!BTypeOK
          /\ Registry!TypeOK
          /\ transport \in [Clients -> Conns \cup {NoConn}]
          /\ vms \subseteq VMs
          /\ up \subseteq VMs
          /\ running \in [VMs -> SUBSET CmdIds]
          /\ executed \subseteq CmdIds

Init == /\ Broker!BInit
        /\ Registry!Init
        /\ transport = [c \in Clients |-> NoConn]
        /\ vms = {}
        /\ up = VMs
        /\ running = [v \in VMs |-> {}]
        /\ executed = {}

-----------------------------------------------------------------------------
(* Connections: StompProtocolFactory retries every 5 seconds, for ever *)

Online(c) == transport[c] # NoConn /\ sock[transport[c]] = "open"

Unused(c) == {n \in 1 .. MaxConns : sock[<<c, n>>] = "new"}

\* The factory gives up after a connection was lost.
Reconnect_FirstOnly(c) ==
  /\ c \in up \cup {Host}
  /\ transport[c] = NoConn
  /\ \E n \in Unused(c) : /\ \A k \in Unused(c) : n <= k
                         /\ Broker!Open(<<c, n>>)
                         /\ transport' = [transport EXCEPT ![c] = <<c, n>>]
  /\ UNCHANGED <<registryVars, vms, up, running, executed>>

Reconnect(c) ==
  /\ c \in up \cup {Host}
  /\ ~ Online(c)
  /\ \E n \in Unused(c) : /\ \A k \in Unused(c) : n <= k
                         /\ Broker!Open(<<c, n>>)
                         /\ transport' = [transport EXCEPT ![c] = <<c, n>>]
  /\ UNCHANGED <<registryVars, vms, up, running, executed>>

\* Bound: the last connection of a client does not break.
Break(c) == /\ "break" \in Faults
            /\ Online(c)
            /\ Unused(c) # {}
            /\ Broker!Lose(transport[c])
            /\ UNCHANGED <<registryVars, localVars>>

Misread(c) == /\ "misread" \in Faults
              /\ Online(c)
              /\ \E n \in 1 .. Len(toClient[transport[c]]) : Broker!Misread(transport[c], n)
              /\ UNCHANGED <<registryVars, localVars>>

-----------------------------------------------------------------------------
(* The host agent *)

\* Without a first connection transport is None, and the write raises before the
\* request is recorded.
RunCmd(id) == /\ Target[id] \in KnownVMs
              /\ transport[Host] # NoConn
              /\ Broker!Write(transport[Host], <<Broker!Send(CMD_REQ, CmdRun(id))>>)
              /\ Registry!AddCmdRequest(id, Target[id])
              /\ UNCHANGED localVars

GetCmdResults(id) == /\ id \in issued
                     /\ Registry!PopCmdResults(id)
                     /\ UNCHANGED <<brokerVars, localVars>>

\* The next frame of client c is given to its engine.
Reads(c, frame) == /\ Online(c)
                   /\ toClient[transport[c]] # <<>>
                   /\ Head(toClient[transport[c]]) = frame

ReadsWord(c, word) == /\ Online(c)
                      /\ toClient[transport[c]] # <<>>
                      /\ Head(toClient[transport[c]]).cmd = "MESSAGE"
                      /\ Head(toClient[transport[c]]).msg.word = word

NextMsg(c) == Head(toClient[transport[c]]).msg

HostConnected ==
  /\ Reads(Host, Broker!Connected)
  /\ Broker!Receive(transport[Host], <<Broker!Subscribe(CONN), Broker!Subscribe(CMD_RES)>>)
  /\ UNCHANGED <<registryVars, localVars>>

\* The party is joined by the descriptor, not by its id.
HostHearsHello_ByDescriptor ==
  /\ ReadsWord(Host, "HELLO")
  /\ vms' = vms \cup {NextMsg(Host).conn}
  /\ Broker!Receive(transport[Host], <<>>)
  /\ UNCHANGED <<registryVars, transport, up, running, executed>>

\* addVM raises NoSuchVirtualMachine for a VM that is not in the snapshot.
HostHearsHello ==
  /\ ReadsWord(Host, "HELLO")
  /\ vms' = vms \cup ({NextMsg(Host).conn[1]} \cap KnownVMs)
  /\ Broker!Receive(transport[Host], <<>>)
  /\ UNCHANGED <<registryVars, transport, up, running, executed>>

HostHearsCmdResult ==
  /\ ReadsWord(Host, "CMD_RESULT")
  /\ Registry!ProcessCmdResult(NextMsg(Host).id, NextMsg(Host).from)
  /\ Broker!Receive(transport[Host], <<>>)
  /\ UNCHANGED localVars

\* ERROR frames are logged.
HearsError(c) == /\ Reads(c, Broker!Error)
                 /\ Broker!Receive(transport[c], <<>>)
                 /\ UNCHANGED <<registryVars, localVars>>

HostRestart == /\ "restart" \in Faults
               /\ transport[Host] # NoConn
               /\ \A c \in Clients : Unused(c) # {}
               /\ Registry!Restart
               /\ Broker!BrokerRestart
               /\ transport' = [transport EXCEPT ![Host] = NoConn]
               /\ vms' = {}
               /\ UNCHANGED <<up, running, executed>>

-----------------------------------------------------------------------------
(* The controller in a virtual machine *)

\* HELLO is said before the subscription.
VMConnected_HelloFirst(v) ==
  /\ Reads(v, Broker!Connected)
  /\ Broker!Receive(transport[v], <<Broker!Send(CONN, Hello(transport[v])),
                                    Broker!Subscribe(CMD_REQ)>>)
  /\ UNCHANGED <<registryVars, localVars>>

VMConnected(v) ==
  /\ Reads(v, Broker!Connected)
  /\ Broker!Receive(transport[v], <<Broker!Subscribe(CMD_REQ),
                                    Broker!Send(CONN, Hello(transport[v]))>>)
  /\ UNCHANGED <<registryVars, localVars>>

\* The 'to' header is not looked at.
VMHearsCmdRun_AnyTarget(v) ==
  /\ ReadsWord(v, "CMD_RUN")
  /\ running' = [running EXCEPT ![v] = @ \cup {NextMsg(v).id}]
  /\ executed' = executed \cup {NextMsg(v).id}
  /\ Broker!Receive(transport[v], <<>>)
  /\ UNCHANGED <<registryVars, transport, vms, up>>

VMHearsCmdRun(v) ==
  /\ ReadsWord(v, "CMD_RUN")
  /\ \E starts \in SUBSET {NextMsg(v).id} :
       /\ NextMsg(v).to # v => starts = {}
       /\ NextMsg(v).to = v /\ NextMsg(v).id \notin Mute => starts # {}
       /\ running' = [running EXCEPT ![v] = @ \cup starts]
       /\ executed' = executed \cup starts
  /\ Broker!Receive(transport[v], <<>>)
  /\ UNCHANGED <<registryVars, transport, vms, up>>

\* The result is said when the command begins to be executed, and again at its end.
ExecutionEnds_SaidEarly(v, id) ==
  /\ id \in running[v]
  /\ \/ running' = [running EXCEPT ![v] = @ \ {id}]
     \/ running' = running
  /\ Broker!Write(transport[v], <<Broker!Send(CMD_RES, CmdResult(id, v))>>)
  /\ UNCHANGED <<registryVars, transport, vms, up, executed>>

\* Nothing is said at the end.
ExecutionEnds_Silent(v, id) ==
  /\ id \in running[v]
  /\ running' = [running EXCEPT ![v] = @ \ {id}]
  /\ UNCHANGED <<brokerVars, registryVars, transport, vms, up, executed>>

ExecutionEnds(v, id) ==
  /\ id \in running[v]
  /\ running' = [running EXCEPT ![v] = @ \ {id}]
  /\ IF id \in Mute
     THEN UNCHANGED brokerVars
     ELSE Broker!Write(transport[v], <<Broker!Send(CMD_RES, CmdResult(id, v))>>)
  /\ UNCHANGED <<registryVars, transport, vms, up, executed>>

\* The VM, or its controller, goes down with what it executes.
VMCrash(v) == /\ "crash" \in Faults
              /\ v \in up
              /\ Unused(v) # {}
              /\ up' = up \ {v}
              /\ running' = [running EXCEPT ![v] = {}]
              /\ transport' = [transport EXCEPT ![v] = NoConn]
              /\ IF Online(v) THEN Broker!Lose(transport[v]) ELSE UNCHANGED brokerVars
              /\ UNCHANGED <<registryVars, vms, executed>>

VMBoot(v) == /\ "crash" \in Faults
             /\ v \notin up
             /\ up' = up \cup {v}
             /\ UNCHANGED <<brokerVars, registryVars, transport, vms, running, executed>>

-----------------------------------------------------------------------------
BrokerStep == /\ Broker!BrokerStep
              /\ UNCHANGED <<registryVars, localVars>>

HostReacts == HostConnected \/ HostHearsHello \/ HostHearsCmdResult \/ HearsError(Host)

VMReacts(v) == VMConnected(v) \/ VMHearsCmdRun(v) \/ HearsError(v)

Next == \/ \E id \in CmdIds : RunCmd(id) \/ GetCmdResults(id)
        \/ HostReacts
        \/ HostRestart
        \/ \E v \in VMs : \/ VMReacts(v)
                          \/ \E id \in CmdIds : ExecutionEnds(v, id)
                          \/ VMCrash(v)
                          \/ VMBoot(v)
        \/ \E c \in Clients : Reconnect(c) \/ Break(c) \/ Misread(c)
        \/ BrokerStep

Spec == Init /\ [][Next]_vars

\* The reactors and the broker's threads keep running, clients that are not
\* connected keep trying, and commands end.
Fairness == /\ WF_vars(HostReacts)
            /\ \A v \in VMs : /\ WF_vars(VMReacts(v))
                              /\ \A id \in CmdIds : WF_vars(ExecutionEnds(v, id))
            /\ \A c \in Clients : WF_vars(Reconnect(c))
            /\ \A c \in Conns : WF_vars(Broker!HandlerStep(c) /\ UNCHANGED <<registryVars, localVars>>)
            /\ WF_vars(Broker!EndSend /\ UNCHANGED <<registryVars, localVars>>)

FairSpec == Spec /\ Fairness

-----------------------------------------------------------------------------
(* What the exchange promises *)

Execution == [id \in CmdIds |->
                IF \E v \in VMs : id \in running[v] THEN "running"
                ELSE IF id \in executed THEN "over" ELSE "none"]

Service == INSTANCE CommandService WITH status <- Registry!ClientStatus,
                                        answer <- Registry!ClientAnswer,
                                        execution <- Execution

\* Through broken connections, misread chunks, crashes and restarts a command is
\* executed at most once, on the VM it is addressed to, answered only once its
\* execution is over, by that VM, and its answer is collected at most once.
ImplementsService == Service!SSpec

Hellos == {m \in Msgs : m.word = "HELLO" /\
             \E d \in Conns : \E i \in DOMAIN toClient[d] : toClient[d][i] = Broker!Message(m)}

\* The host hears HELLO from a VM only once the broker has it subscribed to the
\* command requests, unless that connection is already over: connected() sends
\* SUBSCRIBE first, and the broker reads a connection in order.
HelloMeansListening ==
  \A m \in Hellos : m.conn \in topics[CMD_REQ] \/ sock[m.conn] = "closed"

\* The assertion of processCmdResult holds: a result the host hears is that of a
\* command it has sent and not yet retired.
AssertedResultIsKnown ==
  ReadsWord(Host, "CMD_RESULT") => NextMsg(Host).id \in DOMAIN cmdReqsSent

Requested(id) == \E c \in Conns : \E i \in DOMAIN toBroker[c] :
                    toBroker[c][i] = Broker!Send(CMD_REQ, CmdRun(id))

\* A command published for a VM that joined the party is answered, as long as
\* no connection breaks: neither the order in which the threads of the broker
\* get to run nor that in which the two sides subscribe loses it.
EventuallyAnswered ==
  \A id \in CmdIds \ Mute :
    Requested(id) /\ Target[id] \in vms ~> id \in DOMAIN cmdReqsRetired

Listening(v) == transport[v] \in topics[CMD_REQ]
HostListening == transport[Host] \in topics[CONN] \cap topics[CMD_RES]

\* After the last break every client is connected and subscribed again, and no
\* dead connection is left among the subscribers.
Reconverges == <>[](/\ HostListening
                    /\ \A v \in VMs : Listening(v)
                    /\ \A t \in DOMAIN topics : \A c \in topics[t] : Online(c[1]) /\ transport[c[1]] = c)
=============================================================================
