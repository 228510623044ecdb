# vmcontroller in TLA+

vmcontroller (packages `boincvm.host`, `boincvm.vm`, `boincvm.common`) lets a program on a
host run commands inside virtual machines.  A **host agent** offers an XML-RPC service and
starts a STOMP **broker**; in each virtual machine a **controller** connects to the broker,
says HELLO, executes the commands addressed to it and says their results.  This directory
models the parts whose correctness depends on order, failure and shared state, checks them
with TLC on small instances, and proves the central invariants with TLAPS.

Paths below are relative to `src/boincvm/`; `site-packages` is
`tests/venv/lib/python2.6/site-packages`, where the coilmq broker, stomper and Twisted lie.

## The system

| Component | State | Operations | Modelled in |
|---|---|---|---|
| command registry (`host/Host.py` `CommandRegistry`, `Host`) | `_cmdReqsSent`, `_cmdReqsRetired`, `_cmdReqsRcvd`, keyed by a uuid4 | `addCmdRequest`, `processCmdResult`, `popCmdResults`, `getCmdDetails`; all is lost in a restart | `CommandRegistry` |
| VM registry (`host/Host.py` `VMRegistry`) | `_idsToNames`, `_namesToIds` (taken once), `_vms` | `addVM`, `getIdForName`, lazy construction | `VMRegistry` |
| words and engines (`host/HostWords.py`, `vm/VMWords.py`, `*StompEngine.py`, `common/BaseStompEngine.py`) | none of their own | HELLO, CMD_RUN, CMD_RESULT; `connected`, `react` | `CommandProtocol` |
| STOMP client (`common/StompProtocol.py`, stomper) | the transport of the present connection; no receive buffer | connect, reconnect every 5 s, `sendMsg`, `dataReceived` | `TopicBroker` (client end), `CommandProtocol` |
| broker (coilmq: `topic.py`, `engine.py`, `server/socketserver.py`) | subscribers of each topic, one engine per connection, one lock | CONNECT, SUBSCRIBE, SEND, end of a connection | `TopicBroker`, with its clients in `TopicClients`; its promise in `TopicOrder` |
| command execution (`vm/CommandExecuter.py`) | a process, its Deferred, resource usage at the start | `executeCommand`, the chain of callbacks | `CommandExecuter` |
| hypervisor controller (`host/HyperVisorController.py`, `host/controllers/VirtualBox.py`) | VirtualBox's machines, sessions, VRDP ports | `createVM`, `destroyVM`, `start`, `powerOff`, ..., names and MAC addresses | `HyperVisor`; names and addresses in `VMRegistry` |
| start of the broker (`host/boinc-host-controller.py`) | tries, delay, an event shared by two processes | retry with growing delay; give up after 60 s | `BrokerStartup` |
| XML-RPC service (`host/Host.py` `HostXMLRPCService`, `Host`) | the two registries, the transport it writes to | `runCmd`, `getCmdResults`, the published functions of the hypervisor controller, methods that fault | `HostService` |
| file transfers, PING/PONG/BYE/STILL_ALIVE, earlier `words.py` and `common/CommandExecuter.py` | | dead code: not importable, never called, or calls methods that do not exist | not modelled |
| descriptors, `support.py`, `uuid.py`, set-up and test files | | data conversions, library copies, packaging | not modelled |

How they interact:

- The XML-RPC client calls `runCmd(name, ...)`: the host translates the name with the VM
  registry, publishes CMD_RUN on `/topic/cmd_requests`, records the request and returns its id.
  The client polls `getCmdResults(id)`.
- Every VM is subscribed to `/topic/cmd_requests`; the one addressed executes the command and
  publishes CMD_RESULT on `/topic/cmd_responses`, to which the host is subscribed.
- On every connection a VM subscribes and then says HELLO on `/topic/connections`.
- The host agent starts the broker as a process of its own and waits for an event that process
  sets; after that neither looks at the other again, except through the connection.
- An exception in a call of the client becomes a fault; what the call had done before stays.
- The host agent and each controller are single-threaded (a Twisted reactor), except for the
  hypervisor's calls, which run in a thread pool.  The broker is a process of its own with a
  thread per connection; the threads share the topic manager and its lock.

What is hard about it: nothing is acknowledged or sent again, so lost connections, restarts
and chunks that are misread show in what the client sees; the broker writes to all
subscribers under one lock, from the thread of whoever publishes; results come late, or to a
process that did not ask; tables are taken once from a hypervisor that changes.
`PROJECT.json` lists the hazards one by one, with their lines and the properties that cover
them.

### What makes each component correct

- *Command registry*: a command is sent or retired, never both; it is answered at most once
  and its answer is handed out at most once; its details stay the same.
- *VM registry*: a VM that joined is addressed by the name it is listed under.
- *Host agent*: what is recorded is what the client was told, and a command goes to the VM
  that joined under the name it was given.
- *Start*: the agent runs, or gives up for a cause; a broker that fails closes its port before
  it tries again, and serves again.
- *Broker*: no connection stays subscribed after its end; the lock is released whatever
  happens to the connections; all clients see the messages of a topic in one order.
- *Hypervisor controller*: a session ends with the call that opened it, and `createVM` is all
  or nothing, as far as VirtualBox carries out the clean-up; every thread comes back to the pool.
- *Command execution*: at most one result, at the end, that calls finished only what has exited,
  with the resources of the right window of time.
- *The exchange*: a command is executed at most once, on its target, and answered only once
  it is over; without faults it is answered; after faults the clients are subscribed again.

## Modules

    CommandLifecycle                       CommandService
      ^ implemented by                       ^ implemented by      (uses CommandLifecycle)
    CommandRegistry  <---- INSTANCE ----  CommandProtocol  ---- INSTANCE ---->  TopicBroker
      ^ EXTENDS
    HostService  ---- INSTANCE ---->  VMRegistry

    TopicOrder
      ^ implemented by
    TopicClients  ---- EXTENDS ---->  TopicBroker

    HyperVisor       (its machines are those of VMRegistry)
    CommandExecuter  (its executions are the steps ExecutionEnds of CommandProtocol)
    BrokerStartup    (its process is the broker of TopicBroker, its agent that of HostService)

**`CommandLifecycle`** is what the client may rely on for one command: *unissued*,
*outstanding*, *ready*, *collected*, or *forgotten* in a restart, with at most one answer.

**`CommandRegistry`** has the three dictionaries as functions whose domain is the set of ids
in them (`With`, `Without` are assignment and `pop`).  `AddCmdRequest` is the end of
`Host.sendCmdRequest`; `AcceptResult` and `RejectResult` are `processCmdResult` with the
assertion true or false; `PopCmdResults` is `getCmdResults`; `Restart` is a new process.  Two
history variables, `issued` (uuids given out) and `handedOut` (what was returned), let
properties speak of the past and of earlier processes.

**`VMRegistry`** has the hypervisor's machines (name -> MAC address), the tables, and the
VMs that joined.  `Access` is `inject`'s lazy construction: the first HELLO or command takes
the tables.  Where Python's `dict` keeps the last of several entries of one key, any of them
may be kept.  That VirtualBox refuses a second machine of one name is an assumption about
VirtualBox; that MAC addresses are distinct is not assumed.

**`HostService`** is the whole agent between its client and the broker: both registries, the
transport, and one action per call (`RunCmd`, `GetCmdResults`, `CreateVM`, `LacksMethod`) and
per message (`HearsHello`, `HearsCmdResult`).  `SendCmdRequest` is the order of
`Host.sendCmdRequest`: the name is looked up (which may make the VM registry), the message is
written, and only then is the request recorded.  A write raises without a first connection
and for text that is not ASCII (the message becomes unicode), and is dropped by the transport of
a lost one.  `Fault` is what is left of a call that raised.  Results arrive for any command
that ever went out, any number of times: two VMs with one MAC address both execute and answer
it.  `wentOut` and `told` are history variables.  `LacksMethod` stands for
`listRegisteredVMs`, `ping`, `listFinishedCmds`, `getCmdDetails`, `cpFileToVM` and
`cpFileFromVM`, each of which calls a method that does not exist.

**`BrokerStartup`** has the broker's process (`Bind`, `Announce`, `BindFails`, `ServeFails`,
`Wakes`), the agent that waits for it (`HostRuns`, `HostGivesUp`), the port, which others
take and release, and time, which goes on only when neither process is due.  `BackOff` is
`mdelay *= backoff` in integers: the unit of time (1/512 s in the run) makes every delay of the
first minute exact.  The server does not set SO_REUSEADDR, so that `Closed` may leave the port
taken by what remains of accepted connections.  A broker that fails while it serves sleeps in
the `except` clause and closes its server in the `finally` clause after that: `ServeFails`
leaves the port as it is, so that it is held during the delay, and `Wakes` closes it.  `tries` is -1 in the only call, so that the
branch that gives up is never taken and is left out.

**`HyperVisor`** has the calls that run in the threads of the pool, each at one of the
requests it makes of VirtualBox: `CreateVM`, `SaveSettings`, `RegisterMachine`,
`OpenSession`, `Configure`, `Close` and `Unregister` are `createVM` with its rollback,
`DestroyVM`, `Detach` and `Unregister` are `destroyVM`, `ExecProgressCmd`, `Run` and `Wait`
are `_execProgressCmd`, `Start` and `Wait` are `start`.  Any request may raise: VirtualBox
refuses it in the state it is in, or fails at any time.  Where a failure has no clean-up to
follow it, or is one of the clean-up, the call ends with the answer `"failed"`, which the
client sees as any exception, and what it had opened or registered stays:

- in `createVM`, `getSessionObject` after `registerMachine` (`session` is unbound in the
  `except` clause, nothing is rolled back and the machine stays registered), reading the
  state of the session or closing it, and the rollback's own `unregisterMachine` and
  `deleteSettings`;
- in `destroyVM`, everything once the session is open, as there is no clean-up;
- in `_execProgressCmd`, reading the state, the console and the machine of the session, which
  stands in front of the `try`, and `session.close()` itself.

VirtualBox is not in the repository: of its behaviour the module takes what the head of the module
names (one direct session per machine, which others share; no unregistering while there is
one).  `VMStarts`, `VMFailsToStart`, `GuestShutsDown` and `VMEnds` are the process of a VM,
which is under no obligation to start or to end.  `company` notes which calls were not
alone with their machine.  `destroyVM` is not offered by the XML-RPC service (the tests call
it), `shutdown` neither.

**`TopicBroker`** has for every connection the frames on their way in both directions, and
the broker's engines, topics and lock.  A connection is an object of its own and is used
once; a client that connects again has another.  A broadcast is split into `BeginSend`
(the lock is taken), one `ServeSubscriber` or `ServeFails` per write, and `EndSend`, so
that breaks and other threads come between any two writes.  `Room` bounds what fits into a
socket; a write beyond it blocks.  `Misread` is `dataReceived` on a chunk that does not
hold exactly one frame: `unpack_frame` makes one broken frame of it, whose word is unknown or
whose body does not parse, and `react` logs the exception.  `Lose` breaks a connection:
what the broker had not yet read of it is cut off anywhere.

**`TopicClients`** adds the clients: `Read` is a reactor that reads a frame and, told that it
is connected, subscribes to its topics; `Publish` is `sendMsg`, from the moment the transport
is there, which drops what it is given once the connection is gone; `Break` and
`BrokerRestart` are the faults.  Messages are numbered by their publisher, and three history
variables hold how many were `published`, the order in which broadcasts `begun`, and what each
client `received`.

**`TopicOrder`** is what the broker promises of the order: one order of all messages, over
all topics, in which those of a publisher come in the order it wrote them and without a gap,
and of which every client hears a part, in that order and nothing twice.  The code promises no
more: a client may miss any message.

**`CommandExecuter`** follows the commands of one VM.  The callbacks of the Deferred are
operators over successes and failures (`GetExecutionResults`, `ErrorHandler`) composed in
the order they are attached (`Chain`).  `Reap` is the reactor's waitpid, which moves the
resources of the process into RUSAGE_CHILDREN; `ProcessEnded` comes later.

**`CommandService`** is the promise of the whole exchange, without messages: execution at
most once and on the target, the answer after the end of the execution, the client's view as
in `CommandLifecycle`.

**`CommandProtocol`** composes broker, registry and the two sides.  Each handler is one
action, with the frames it writes as its reaction: `HostConnected`, `VMConnected`
(`connected`), `HostHearsHello` (`HELLO.listenAndAct`, `addVM`), `VMHearsCmdRun`
(`CMD_RUN.listenAndAct`, `executeCommand`), `ExecutionEnds`
(`dealWithExecutionResults`), `HostHearsCmdResult`, `RunCmd` and `GetCmdResults` (the
client's calls).  `Reconnect`, `Break`, `Misread`, `VMCrash`, `VMBoot` and `HostRestart`
(with the broker, its daemon child) are the faults; the constant `Faults` says which of them
a run has.  `Mute` is the set of commands that a VM may start or end with an exception and
that are never answered (`CommandExecuter` says which those are).

Operators with a suffix (`Finish_Unlocked`, `ProcessCmdResult_NoAssert`, ...) are variants
of the operator defined after them, each with a bug one could plausibly write; putting one in
the place of the original makes TLC find the property listed with it in `PROJECT.json`
violated.  No specification uses them.

## Runs

| Run | Configuration | What it shows |
|---|---|---|
| host | 2 commands with 2 results, 2 names, 2 MAC addresses; connections, restarts, duplicated results, machines made and destroyed at any time | what is recorded is what was told; commands reach who joined; the dictionaries stay a partition and implement `CommandLifecycle` |
| broker | 3 connections, all subscribed; one publishes 2 messages, another, which may break or be misread, 1; the broker may be started again; room for 2 frames | nothing leaks, the lock is held only in a SEND and always released, one order for all; implements `TopicOrder` |
| executer | 3 commands, whose costs are powers of 2, all ways of ending, in every overlap | one result at the end, *finished* only what has exited, with its exit code, resources of exactly what was reaped meanwhile |
| healthy | host, 2 VMs, 2 commands, no faults, fairness | every command published for a VM that joined is answered; implements `CommandService` |
| breaks | host, 1 VM, 1 command, 2 connections each, the first of which may break, fairness | HELLO means the VM is listening, no unknown result, implements `CommandService`, both are subscribed again |
| crashes | host, 1 VM, 2 commands of which 1 is never answered; crashes, restarts, misread chunks | the same safety through crashes |
| restart_assertion | host restarts (violation) | the assertion of `processCmdResult` fails |
| hypervisor | 3 calls of any kind to machines of one name, any of whose requests may be refused or fail, restarts | sessions end with their calls and `createVM` is all or nothing, unless VirtualBox fails what the clean-up needs; every call ends |
| startup | the program's delays and timeout; the port changes at timers and at 20, 39, 40 and 55 s | the agent gives up only for a cause, and always decides; a port kept during the delay after a failure is closed before the next try; a broker whose port stays free serves again |
| stale_names | (violation) | a VM created later says HELLO and never joins |
| unanswered | 3 commands (violation) | a command whose process is ended by a signal is never answered |
| dead_subscriber | (violation) | a dead subscriber keeps a message from live ones |

The properties, by module:

- `CommandRegistry`: `RegistryPartition`, `NeverAnsweredTwice`, `DetailsAreStable` (an
  action property), `ImplementsLifecycle` (refinement with `ClientStatus`, `ClientAnswer`).
- `HostService`: `RecordedIffTold`, `ReachesWhoJoined`, `JoinedIsAddressable` (of
  `VMRegistry`); `AwareOfAvailable` is what the documentation asks.
- `BrokerStartup`: `GivesUpForCause` (an action property), `PortIsClosedAgain`, `HostDecides`
  and `ServesAgain` (liveness).
- `HyperVisor`: `SessionsEnd`, `WholeAtRest`, `EveryCallEnds` (liveness).
- `TopicBroker`: `NoLeakedSubscriber`, `LockDiscipline`; in `TopicClients`, with numbered
  messages, `SameOrderEverywhere`, `ImplementsOrder` (the refinement of `TopicOrder`),
  `BroadcastEnds` (liveness) and the docstring's `SentToAllSubscribers`.
- `CommandExecuter`: `OneResultAtTheEnd`, `FinishedTellsExitCode`, `ResourcesOfTheWindow`;
  `SignaledIsAnswered` is the documentation's.
- `CommandProtocol`: `ImplementsService`, `HelloMeansListening`, `AssertedResultIsKnown`,
  `EventuallyAnswered`, `Reconverges`.

### What the violations say

1. **A result after a restart** (`host/Host.py:125`).  A VM answers a command of the earlier
   process; the assertion fails, and the only answer is logged away.
2. **A VM created later** (`host/Host.py:37`).  The documentation (`wiki.txt:236`) wants the
   host "aware of all the available VMs" and to discard "those which [...] are no longer
   available"; the tables are taken once, so that a VM made afterwards, by `createVM` of the same
   agent, says HELLO and never joins.  Nor does one ever leave: nobody says BYE, and
   `Host.removeVM` (`host/Host.py:386`) takes no argument.
3. **A command ended by a signal** (`vm/CommandExecuter.py:119`).  The documentation
   (`wiki.txt:298`) has its result tell "the interrupting signal"; `%d` of the exit code, which
   is `None`, raises in the errback, and there is no result.
4. **A dead subscriber** (coilmq `topic.py:127`).  The docstring (`topic.py:111`) "Sends a
   message to all subscribers of destination"; an exception in one write ends the loop.

Not a run, as the code was never meant to do better: under breaks `EventuallyAnswered` fails,
one lost write (`host/Host.py:368`, `vm/VMStompEngine.py:61`) and a command is outstanding for
ever, while the documentation (`common/doc/wiki.txt:159`) has it "eventually answered back".
What is checked of a command that may be lost is `ImplementsService`, which says what cannot come
of it.  `BroadcastEnds` does not cover the client that never reads: it assumes that clients do.

Reading the code for the models also showed, without a run: `restoreSnapshot` and
`getPerformanceData` always raise a `NameError` (`VirtualBox.py:122`, `:187`); the rollback of
`createVM` reads `session` before it is bound when `saveSettings`, `registerMachine` or
`getSessionObject` raised (`VirtualBox.py:219`), so that the settings file stays, after
`getSessionObject` the registered machine too, and VirtualBox, asked not to override, may refuse
the name from then on; a process that exited with another code than zero is reported as not
*finished*, with its exit code where the signal should be (`vm/CommandExecuter.py:120`), while the
documentation (`wiki.txt:297-299`) calls it finished: `FinishedTellsExitCode` says only what
both agree on, that what is called finished has exited with that code.  A `path`
given to `runCmd` as plain text, as `wiki.txt` describes it, is no Python literal, so that
`safe_eval` raises in the VM and the command never runs (`vm/CommandExecuter.py:91`).  A result is popped before the
reply is written: a client that is gone by then has lost it.

What `GivesUpForCause` says in numbers: the tries of a broker whose port is taken from the
start come at 0, 1, 2.5, 4.75, 8.125, 13.2, 20.8, 32.2 and 49.3 seconds, the next at 74.9 s.  A
port that is free after (2*60 - 2)/3 = 39.3 s is always found in time; one released after the
try at 49.3 s is not, and the agent ends with a free port.  The delay is never reset: a
broker that failed while it served waits longer than the last time (`boinc-host-controller.py:49`).
During that delay it still listens: clients that connect again are accepted by the system,
wait in the backlog of a server that nobody runs, and are cut off when it is closed.
An agent that is restarted while VMs were connected can meet its own port in this way.

### Bounds, and why they are enough

- *Host agent*: 2 names and 2 MAC addresses, so that a machine can be made again under a name
  with another address and two machines can share one; 2 commands, so that one can be told
  while the other is lost.  A third of any adds no new relation between two of them; the
  theorems are for any number.
- *Start*: `MaxDelay` is the timeout: once the delay has passed it nothing new fails, and time
  stops when the agent runs and the broker sleeps or serves.  The moments 39 and 40 s are on both
  sides of the threshold of `GivesUpForCause`.
- *Connections* (`MaxConns` = 2): one that breaks and one that does not.  A third adds
  another break of the same kind; all state a break leaves behind (an old connection among the
  subscribers, a request or result cut off) exists with two.
- *Commands* (1 or 2) and *VMs* (1 or 2): commands do not share state in the registry or the
  protocol; two are enough for one to overtake or be confused with the other, two VMs for a
  command to reach the wrong one.
- `Room` = 3 (2 for the broker): the longest reaction is two frames, and with 3 a
  broadcast meets both a full and an empty socket.
- *Calls* = 3 in `MCHyperVisor`: the interferences are between two calls to one machine, and the
  third makes the machine.  Calls to machines of other names share nothing with them.
- `MaxMsgs` is 2 for one publisher of `MCTopicBroker`, so that its messages may come out of
  order or with a gap, and 1 for the other: a message of each already gives the two orders
  `SameOrderEverywhere` compares.  The theorems are for any number.
- `Break` and `VMCrash` leave the last connection of a client alone, `HostRestart` happens
  while every client has one left: these guards are the only way the bound on connections
  shows, and they say "from here on nothing breaks" at the end of the behaviours.

`CHECK_DEADLOCK FALSE` is set where the system may stop: when the bounded commands and
connections are used up, client, host and VMs wait for a call that the model does not make.

### Fairness

`FairSpec` has weak fairness of the host's and the VMs' reactions (a reactor reads what
arrives), of each handler thread of the broker and of the end of a broadcast (threads are
scheduled; a thread that waits for the lock gets it, as others release it: a new SEND is
needed for each time it is taken, and they are bounded), of the end of a command that runs,
and of `Reconnect` (`ReconnectingClientFactory` retries every 5 seconds and never stops).
`FairSpec` of `HyperVisor` has
weak fairness of the steps of every call (a thread of the pool runs, a request to VirtualBox
returns) and none of the VMs.  `FairSpec` of `BrokerStartup` has weak fairness of the broker's steps,
the agent's steps and time: both processes are scheduled and sleeps end; the port and the
failures of the server are left to others.  There is no fairness of faults, of the client's calls, or of boots.  `FairSpec` of
`TopicClients` has weak fairness of the broker and of the clients' reading, without which a
broadcast may block for ever in a full socket, as it does in the code.

## Proofs

TLAPS proves, for every value of the constants:

| Module | Theorem | Establishes |
|---|---|---|
| `CommandRegistryProofs` | `TypeCorrect`, `Partition`, `AnsweredOnce` | `Spec => []TypeOK`, `[]RegistryPartition`, `[]NeverAnsweredTwice` |
| | `DetailsStable` | `Spec => DetailsAreStable` |
| | `Refinement` | `Spec => ImplementsLifecycle` |
| `HostServiceProofs` | `PartyTypeCorrect`, `PartyAddresses` | `VMRegistry` by itself: `Spec => []TypeOK`, `[]JoinedIsAddressable` |
| | `HostTypeCorrect`, `Recording`, `Reaches`, `HostAddresses` | `SSpec => []STypeOK`, `[]RecordedIffTold`, `[]ReachesWhoJoined`, `[]JoinedIsAddressable` |
| | `ImplementsRegistry` | `SSpec => Spec` of `CommandRegistry` |
| | `HostKeepsCommands` | what is proved of the command registry holds of the agent |
| `BrokerStartupProofs` | `TypeCorrect`, `PortClosed`, `GivesUp` | `Spec => []TypeOK`, `[]PortIsClosedAgain`, `GivesUpForCause` |
| `CommandExecuterProofs` | `TypeCorrect`, `OneResult`, `Finished`, `Resources` | `ESpec => []ETypeOK`, `[]OneResultAtTheEnd`, `[]FinishedTellsExitCode`, `[]ResourcesOfTheWindow` |
| `HyperVisorProofs` | `TypeCorrect`, `SessionsEndWithCalls`, `CreatedWhole` | `Spec => []TypeOK`, `[]SessionsEnd`, `[]WholeAtRest` |
| `TopicBrokerProofs` | `TypeCorrect`, `NothingLeaks`, `LockIsDisciplined` | `BSpec => []BTypeOK`, `[]NoLeakedSubscriber`, `[]LockDiscipline` |
| `TopicClientsProofs` | `ClientsTypeCorrect`, `ClientsKeepBroker` | `CSpec => []CTypeOK`; the broker's two invariants hold with these clients |
| | `SameOrder` | `CSpec => []SameOrderEverywhere` |
| | `OrderIsKept` | `CSpec => ImplementsOrder` |
| `CommandProtocolProofs` | `TypeCorrect`, `HelloSafe` | `Spec => []TypeOK`, `[]HelloMeansListening` |
| | `HeardOnce` | under every fault, the host never hears a result of a command it has retired |
| | `Asserted` | `Spec => []AssertedResultIsKnown`, if the host is not restarted (`"restart" \notin Faults`) |
| | `Refinement` | `Spec => ImplementsService`: the whole exchange, under every fault, implements `CommandService` |

*Command registry.*  `NeverAnsweredTwice` is not inductive: a result accepted for a retired
command would break it, so it needs that a sent command is not handed out, and for that, that
every id in the dictionaries and among the results handed out was issued (ids are fresh), and
that a retired command still has its result or has handed it out.  `RegistryInv` is the
conjunction.  `DetailsAreStable` and the refinement follow from it step by step: each action
maps to the action of `CommandLifecycle` of that name, `RejectResult` to a stutter, a
`Restart` to `Forget`.  Assumption: `NoDetails` is not a request.

*VM registry.*  The proofs are in `HostServiceProofs`, about the instance `Party` that the
agent uses.  Its `RegistryInv` adds to `JoinedIsAddressable` that the second table reverses
the first and that a VM's name is the first table's.  That the reverse is a reverse rests on
`IdsToNamesMappings`: two ids never have one name, as a machine has one MAC address.  No
assumption on the constants is needed.

*Host agent.*  Seen through the variables of either registry, a step of the agent is a step of
that registry or leaves it alone, so that the invariants of the registries hold of the agent
and `ImplementsRegistry` gives it every theorem about the command registry.  `HostInv` adds
what ties the two together: `RecordedIffTold`, and `NamesLead`, that the tables still lead
from the name of a recorded command to the id it was sent to, without which `ReachesWhoJoined`
says nothing of a VM that joins later.  Assumption: requests hold a name and an id.

*Start of the broker.*  `GivesUpForCause` is about the last step only; `StartupInv` says
what holds before it: a delay is at most half the time that has passed since the start, and the
first delay, so that the next try is at most half as far again from the start as the last
one, and a port that is not taken has been free since the last try or later.  That the port may
be the broker's own while it sleeps, but only after it has served, keeps the two apart: before
the agent has heard of the broker, a try is in nobody's way but the others'.
`PortIsClosedAgain` then needs `Wakes`, which every try after a failure comes through.  Both
are proved for every delay and timeout.

*Command execution.*  `ExecuterInv` adds to the properties that a command that has said a
result is over, that a reaped one has an end, and that the counter of the children only
grows, so that no difference of it is negative.  `EndOfCommand` is the one step, of four
actions, that may say a result.  `ResourcesOfTheWindow` equates a difference of two readings of
a counter with a sum over the commands reaped between them.  The sum is the number of `Units`
of those commands, pairs of a command and a number up to its cost, so that it is a cardinality
and needs no induction: `UsedByOneMore` says that a command which is not among them adds its
cost.  `ResourceInv` says what holds before the end: from the start of a command on, the counter
has grown by what its window used; a command that was not reaped is in no window, so that a
`Reap` adds it to each window once; a command that was reaped is in its own.

*Hypervisor controller.*  `SessionsEnd` says nothing of which step a call is at; `SessionInv`
adds that a call holds a session only for the machine it works on, and only at the steps that
close it, or when it ended with a failure, and that `createVM` works on the machine of its own.
`WholeAtRest` needs `WholeInv` besides.  Its first part, `CompanyInv`, says that two calls at work
on one name both know that they are not alone, and that a machine has a direct session or runs,
never both.  The second is that nothing has a session to a machine or runs it before its
`createVM` has registered it, and that a `createVM` which is alone has the machine to itself.
The third is that what is about to be unregistered is closed, so that it can be, unless there
is an excuse.  An excuse (`Excused`: a call that was not alone, ended with the agent or failed)
stays for good, and a machine that is not whole has one, or a call at work that makes or rolls it
back (`Unfinished`).  `StepWhole` says what a step must keep of that, and `FailWhole` and
`GoWhole` are its two simple cases: a call that fails is itself the excuse, and a call that has
nothing to roll back needs none.  Assumptions: there is a name, and the commands are those of
`_execProgressCmd`.

*Broker.*  `BrokerInv` is the conjunction of the type invariant and the two properties,
which are inductive together: a thread subscribes its connection only while it is served, it
ends only when the lock is free, and nobody but the thread itself takes a frame from the front
of its queue.  The specification proved, `BSpec`, lets clients write any frames.
Assumption: `NoConn` is not a connection.

*Order of the messages.*  A step of `CSpec` is a step of the broker (`BrokerHolds`), so that
`BrokerInv` holds.  `OrderInv` adds the two ends of a message's way:

- `PublishInv`: the messages that wait in a publisher's queue are its own, each there once; one
  it wrote earlier was broadcast or waits in front (`Waiting`); only the one at the front may have
  been broadcast, while its thread holds the lock; while the connection is open none is
  missing (`NoneMissing`).  A break cuts off the end of the queue and lets nothing more be
  written, so that what is lost is lost from some message on and no gap arises;
- `HearInv`: no message is twice in `begun`; what a client has read, and behind it what is on
  its way to it, is a part of `begun` in its order (`InOrder`); and who is still to be written
  to in a broadcast has not been written its message, the last of `begun` (`NotYet`).

`SameOrder` compares two clients through `begun`.  For the refinement, `BeginSend` is
`Broadcast`, a `Read` of a message is `Hear`, a `Publish` is a `Publish`, and every other step a
stutter.  Assumptions (`ClientAssumptions`): interests are topics, bounds are numbers, and
the numbered messages are messages.

*The exchange.*  `CommandProtocolProofs` takes the invariants of broker and registry from
their proofs (both modules are instantiated as they are used; `SameBroker` and `SameRegistry`
say that the formulas are the same ones).  `ProtocolInv` adds to them

- `LocalInv`: a client's transport is its only open connection, and what a VM runs was sent to
  it;
- `HelloInv`: a HELLO on its way to the broker speaks of its own connection and stands behind
  the SUBSCRIBE, unless that was handled already;
- `TripInv`: the CMD_RUN of a command, and its CMD_RESULT, make one trip each.  The word is in
  one queue to the broker, once, and only after the client asked or the execution was over; from
  the write to its reader on, that place is the front of the queue of the thread that holds the
  lock, and the reader is not to be written to again; the reader has it once, and not any more
  when it has taken it.  This is why a command is executed at most once, and its result heard
  at most once;
- `ResultInv`: a CMD_RESULT, wherever it is, is that of a command that is over, from its target;
  what the host has retired is over;
- `KnownInv`: unless the host may be restarted, every command that was issued is sent or retired.

Most steps only move frames.  `OutFlow` and `InFlow` say that what is in the queues after
a step is new or was there before, in the same order; `TripFlow`, `ResultFlow` and
`HelloFlow` say what of the invariants that leaves in force, once for all steps.  What is left
are the six that say, pass on or hear a word: `RunCmdWords` and `ExecutionEndsWords` (both by
`SayWords`: the trip begins), `ServeWords`, `VMHearsCmdRunWords` and `HostHearsCmdResultWords`
(both by `TakeWords`: it is over), and `VMConnectedWords`.  `AssertedResultIsKnown` needs both
halves: by `KnownInv` the host knows the command of a result, by `TripInv` it has not heard its
result before, so that the command is not retired yet.  The second half, `HeardOnce`, needs
nothing of the faults; the first fails after a restart, as the run *restart_assertion*
shows.  For the refinement the registry's lemmas give the client's view, and `TripInv` and
`ResultInv` the execution.  Assumptions
(`ProtocolAssumptions`): the host is no VM, each command has a VM as its target, and the bounds
are numbers; nothing is assumed of which faults there are.

Every safety property that a passing run checks is proved.  Only model-checked is everything
under fairness (`EventuallyAnswered`, `Reconverges`, `BroadcastEnds`, `EveryCallEnds`,
`HostDecides`, `ServesAgain`), as TLAPS does not handle ENABLED.

## Plan

1. *(done)* `CommandLifecycle`, `CommandRegistry`, their run and proofs.
2. *(done)* `TopicBroker`, its run and proofs.
3. *(done)* `CommandService`, `CommandProtocol`, the runs healthy, breaks, crashes.
4. *(done)* `CommandExecuter`, `VMRegistry`.
5. *(done)* `HyperVisor`, its run and its first proofs.
6. *(done)* `BrokerStartup`, its run and proofs.
7. *(done)* `HostService`: the composition of the two registries, the service and the
   transport; its run, which takes the place of runs of the registries alone, and its proofs.
8. *(done)* Proofs of `CommandExecuter`, of `CommandProtocol` with its refinement, and of
   `WholeAtRest`.
9. *(done)* `TopicOrder` and `TopicClients`, which implements it; proofs of the order of the
   messages, of the resources of a command, and of the assertion of `processCmdResult`.
10. Left: `unpack_frame` on chunks, against a reference, to support `Misread`.

Out of the reach of the proofs and left to TLC: liveness under fairness, ENABLED, and what a
recursive definition computes for every input.

## Not modelled

VRDP ports (numbered by position among the machines at start, so that two may come to share
one, which nothing in the repository promises or reads), the start on Windows
(`VBoxHeadlessProcessProtocol` is no name), `help` of the XML-RPC service (it reads
signatures), `getController` (published by mistake, and never serializable), `destroyVM` over XML-RPC (the
controller does not offer it; in `HostService` it is an act of others), file transfers (`FileTxs` uses names it never imports), PING, PONG, BYE and STILL_ALIVE (no
code says them), the chirp server (its start is commented out), the superseded `words.py` and
`common/CommandExecuter.py` (nothing imports them), queues, transactions and acknowledgements
of coilmq (the agents use topics only), JSON and descriptors (data without state), logging,
configuration and packaging.
