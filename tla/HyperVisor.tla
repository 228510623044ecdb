------------------------------ MODULE HyperVisor ------------------------------
(***************************************************************************)
(* The controller of VirtualBox (host/controllers/VirtualBox.py).  A call  *)
(* runs in a thread of the pool, and is here a sequence of the requests it *)
(* makes of VirtualBox: other calls come between any two of them.  Each    *)
(* may raise: because VirtualBox refuses it in the state it is in, or      *)
(* because it fails of itself, at any time.                                *)
(*                                                                         *)
(* Of VirtualBox itself, which is not in the repository, this module takes *)
(* what the code relies on: names of registered machines are distinct; a   *)
(* machine has one direct session, held by a call or by the process that   *)
(* runs the VM; while there is one, openSession, openRemoteSession and     *)
(* unregisterMachine raise, and openExistingSession shares it.  What it    *)
(* may do besides, it may do here: a shared session outlives its owner if  *)
(* another takes over.                                                     *)
(***************************************************************************)
CONSTANTS Calls,        \* the calls; createVM makes the machine of its own name
          Names,        \* names of machines
          Commands      \* the operations of _execProgressCmd that are called

VARIABLES machines,     \* registered machines
          settings,     \* names for which a settings file is on disk
          whole,        \* machines saved with network, controller and disk
          owner,        \* machine -> {call that holds its direct session}, or {}
          vm,           \* machine -> state of the process that runs it
          call          \* what each call is doing

vars == <<machines, settings, whole, owner, vm, call>>

VMStates == {"off", "starting", "running", "paused", "ending"}
Operations == {"createVM", "destroyVM", "start"} \cup Commands

ASSUME NamesAssumption == Names # {}

ASSUME CommandsAssumption ==
  Commands \subseteq {"pause", "unpause", "powerOff", "saveState", "shutdown"}

NoCall(o) == [op |-> "none", name |-> CHOOSE n \in Names : TRUE, machine |-> o,
              at |-> "idle", progress |-> "none", answer |-> "none", company |-> "alone"]

Steps == {"idle", "save", "register", "open", "configure", "close", "unregister",
          "detach", "run", "wait", "done"}
\* "failed" is "raised", where a request failed of itself that the call has no clean-up
\* for, or that its clean-up rests on: what it had opened or registered stays.
AnswersOfCalls == {"none", "True", "False", "None", "raised", "failed"}
CallState == [op: Operations \cup {"none"}, name: Names, machine: Calls, at: Steps,
              progress: {"none", "running", "ok", "failed"},
              answer: AnswersOfCalls, company: {"alone", "met"}]

TypeOK ==
  /\ machines \subseteq Calls /\ settings \subseteq Names /\ whole \subseteq Calls
  /\ owner \in [Calls -> {{}} \cup {{o} : o \in Calls}]
  /\ vm \in [Calls -> VMStates]
  /\ call \in [Calls -> CallState]

Init == /\ machines = {} /\ settings = {} /\ whole = {}
        /\ owner = [m \in Calls |-> {}]
        /\ vm = [m \in Calls |-> "off"]
        /\ call = [o \in Calls |-> NoCall(o)]

-----------------------------------------------------------------------------
InProgress(o) == call[o].at \notin {"idle", "done"}
NameOf(m) == call[m].name
Closed(m) == owner[m] = {} /\ vm[m] = "off"      \* SessionState_Closed
Named(n) == {m \in machines : NameOf(m) = n}     \* _findMachineByNameOrId
Others(o, n) == {p \in Calls \ {o} : InProgress(p) /\ call[p].name = n}

\* The call begins; company notes of it, and of the calls that work on the same name
\* meanwhile, that they were not alone.
Begin(o, op, n, m, at, answer) ==
  /\ call[o].at = "idle"
  /\ call' = [p \in Calls |->
       IF p = o
       THEN [op |-> op, name |-> n, machine |-> m, at |-> at,
             progress |-> IF op = "start" THEN "running" ELSE "none", answer |-> answer,
             company |-> IF Others(o, n) = {} THEN "alone" ELSE "met"]
       ELSE [call[p] EXCEPT !.company = IF p \in Others(o, n) THEN "met" ELSE @]]

Goto(o, at) == call' = [call EXCEPT ![o].at = at]
Answers(o, answer) == call' = [call EXCEPT ![o].at = "done", ![o].answer = answer]
Take(o, m) == owner' = [owner EXCEPT ![m] = {o}]
Release(o, m) == owner' = [owner EXCEPT ![m] = @ \ {o}]   \* session.close()

-----------------------------------------------------------------------------
(* createVM *)

CreateVM(o, n) ==
  /\ \/ /\ Named(n) = {} /\ n \notin settings
        /\ Begin(o, "createVM", n, o, "save", "none")
     \/ Begin(o, "createVM", n, o, "done", "raised")   \* exists; no image; refused
  /\ UNCHANGED <<machines, settings, whole, owner, vm>>

\* What raises before there is a session raises again in the except clause, which reads
\* session.state: nothing is rolled back.  Here nothing was registered yet.
SaveSettings(o) ==
  /\ call[o].at = "save"
  /\ \/ settings' = settings \cup {call[o].name} /\ Goto(o, "register")
     \/ UNCHANGED settings /\ Answers(o, "raised")
  /\ UNCHANGED <<machines, whole, owner, vm>>

RegisterMachine(o) ==
  /\ call[o].at = "register"
  /\ \/ Named(call[o].name) = {} /\ machines' = machines \cup {o} /\ Goto(o, "open")
     \/ UNCHANGED machines /\ Answers(o, "raised")
  /\ UNCHANGED <<settings, whole, owner, vm>>

\* openSession raises and the rollback begins; or getSessionObject does, so that session
\* is unbound and the machine stays registered, as it does when session.state cannot be read.
OpenSession(o) ==
  /\ call[o].at = "open"
  /\ \/ o \in machines /\ Closed(o) /\ Take(o, o) /\ Goto(o, "configure")
     \/ UNCHANGED owner /\ (Goto(o, "unregister") \/ Answers(o, "failed"))
  /\ UNCHANGED <<machines, settings, whole, vm>>

\* The machine is to be unregistered while the session is still open.
Configure_NotClosed(o) ==
  /\ call[o].at = "configure"
  /\ \/ whole' = whole \cup {o} /\ Goto(o, "close") /\ UNCHANGED owner
     \/ Goto(o, "unregister") /\ UNCHANGED <<whole, owner>>
  /\ UNCHANGED <<machines, settings, vm>>

\* Network adapters, controller and disk, each saved.  The except clause closes the
\* session before it unregisters the machine, unless its state cannot be read or it
\* cannot be closed.
Configure(o) ==
  /\ call[o].at = "configure"
  /\ \/ whole' = whole \cup {o} /\ Goto(o, "close") /\ UNCHANGED owner
     \/ Release(o, o) /\ Goto(o, "unregister") /\ UNCHANGED whole
     \/ Answers(o, "failed") /\ UNCHANGED <<whole, owner>>
  /\ UNCHANGED <<machines, settings, vm>>

\* Not in the try: session.state and session.close() may fail.
Close(o) ==
  /\ call[o].at = "close"
  /\ \/ Release(o, o) /\ Answers(o, "True")
     \/ UNCHANGED owner /\ Answers(o, "failed")
  /\ UNCHANGED <<machines, settings, whole, vm>>

\* unregisterMachine and deleteSettings, in the rollback and in destroyVM: refused while
\* there is a session, and each may fail.  What comes after them may raise.
Unregister(o) == LET m == call[o].machine IN
  /\ call[o].at = "unregister"
  /\ IF m \in machines /\ Closed(m)
     THEN \/ /\ machines' = machines \ {m}
             /\ \/ UNCHANGED settings /\ Answers(o, "failed")
                \/ /\ settings' = settings \ {call[o].name}
                   /\ Answers(o, "raised") \/ (call[o].op = "destroyVM" /\ Answers(o, "True"))
          \/ UNCHANGED <<machines, settings>> /\ Answers(o, "failed")
     ELSE Answers(o, "raised") /\ UNCHANGED <<machines, settings>>
  /\ UNCHANGED <<whole, owner, vm>>

-----------------------------------------------------------------------------
(* Calls to a machine that exists *)

\* _getSessionForVM: the session that there is, or a direct one.  The call goes on
\* at the given step; when it gets no session it ends.
GetSession(o, op, n, at, otherwise) ==
  /\ \/ \E m \in Named(n) : /\ Begin(o, op, n, m, at, "none")
                            /\ \/ Closed(m) /\ Take(o, m)
                               \/ ~ Closed(m) /\ vm[m] # "starting" /\ UNCHANGED owner
     \/ Begin(o, op, n, o, "done", otherwise) /\ UNCHANGED owner
  /\ UNCHANGED <<machines, settings, whole, vm>>

DestroyVM(o, n) == GetSession(o, "destroyVM", n, "detach", "raised")

\* Devices are detached and the settings saved in a session that no other call or VM
\* has closed meanwhile.  What fails leaves the session open: there is no clean-up.
Detach(o) == LET m == call[o].machine IN
  /\ call[o].at = "detach"
  /\ \/ owner[m] # {} /\ whole' = whole \ {m} /\ Release(o, m) /\ Goto(o, "unregister")
     \/ owner[m] # {} /\ whole' \in {whole, whole \ {m}} /\ UNCHANGED owner /\ Answers(o, "failed")
     \/ owner[m] = {} /\ UNCHANGED <<whole, owner>> /\ Answers(o, "raised")
  /\ UNCHANGED <<machines, settings, vm>>

ExecProgressCmd(o, op, n) == GetSession(o, op, n, "run", "None")

\* What the console makes of an operation, in states in which it does not refuse it.
Accepts(op, s) == \/ op = "pause" /\ s = "running"
                  \/ op = "unpause" /\ s = "paused"
                  \/ op \in {"powerOff", "saveState", "shutdown"} /\ s \in {"running", "paused"}
Effect(op, s) == CASE op = "pause"   -> "paused"
                   [] op = "unpause" -> "running"
                   [] op = "shutdown" -> s         \* the guest decides
                   [] OTHER -> "ending"

\* The console accepts the operation and waits for it, or is done.
Operate(o) == LET m == call[o].machine IN
  /\ owner[m] # {o} /\ Accepts(call[o].op, vm[m])
  /\ vm' = [vm EXCEPT ![m] = Effect(call[o].op, @)]
  /\ IF vm'[m] = "ending"
     THEN call' = [call EXCEPT ![o].at = "wait", ![o].progress = "running"]
     ELSE Answers(o, "True")
  /\ UNCHANGED owner

\* An exception of the operation leaves the session open.
Run_NoFinally(o) ==
  /\ call[o].at = "run"
  /\ \/ UNCHANGED <<vm, owner>> /\ Answers(o, "raised")
     \/ Operate(o)
  /\ UNCHANGED <<machines, settings, whole>>

\* The machine has a console only in the session of a VM that runs: in a direct one the
\* operation raises.  The session is closed in every case (finally) once its state, its
\* console and its machine have been read; a state that is not open is answered with None.
\* These reads, in front of the try, and session.close() may fail.
Run(o) == LET m == call[o].machine IN
  /\ call[o].at = "run"
  /\ \/ UNCHANGED vm /\ Release(o, m) /\ (Answers(o, "raised") \/ Answers(o, "None"))
     \/ UNCHANGED <<vm, owner>> /\ Answers(o, "failed")
     \/ Operate(o)
  /\ UNCHANGED <<machines, settings, whole>>

\* openRemoteSession starts a process that holds the session of the machine.
Start(o, n) ==
  /\ \/ \E m \in Named(n) : /\ Closed(m)
                            /\ vm' = [vm EXCEPT ![m] = "starting"]
                            /\ Begin(o, "start", n, m, "wait", "none")
     \/ Begin(o, "start", n, o, "done", "raised") /\ UNCHANGED vm
  /\ UNCHANGED <<machines, settings, whole, owner>>

\* The progress may be impossible to read; the error of one that is not completed is
\* read by _reportError, which raises then.
Outcomes(progress) == {"raised", IF progress = "ok" THEN "True" ELSE "False"}

\* The call waits for as long as the operation takes.
Wait_Unbounded(o) ==
  /\ call[o].at = "wait" /\ call[o].progress # "running"
  /\ \E answer \in Outcomes(call[o].progress) : Answers(o, answer)
  /\ UNCHANGED <<machines, settings, whole, owner, vm>>

\* The progress is returned for the answer.
Wait_Progress(o) ==
  /\ call[o].at = "wait"
  /\ Answers(o, call[o].progress)
  /\ UNCHANGED <<machines, settings, whole, owner, vm>>

\* waitForCompletion ends with the operation or after WAITING_GRACE_MS, when what is not
\* yet completed is taken to have failed, though it goes on.
Wait(o) ==
  /\ call[o].at = "wait"
  /\ \E answer \in Outcomes(call[o].progress) : Answers(o, answer)
  /\ UNCHANGED <<machines, settings, whole, owner, vm>>

-----------------------------------------------------------------------------
(* VirtualBox and the agent *)

\* The process of a VM changes its state, and with it what is waited for.
VMProcess(m, from, to, outcome) ==
  /\ vm[m] = from
  /\ vm' = [vm EXCEPT ![m] = to]
  /\ call' = [p \in Calls |-> IF call[p].at = "wait" /\ call[p].machine = m
                               THEN [call[p] EXCEPT !.progress = IF @ = "running" THEN outcome ELSE @]
                               ELSE call[p]]
  /\ UNCHANGED <<machines, settings, whole, owner>>

VMStarts(m) == VMProcess(m, "starting", "running", "ok")
VMFailsToStart(m) == VMProcess(m, "starting", "off", "failed")
GuestShutsDown(m) == VMProcess(m, "running", "ending", "running")
VMEnds(m) == VMProcess(m, "ending", "off", "ok")

\* The threads of the agent end with it, VirtualBox closes their sessions, and the VMs
\* run on.  _initVRDPPorts opens a session after the other and closes each.
HostRestart == /\ call' = [o \in Calls |-> IF InProgress(o) THEN [call[o] EXCEPT !.at = "done"]
                                                           ELSE call[o]]
               /\ owner' = [m \in Calls |-> {}]
               /\ UNCHANGED <<machines, settings, whole, vm>>

CallStep(o) == \/ SaveSettings(o) \/ RegisterMachine(o) \/ OpenSession(o)
               \/ Configure(o) \/ Close(o) \/ Unregister(o)
               \/ Detach(o) \/ Run(o) \/ Wait(o)

Next == \/ \E o \in Calls : CallStep(o)
        \/ \E o \in Calls, n \in Names : \/ CreateVM(o, n) \/ DestroyVM(o, n) \/ Start(o, n)
                                        \/ \E op \in Commands : ExecProgressCmd(o, op, n)
        \/ \E m \in Calls : VMStarts(m) \/ VMFailsToStart(m) \/ GuestShutsDown(m) \/ VMEnds(m)
        \/ HostRestart

\* Threads run; nothing is assumed of the VMs.
Spec == Init /\ [][Next]_vars
FairSpec == Spec /\ \A o \in Calls : WF_vars(CallStep(o))

-----------------------------------------------------------------------------
\* A session ends with the call that opened it, whatever VirtualBox refuses and whoever
\* else works on the machine: a session that stays open would keep the machine from ever
\* being started again.  It stays only where VirtualBox failed a request that no clean-up
\* follows, or one of the clean-up itself.
SessionsEnd ==
  \A m, o \in Calls : owner[m] = {o} => InProgress(o) \/ call[o].answer = "failed"

\* What makes SessionsEnd inductive: a session is held by a call at a step that closes it,
\* for the machine the call works on.
SessionInv ==
  /\ TypeOK
  /\ \A o \in Calls : call[o].at \in {"save", "register", "open", "configure", "close"}
                     => call[o].machine = o
  /\ \A o \in Calls : call[o].at = "detach" => call[o].op = "destroyVM"
  /\ \A m, o \in Calls : owner[m] = {o} =>
       /\ call[o].machine = m
       /\ \/ call[o].at \in {"configure", "close", "detach", "run"}
          \/ call[o].at = "done" /\ call[o].answer = "failed"

\* createVM works all or nothing: a registered machine has its network, controller and
\* disk, or a call is still making or unmaking it, was not alone with it or ended with
\* the agent, or VirtualBox failed what the rollback rests on, or a part of it.
WholeAtRest ==
  \A m \in machines \ whole : \E o \in Calls :
    /\ call[o].machine = m
    /\ InProgress(o) \/ call[o].company = "met" \/ call[o].answer \in {"none", "failed"}

\* Who is not alone knows it: two calls at work on one name have met; the machine a call
\* works on has that name; and a machine has a session or runs, never both.
CompanyInv ==
  /\ \A o \in Calls : call[o].at = "idle" => call[o].company = "alone"
  /\ \A o \in Calls : call[o].at # "idle" => /\ call[call[o].machine].at # "idle"
                                           /\ call[o].name = NameOf(call[o].machine)
  /\ \A o, p \in Calls : o # p /\ InProgress(o) /\ InProgress(p) /\ call[o].name = call[p].name
                        => call[o].company = "met"
  /\ \A m \in Calls : owner[m] = {} \/ vm[m] = "off"

\* What makes WholeAtRest inductive: a machine exists, has a session or runs only once its
\* createVM has registered it; a createVM that is alone has the machine to itself; what is
\* to be unregistered is closed, and a machine that is not whole is still worked on, unless
\* there is an excuse that stays.
Exists(m) == m \in machines \/ owner[m] # {} \/ vm[m] # "off"
Excused(o, m) == /\ call[o].machine = m
                 /\ \/ call[o].company = "met"
                    \/ call[o].at = "done" /\ call[o].answer \in {"none", "failed"}
Unfinished(o, m) == \/ Excused(o, m)
                    \/ call[o].machine = m /\ call[o].at \in {"open", "configure", "unregister"}
WholeInv ==
  /\ CompanyInv
  /\ \A o \in Calls : call[o].at \in {"save", "register", "open", "configure", "close"}
                     => call[o].op = "createVM"
  /\ \A o \in Calls : call[o].op = "createVM" => call[o].machine = o
  /\ \A o \in Calls : InProgress(o) => call[o].answer = "none"
  /\ \A m \in Calls : Exists(m) => /\ call[m].op = "createVM"
                                  /\ call[m].at \notin {"idle", "save", "register"}
  /\ \A m \in Calls :
       call[m].op = "createVM" /\ InProgress(m) /\ call[m].company = "alone"
         => vm[m] = "off" /\ owner[m] \subseteq {m}
  /\ \A d \in Calls : call[d].at = "unregister" =>
       Closed(call[d].machine) \/ \E o \in Calls : Excused(o, call[d].machine)
  /\ \A m \in machines \ whole : \E o \in Calls : Unfinished(o, m)

\* Every call gives its thread back to the pool, also when the VM it waits for never
\* starts or never ends.
EveryCallEnds == \A o \in Calls : InProgress(o) ~> ~ InProgress(o)
=============================================================================
