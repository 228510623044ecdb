-------------------------- MODULE CommandExecuter ---------------------------
(***************************************************************************)
(* The execution of commands inside one virtual machine                    *)
(* (vm/CommandExecuter.py, CMD_RUN of vm/VMWords.py).  Each CMD_RUN gets   *)
(* an executer of its own; its process is reaped by the reactor, and later *)
(* its ProcessProtocol hears processEnded, once its pipes are closed too.  *)
(* Then the callbacks attached to its Deferred run one after the other:    *)
(* getExecutionResults, errorHandler as errback, dealWithExecutionResults. *)
(*                                                                         *)
(* The resources of a command are the growth of RUSAGE_CHILDREN, which is  *)
(* shared by all the commands of the VM, between two moments of it.        *)
(***************************************************************************)
EXTENDS Integers, FiniteSets

CONSTANTS CmdIds,
          Cost          \* the resources the process of each command uses

ASSUME CostAssumption == Cost \in [CmdIds -> Nat]

VARIABLES stage,        \* how far each command is
          exit,         \* how its process ended
          usageStart,   \* _execResUsage of its executer
          usageChildren,\* RUSAGE_CHILDREN of the controller
          said,         \* CMD_RESULTs given to sendMsg
          window        \* history: commands reaped during the execution of each

evars == <<stage, exit, usageStart, usageChildren, said, window>>

Exits == {"zero", "nonzero", "signaled"}
Codes == {"0", "n", "-1"}

ETypeOK == /\ stage \in [CmdIds -> {"none", "running", "reaped", "over"}]
           /\ exit \in [CmdIds -> Exits \cup {"none"}]
           /\ usageStart \in [CmdIds -> Nat]
           /\ usageChildren \in Nat
           /\ said \subseteq [id : CmdIds, finished : BOOLEAN, code : Codes, usage : Nat]
           /\ window \in [CmdIds -> SUBSET CmdIds]

EInit == /\ stage = [id \in CmdIds |-> "none"]
         /\ exit = [id \in CmdIds |-> "none"]
         /\ usageStart = [id \in CmdIds |-> 0]
         /\ usageChildren = 0
         /\ said = {}
         /\ window = [id \in CmdIds |-> {}]

-----------------------------------------------------------------------------
(* What goes along the Deferred's callbacks: a success or a failure *)

Success(finished, code) == [ok |-> TRUE, finished |-> finished, code |-> code]
Failure(code)           == [ok |-> FALSE, finished |-> FALSE, code |-> code]
Raised                  == Failure("exception")

ProcessResult(how) == CASE how = "zero"     -> Success(TRUE, "0")
                        [] how = "nonzero"  -> Failure("n")
                        [] how = "signaled" -> Failure("None")

GetExecutionResults(d) == IF d.ok THEN Success(TRUE, d.code) ELSE d

\* The exit code is not logged with %d: None goes into the result.
ErrorHandler_NotLogged(d) == IF d.ok THEN d ELSE Success(FALSE, d.code)

\* An exitCode of None cannot be logged with %d: the errback raises.
ErrorHandler(d) == IF d.ok THEN d
                   ELSE IF d.code = "None" THEN Raised ELSE Success(FALSE, d.code)

\* The errback is attached in front of the callback, which then calls what it
\* recovered finished.
Chain_ErrbackFirst(d) == GetExecutionResults(ErrorHandler(d))

Chain(d) == ErrorHandler(GetExecutionResults(d))

\* A result whose output is not UTF-8 cannot be serialized.
Says(id, d, usage, serializable) ==
  said' = IF d.ok /\ serializable
          THEN said \cup {[id |-> id, finished |-> d.finished, code |-> d.code, usage |-> usage]}
          ELSE said

-----------------------------------------------------------------------------
\* The file for stdin cannot be opened: the Deferred has already failed, and the
\* callbacks run at once.
FailsToOpenStdin(id) ==
  /\ stage[id] = "none"
  /\ stage' = [stage EXCEPT ![id] = "over"]
  /\ usageStart' = [usageStart EXCEPT ![id] = usageChildren]
  /\ Says(id, Chain(Failure("-1")), usageChildren - usageStart'[id], TRUE)
  /\ UNCHANGED <<exit, usageChildren, window>>

\* A parameter is no Python literal, or the process cannot be spawned: the
\* exception goes up to react(), and there is no Deferred.
Rejects(id) ==
  /\ stage[id] = "none"
  /\ stage' = [stage EXCEPT ![id] = "over"]
  /\ UNCHANGED <<exit, usageStart, usageChildren, said, window>>

Spawns(id) ==
  /\ stage[id] = "none"
  /\ stage' = [stage EXCEPT ![id] = "running"]
  /\ usageStart' = [usageStart EXCEPT ![id] = usageChildren]
  /\ UNCHANGED <<exit, usageChildren, said, window>>

ExecuteCommand(id) == FailsToOpenStdin(id) \/ Rejects(id) \/ Spawns(id)

\* The process has ended and the reactor waits for it: its resources now count
\* among those of the children.
Reap(id) ==
  /\ stage[id] = "running"
  /\ stage' = [stage EXCEPT ![id] = "reaped"]
  /\ \E how \in Exits : exit' = [exit EXCEPT ![id] = how]
  /\ usageChildren' = usageChildren + Cost[id]
  /\ window' = [j \in CmdIds |-> IF stage[j] \in {"running", "reaped"}
                                 THEN window[j] \cup {id} ELSE window[j]]
  /\ UNCHANGED <<usageStart, said>>

\* The end is measured from zero, not from the start of the command.
ProcessEnded_NoStart(id) ==
  /\ stage[id] = "reaped"
  /\ stage' = [stage EXCEPT ![id] = "over"]
  /\ \E serializable \in BOOLEAN :
       Says(id, Chain(ProcessResult(exit[id])), usageChildren, serializable)
  /\ UNCHANGED <<exit, usageStart, usageChildren, window>>

\* The protocol stays alive, and hears processEnded again.
ProcessEnded_Again(id) ==
  /\ stage[id] = "reaped"
  /\ stage' \in {stage, [stage EXCEPT ![id] = "over"]}
  /\ \E serializable \in BOOLEAN :
       Says(id, Chain(ProcessResult(exit[id])), usageChildren - usageStart[id], serializable)
  /\ UNCHANGED <<exit, usageStart, usageChildren, window>>

ProcessEnded(id) ==
  /\ stage[id] = "reaped"
  /\ stage' = [stage EXCEPT ![id] = "over"]
  /\ \E serializable \in BOOLEAN :
       Says(id, Chain(ProcessResult(exit[id])), usageChildren - usageStart[id], serializable)
  /\ UNCHANGED <<exit, usageStart, usageChildren, window>>

ENext == \E id \in CmdIds : ExecuteCommand(id) \/ Reap(id) \/ ProcessEnded(id)

ESpec == EInit /\ [][ENext]_evars

-----------------------------------------------------------------------------
ResultsOf(id) == {r \in said : r.id = id}

\* A command says at most one result, and none before its process was waited for
\* and its pipes were closed.
OneResultAtTheEnd == \A id \in CmdIds : /\ Cardinality(ResultsOf(id)) <= 1
                                        /\ ResultsOf(id) # {} => stage[id] = "over"

ExitCodeOf(how) == IF how = "zero" THEN "0" ELSE "n"

\* The documentation: "finished" tells a command that finished from one that was signaled,
\* and comes with its exit code.  So it does: nothing that was interrupted, or never ran,
\* is called finished, whatever failure the callbacks have passed on.
FinishedTellsExitCode ==
  \A r \in said : r.finished => /\ exit[r.id] \in {"zero", "nonzero"}
                                /\ r.code = ExitCodeOf(exit[r.id])

\* What the processes of some commands use together: the units of all of them.
Units(js) == UNION {{j} \X (1 .. Cost[j]) : j \in js}
Used(js) == Cardinality(Units(js))

\* Whatever ran at the same time, the resources said for a command are exactly
\* those of the commands reaped between its start and its end, its own included
\* when it had a process: RUSAGE_CHILDREN is read at both ends of every command,
\* and commands that overlap are counted in each other's results.
ResourcesOfTheWindow ==
  \A r \in said : /\ r.usage = Used(window[r.id])
                  /\ exit[r.id] # "none" => r.id \in window[r.id]

\* The documentation: the result of a command that was signaled tells the interrupting
\* signal.  So there is one.
SignaledIsAnswered ==
  \A id \in CmdIds : stage[id] = "over" /\ exit[id] = "signaled" => ResultsOf(id) # {}
=============================================================================
