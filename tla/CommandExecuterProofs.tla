----------------------- MODULE CommandExecuterProofs ------------------------
(***************************************************************************)
(* Proofs about CommandExecuter: its types, one result for each command,   *)
(* what "finished" means, and which resources a result speaks of.          *)
(***************************************************************************)
EXTENDS CommandExecuter, FiniteSetTheorems, TLAPS

\* A process has ended if and only if it was reaped; the counter of the children only
\* grows; who has said a result is over and has said only that one.
ExecuterInv ==
  /\ ETypeOK
  /\ \A id \in CmdIds : usageStart[id] <= usageChildren
  /\ \A id \in CmdIds : stage[id] \in {"none", "running"} => exit[id] = "none"
  /\ \A id \in CmdIds : stage[id] = "reaped" => exit[id] \in Exits
  /\ \A r \in said : stage[r.id] = "over"
  /\ \A r, s \in said : r.id = s.id => r = s
  /\ FinishedTellsExitCode

\* What the chain of callbacks makes of an end of a process: a result that is finished only
\* with the exit code there is, or the failure of the errback itself.
LEMMA ChainOfEnd ==
  ASSUME NEW how \in Exits
  PROVE  LET d == Chain(ProcessResult(how))
         IN  d.ok => /\ d.finished \in BOOLEAN /\ d.code \in Codes
                     /\ d.finished => how \in {"zero", "nonzero"} /\ d.code = ExitCodeOf(how)
BY DEF ExitCodeOf, Chain, ProcessResult, ErrorHandler, GetExecutionResults, Success, Failure, Raised,
       Exits, Codes

\* A file for stdin that cannot be opened gives a result that is not finished.
LEMMA ChainOfNoStdin ==
  /\ Chain(Failure("-1")).ok
  /\ Chain(Failure("-1")).finished = FALSE
  /\ Chain(Failure("-1")).code \in Codes
BY DEF Chain, ErrorHandler, GetExecutionResults, Success, Failure, Raised, Codes

\* Says adds at most one result.
LEMMA SaysOne ==
  ASSUME NEW id, NEW d, NEW usage, NEW serializable, Says(id, d, usage, serializable)
  PROVE  \/ said' = said
         \/ /\ d.ok
            /\ said' = said \cup {[id |-> id, finished |-> d.finished, code |-> d.code,
                                   usage |-> usage]}
BY DEF Says

\* The last step of a command, with or without a result: what the invariant needs of it.
LEMMA EndOfCommand ==
  ASSUME ExecuterInv, NEW id \in CmdIds,
         stage[id] # "over",
         stage' = [stage EXCEPT ![id] = "over"],
         usageStart' \in [CmdIds -> Nat],
         \A j \in CmdIds : usageStart'[j] <= usageChildren,
         UNCHANGED <<exit, usageChildren, window>>,
         \/ said' = said
         \/ \E finished \in BOOLEAN, code \in Codes, usage \in Nat :
              /\ finished => exit[id] \in {"zero", "nonzero"} /\ code = ExitCodeOf(exit[id])
              /\ said' = said \cup {[id |-> id, finished |-> finished, code |-> code,
                                     usage |-> usage]}
  PROVE  ExecuterInv'
<1>1. CASE said' = said
  BY <1>1 DEF ExecuterInv, ETypeOK, FinishedTellsExitCode
<1>2. CASE \E finished \in BOOLEAN, code \in Codes, usage \in Nat :
             /\ finished => exit[id] \in {"zero", "nonzero"} /\ code = ExitCodeOf(exit[id])
             /\ said' = said \cup {[id |-> id, finished |-> finished, code |-> code,
                                    usage |-> usage]}
  <2>1. PICK finished \in BOOLEAN, code \in Codes, usage \in Nat :
             /\ finished => exit[id] \in {"zero", "nonzero"} /\ code = ExitCodeOf(exit[id])
             /\ said' = said \cup {[id |-> id, finished |-> finished, code |-> code,
                                    usage |-> usage]}
    BY <1>2
  <2> DEFINE new == [id |-> id, finished |-> finished, code |-> code, usage |-> usage]
  <2>2. /\ new \in [id : CmdIds, finished : BOOLEAN, code : Codes, usage : Nat]
        /\ new.id = id
        /\ new.finished => exit[id] \in {"zero", "nonzero"} /\ new.code = ExitCodeOf(exit[id])
    BY <2>1
  <2>3. said' = said \cup {new}
    BY <2>1
  <2> HIDE DEF new
  <2>4. \A r \in said : r.id \in CmdIds /\ r.id # id
    BY DEF ExecuterInv, ETypeOK
  <2>5. ETypeOK'
    BY <2>2, <2>3 DEF ExecuterInv, ETypeOK
  <2>6. \A r \in said' : stage'[r.id] = "over"
    BY <2>2, <2>3, <2>4 DEF ExecuterInv, ETypeOK
  <2>7. \A r, s \in said' : r.id = s.id => r = s
    BY <2>2, <2>3, <2>4 DEF ExecuterInv
  <2>8. FinishedTellsExitCode'
    BY <2>2, <2>3 DEF ExecuterInv, FinishedTellsExitCode
  <2> QED BY <2>5, <2>6, <2>7, <2>8 DEF ExecuterInv, ETypeOK
<1> QED BY <1>1, <1>2

LEMMA InitInv == EInit => ExecuterInv
BY DEF EInit, ExecuterInv, ETypeOK, FinishedTellsExitCode

LEMMA NextInv ==
  ASSUME ExecuterInv, [ENext]_evars
  PROVE  ExecuterInv'
<1> USE CostAssumption
<1>1. ASSUME NEW id \in CmdIds, FailsToOpenStdin(id)
      PROVE  ExecuterInv'
  <2>1. usageStart' \in [CmdIds -> Nat] /\ usageStart'[id] = usageChildren
    BY <1>1 DEF FailsToOpenStdin, ExecuterInv, ETypeOK
  <2>2. \A j \in CmdIds : usageStart'[j] <= usageChildren
    BY <1>1 DEF FailsToOpenStdin, ExecuterInv, ETypeOK
  <2>3. usageChildren - usageStart'[id] = 0
    BY <2>1 DEF ExecuterInv, ETypeOK
  <2>4. exit[id] = "none" /\ stage[id] # "over"
    BY <1>1 DEF FailsToOpenStdin, ExecuterInv
  <2>5. \/ said' = said
        \/ said' = said \cup {[id |-> id, finished |-> FALSE,
                               code |-> Chain(Failure("-1")).code, usage |-> 0]}
    <3>1. Says(id, Chain(Failure("-1")), 0, TRUE)
      BY <1>1, <2>3 DEF FailsToOpenStdin
    <3> QED BY <3>1, SaysOne, ChainOfNoStdin
  <2> QED BY <1>1, <2>1, <2>2, <2>4, <2>5, ChainOfNoStdin, EndOfCommand DEF FailsToOpenStdin
<1>2. ASSUME NEW id \in CmdIds, Rejects(id)
      PROVE  ExecuterInv'
  <2>1. usageStart' \in [CmdIds -> Nat] /\ \A j \in CmdIds : usageStart'[j] <= usageChildren
    BY <1>2 DEF Rejects, ExecuterInv, ETypeOK
  <2> QED BY <1>2, <2>1, EndOfCommand DEF Rejects
<1>3. ASSUME NEW id \in CmdIds, Spawns(id)
      PROVE  ExecuterInv'
  BY <1>3 DEF Spawns, ExecuterInv, ETypeOK, FinishedTellsExitCode
<1>4. ASSUME NEW id \in CmdIds, Reap(id)
      PROVE  ExecuterInv'
  <2>1. PICK how \in Exits : exit' = [exit EXCEPT ![id] = how]
    BY <1>4 DEF Reap
  <2>2. usageChildren' \in Nat /\ usageChildren <= usageChildren'
    BY <1>4 DEF Reap, ExecuterInv, ETypeOK
  <2>3. ETypeOK'
    BY <1>4, <2>1, <2>2 DEF Reap, ExecuterInv, ETypeOK
  <2>4. \A j \in CmdIds : usageStart'[j] <= usageChildren'
    BY <1>4, <2>2 DEF Reap, ExecuterInv, ETypeOK
  <2>5. \A r \in said : r.id \in CmdIds /\ r.id # id
    BY <1>4 DEF Reap, ExecuterInv, ETypeOK
  <2>6. FinishedTellsExitCode'
    BY <1>4, <2>1, <2>5 DEF Reap, ExecuterInv, ETypeOK, FinishedTellsExitCode
  <2> QED BY <1>4, <2>1, <2>3, <2>4, <2>5, <2>6 DEF Reap, ExecuterInv, ETypeOK
<1>5. ASSUME NEW id \in CmdIds, ProcessEnded(id)
      PROVE  ExecuterInv'
  <2> DEFINE usage == usageChildren - usageStart[id]
             d     == Chain(ProcessResult(exit[id]))
  <2>1. usage \in Nat
    BY DEF ExecuterInv, ETypeOK
  <2>2. exit[id] \in Exits
    BY <1>5 DEF ProcessEnded, ExecuterInv
  <2>3. d.ok => /\ d.finished \in BOOLEAN /\ d.code \in Codes
                /\ d.finished => exit[id] \in {"zero", "nonzero"} /\ d.code = ExitCodeOf(exit[id])
    BY <2>2, ChainOfEnd
  <2>4. PICK serializable \in BOOLEAN : Says(id, d, usage, serializable)
    BY <1>5 DEF ProcessEnded
  <2> HIDE DEF usage, d
  <2>5. \/ said' = said
        \/ \E finished \in BOOLEAN, code \in Codes, u \in Nat :
             /\ finished => exit[id] \in {"zero", "nonzero"} /\ code = ExitCodeOf(exit[id])
             /\ said' = said \cup {[id |-> id, finished |-> finished, code |-> code,
                                    usage |-> u]}
    BY <2>1, <2>3, <2>4, SaysOne
  <2>6. usageStart' \in [CmdIds -> Nat] /\ \A j \in CmdIds : usageStart'[j] <= usageChildren
    BY <1>5 DEF ProcessEnded, ExecuterInv, ETypeOK
  <2> QED BY <1>5, <2>5, <2>6, EndOfCommand DEF ProcessEnded
<1>6. CASE UNCHANGED evars
  BY <1>6 DEF evars, ExecuterInv, ETypeOK, FinishedTellsExitCode
<1> QED BY <1>1, <1>2, <1>3, <1>4, <1>5, <1>6 DEF ENext, ExecuteCommand

\* Everything below rests on this invariant of the executer.
THEOREM Invariance == ESpec => []ExecuterInv
BY InitInv, NextInv, PTL DEF ESpec

\* The commands of a VM, how their processes ended and what was said of them are of their
\* types: no exit code of None reaches a CMD_RESULT, whose %d could not format it.
THEOREM TypeCorrect == ESpec => []ETypeOK
<1>1. ExecuterInv => ETypeOK
  BY DEF ExecuterInv
<1> QED BY <1>1, Invariance, PTL

\* Whatever commands overlap, each says at most one result, and none before it is over
\* (processEnded calls the Deferred of its own executer, once).
THEOREM OneResult == ESpec => []OneResultAtTheEnd
<1>1. ExecuterInv => OneResultAtTheEnd
  <2> SUFFICES ASSUME ExecuterInv, NEW id \in CmdIds
               PROVE  /\ Cardinality(ResultsOf(id)) <= 1
                      /\ ResultsOf(id) # {} => stage[id] = "over"
    BY DEF OneResultAtTheEnd
  <2>1. ResultsOf(id) # {} => stage[id] = "over"
    BY DEF ResultsOf, ExecuterInv
  <2>2. CASE ResultsOf(id) = {}
    BY <2>1, <2>2, FS_EmptySet
  <2>3. CASE ResultsOf(id) # {}
    <3>1. PICK r : r \in ResultsOf(id)
      BY <2>3
    <3>2. ResultsOf(id) = {r}
      BY <3>1 DEF ResultsOf, ExecuterInv
    <3>3. Cardinality({r}) = 1
      BY FS_Singleton
    <3> QED BY <2>1, <3>2, <3>3
  <2> QED BY <2>2, <2>3
<1> QED BY <1>1, Invariance, PTL

\* Only a command that has exited is called finished, with its exit code: the errback behind
\* the callback never turns the failure of one that was signaled or never ran into that.
THEOREM Finished == ESpec => []FinishedTellsExitCode
<1>1. ExecuterInv => FinishedTellsExitCode
  BY DEF ExecuterInv
<1> QED BY <1>1, Invariance, PTL

-----------------------------------------------------------------------------
(* The resources of a command *)

\* Nothing is used by no command; one command more adds its cost.
LEMMA UsedByNone == Used({}) = 0
<1>1. Units({}) = {}
  BY DEF Units
<1> QED BY <1>1, FS_EmptySet DEF Used

LEMMA UsedByOneMore ==
  ASSUME NEW js \in SUBSET CmdIds, IsFiniteSet(Units(js)), NEW id \in CmdIds, id \notin js
  PROVE  /\ IsFiniteSet(Units(js \cup {id}))
         /\ Used(js \cup {id}) = Used(js) + Cost[id]
<1> DEFINE own == {id} \X (1 .. Cost[id])
<1>1. Cost[id] \in Nat
  BY CostAssumption
<1>2. IsFiniteSet(1 .. Cost[id]) /\ Cardinality(1 .. Cost[id]) = Cost[id]
  BY <1>1, FS_Interval
<1>3. IsFiniteSet({id}) /\ Cardinality({id}) = 1
  BY FS_Singleton
<1>4. IsFiniteSet(own) /\ Cardinality(own) = Cost[id]
  <2>1. IsFiniteSet(own) /\ Cardinality(own) = Cardinality({id}) * Cardinality(1 .. Cost[id])
    BY <1>2, <1>3, FS_Product
  <2> QED BY <1>1, <1>2, <1>3, <2>1
<1>5. Units(js \cup {id}) = Units(js) \cup own
  BY DEF Units
<1>6. Units(js) \cap own = {}
  BY DEF Units
<1> HIDE DEF own
<1>7. /\ IsFiniteSet(Units(js) \cup own)
      /\ Cardinality(Units(js) \cup own) = Cardinality(Units(js)) + Cost[id] - Cardinality({})
  BY <1>4, <1>6, FS_Union
<1>8. Cardinality({}) = 0 /\ Cardinality(Units(js)) \in Nat
  BY FS_EmptySet, FS_CardinalityType
<1>9. Cardinality(Units(js) \cup own) = Cardinality(Units(js)) + Cost[id]
  BY <1>1, <1>7, <1>8
<1>10. /\ IsFiniteSet(Units(js \cup {id}))
       /\ Cardinality(Units(js \cup {id})) = Cardinality(Units(js)) + Cost[id]
  BY <1>5, <1>7, <1>9, Zenon
<1> QED BY <1>10 DEF Used

\* Between its start and its end the counter of the children has grown by what the
\* commands of its window used, each of which was counted once.
ResourceInv ==
  /\ \A id \in CmdIds : IsFiniteSet(Units(window[id]))
  /\ \A id \in CmdIds : stage[id] = "none" => window[id] = {}
  /\ \A id \in CmdIds : stage[id] \in {"none", "running"} =>
       \A j \in CmdIds : id \notin window[j]
  /\ \A id \in CmdIds : stage[id] \in {"running", "reaped"} =>
       usageChildren = usageStart[id] + Used(window[id])
  /\ \A id \in CmdIds : stage[id] = "reaped" => id \in window[id]
  /\ ResourcesOfTheWindow

LEMMA InitResources == EInit => ResourceInv
<1>1. IsFiniteSet(Units({}))
  BY FS_EmptySet DEF Units
<1> QED BY <1>1 DEF EInit, ResourceInv, ResourcesOfTheWindow

\* The end of a command whose result, if it says one, is about its window.
LEMMA EndOfWindow ==
  ASSUME ExecuterInv, ResourceInv, NEW id \in CmdIds, stage[id] # "over",
         stage' = [stage EXCEPT ![id] = "over"],
         \A j \in CmdIds \ {id} : usageStart'[j] = usageStart[j],
         UNCHANGED <<exit, usageChildren, window>>,
         exit[id] # "none" => id \in window[id],
         \A r \in said' : r \in said \/ (r.id = id /\ r.usage = Used(window[id]))
  PROVE  ResourceInv'
<1>1. \A j \in CmdIds : stage'[j] = IF j = id THEN "over" ELSE stage[j]
  BY DEF ExecuterInv, ETypeOK
<1>2. ResourcesOfTheWindow'
  <2> SUFFICES ASSUME NEW r \in said'
               PROVE  /\ r.usage = Used(window[r.id])
                      /\ exit[r.id] # "none" => r.id \in window[r.id]
    BY DEF ResourcesOfTheWindow, Used, Units
  <2> QED BY DEF ResourceInv, ResourcesOfTheWindow
<1>3. \A j \in CmdIds : /\ IsFiniteSet(Units(window'[j]))
                        /\ Used(window'[j]) = Used(window[j])
  BY DEF ResourceInv
<1> QED BY <1>1, <1>2, <1>3 DEF ResourceInv, Units, Used

LEMMA NextResources ==
  ASSUME ExecuterInv, ResourceInv, [ENext]_evars
  PROVE  ResourceInv'
<1>1. ASSUME NEW id \in CmdIds, FailsToOpenStdin(id)
      PROVE  ResourceInv'
  <2>1. usageStart'[id] = usageChildren
        /\ \A j \in CmdIds \ {id} : usageStart'[j] = usageStart[j]
    BY <1>1 DEF FailsToOpenStdin, ExecuterInv, ETypeOK
  <2>2. usageChildren - usageStart'[id] = 0
    BY <2>1 DEF ExecuterInv, ETypeOK
  <2>3. Says(id, Chain(Failure("-1")), 0, TRUE)
    BY <1>1, <2>2 DEF FailsToOpenStdin
  <2>4. Used(window[id]) = 0 /\ exit[id] = "none"
    BY <1>1, UsedByNone DEF FailsToOpenStdin, ResourceInv, ExecuterInv
  <2>5. \A r \in said' : r \in said \/ (r.id = id /\ r.usage = Used(window[id]))
    <3> DEFINE new == [id |-> id, finished |-> Chain(Failure("-1")).finished,
                       code |-> Chain(Failure("-1")).code, usage |-> 0]
    <3>1. said' = said \/ said' = said \cup {new}
      BY <2>3, SaysOne
    <3>2. new.id = id /\ new.usage = 0
      OBVIOUS
    <3> HIDE DEF new
    <3> QED BY <2>4, <3>1, <3>2
  <2> QED BY <1>1, <2>1, <2>4, <2>5, EndOfWindow DEF FailsToOpenStdin
<1>2. ASSUME NEW id \in CmdIds, Rejects(id)
      PROVE  ResourceInv'
  <2>1. exit[id] = "none"
    BY <1>2 DEF Rejects, ExecuterInv
  <2> QED BY <1>2, <2>1, EndOfWindow DEF Rejects
<1>3. ASSUME NEW id \in CmdIds, Spawns(id)
      PROVE  ResourceInv'
  <2>1. \A j \in CmdIds : /\ stage'[j] = IF j = id THEN "running" ELSE stage[j]
                          /\ usageStart'[j] = IF j = id THEN usageChildren ELSE usageStart[j]
    BY <1>3 DEF Spawns, ExecuterInv, ETypeOK
  <2>2. Used(window[id]) = 0 /\ stage[id] = "none"
    BY <1>3, UsedByNone DEF Spawns, ResourceInv
  <2>3. usageChildren \in Nat /\ UNCHANGED <<exit, usageChildren, said, window>>
    BY <1>3 DEF Spawns, ExecuterInv, ETypeOK
  <2>4. ResourcesOfTheWindow'
    BY <2>3 DEF ResourceInv, ResourcesOfTheWindow, Used, Units
  <2>5. \A j \in CmdIds : /\ IsFiniteSet(Units(window'[j]))
                          /\ Used(window'[j]) = Used(window[j])
    BY <2>3 DEF ResourceInv
  <2>6. \A j \in CmdIds : stage'[j] \in {"running", "reaped"} =>
          usageChildren' = usageStart'[j] + Used(window'[j])
    <3> SUFFICES ASSUME NEW j \in CmdIds, stage'[j] \in {"running", "reaped"}
                 PROVE  usageChildren = usageStart'[j] + Used(window[j])
      BY <2>3, <2>5
    <3>1. CASE j = id
      BY <2>1, <2>2, <2>3, <3>1
    <3>2. CASE j # id
      BY <2>1, <3>2 DEF ResourceInv
    <3> QED BY <3>1, <3>2
  <2>7. /\ \A j \in CmdIds : stage'[j] = "none" => window'[j] = {}
        /\ \A j \in CmdIds : stage'[j] = "reaped" => j \in window'[j]
        /\ \A j \in CmdIds : stage'[j] \in {"none", "running"} =>
             \A k \in CmdIds : j \notin window'[k]
    BY <2>1, <2>2, <2>3 DEF ResourceInv
  <2> QED BY <2>4, <2>5, <2>6, <2>7 DEF ResourceInv, Units, Used
<1>4. ASSUME NEW id \in CmdIds, Reap(id)
      PROVE  ResourceInv'
  <2>1. /\ stage[id] = "running"
        /\ \A j \in CmdIds : stage'[j] = IF j = id THEN "reaped" ELSE stage[j]
        /\ \A j \in CmdIds : exit'[j] = exit[j] \/ j = id
        /\ usageChildren' = usageChildren + Cost[id]
        /\ \A j \in CmdIds : window'[j] = IF stage[j] \in {"running", "reaped"}
                                          THEN window[j] \cup {id} ELSE window[j]
        /\ UNCHANGED <<usageStart, said>>
    BY <1>4 DEF Reap, ExecuterInv, ETypeOK
  <2>2. /\ \A j \in CmdIds : id \notin window[j] /\ window[j] \in SUBSET CmdIds
        /\ \A j \in CmdIds : IsFiniteSet(Units(window[j])) /\ Used(window[j]) \in Nat
        /\ usageStart \in [CmdIds -> Nat] /\ Cost[id] \in Nat
    <3>1. \A j \in CmdIds : IsFiniteSet(Units(window[j]))
      BY DEF ResourceInv
    <3>2. \A j \in CmdIds : Used(window[j]) \in Nat
      BY <3>1, FS_CardinalityType DEF Used
    <3> QED BY <2>1, <3>1, <3>2, CostAssumption DEF ResourceInv, ExecuterInv, ETypeOK
  <2>3. ASSUME NEW j \in CmdIds, stage[j] \in {"running", "reaped"}
        PROVE  /\ IsFiniteSet(Units(window'[j]))
               /\ usageChildren' = usageStart'[j] + Used(window'[j])
               /\ id \in window'[j]
    <3>1. /\ IsFiniteSet(Units(window[j] \cup {id}))
          /\ Used(window[j] \cup {id}) = Used(window[j]) + Cost[id]
      BY <2>2, UsedByOneMore
    <3>2. usageChildren = usageStart[j] + Used(window[j])
      BY <2>3 DEF ResourceInv
    <3>3. window'[j] = window[j] \cup {id}
      BY <2>1, <2>3
    <3> QED BY <2>1, <2>2, <3>1, <3>2, <3>3
  <2>4. ASSUME NEW j \in CmdIds, stage[j] \notin {"running", "reaped"}
        PROVE  window'[j] = window[j] /\ IsFiniteSet(Units(window'[j]))
    BY <2>1, <2>2, <2>4
  <2>5. ResourcesOfTheWindow'
    <3> SUFFICES ASSUME NEW r \in said
                 PROVE  /\ r.usage = Used(window'[r.id])
                        /\ exit'[r.id] # "none" => r.id \in window'[r.id]
      BY <2>1 DEF ResourcesOfTheWindow, Used, Units
    <3>1. r.id \in CmdIds /\ stage[r.id] = "over" /\ r.id # id
      BY <2>1 DEF ExecuterInv, ETypeOK
    <3>2. window'[r.id] = window[r.id] /\ exit'[r.id] = exit[r.id]
      BY <2>1, <2>4, <3>1
    <3> QED BY <3>2 DEF ResourceInv, ResourcesOfTheWindow
  <2>6. \A j \in CmdIds : /\ IsFiniteSet(Units(window'[j]))
                          /\ stage'[j] \in {"running", "reaped"} =>
                               usageChildren' = usageStart'[j] + Used(window'[j])
                          /\ stage'[j] = "none" => window'[j] = {}
                          /\ stage'[j] = "reaped" => j \in window'[j]
    BY <2>1, <2>3, <2>4 DEF ResourceInv
  <2>7. ASSUME NEW i \in CmdIds, NEW j \in CmdIds, stage'[i] \in {"none", "running"}
        PROVE  i \notin window'[j]
    <3>1. i # id /\ stage[i] \in {"none", "running"}
      BY <2>1, <2>7
    <3>2. i \notin window[j]
      BY <3>1 DEF ResourceInv
    <3> QED BY <2>1, <3>1, <3>2
  <2> QED BY <2>5, <2>6, <2>7 DEF ResourceInv, Used, Units
<1>5. ASSUME NEW id \in CmdIds, ProcessEnded(id)
      PROVE  ResourceInv'
  <2> DEFINE usage == usageChildren - usageStart[id]
             d     == Chain(ProcessResult(exit[id]))
  <2>1. PICK serializable \in BOOLEAN : Says(id, d, usage, serializable)
    BY <1>5 DEF ProcessEnded
  <2>2. usage = Used(window[id]) /\ id \in window[id]
    <3>1. usageChildren = usageStart[id] + Used(window[id]) /\ id \in window[id]
      BY <1>5 DEF ProcessEnded, ResourceInv
    <3>2. Used(window[id]) \in Nat
      BY FS_CardinalityType DEF ResourceInv, Used
    <3> QED BY <3>1, <3>2 DEF ExecuterInv, ETypeOK
  <2> HIDE DEF usage, d
  <2>3. \A r \in said' : r \in said \/ (r.id = id /\ r.usage = Used(window[id]))
    BY <2>1, <2>2, SaysOne
  <2> QED BY <1>5, <2>2, <2>3, EndOfWindow DEF ProcessEnded
<1>6. CASE UNCHANGED evars
  BY <1>6 DEF evars, ResourceInv, ResourcesOfTheWindow, Used, Units
<1> QED BY <1>1, <1>2, <1>3, <1>4, <1>5, <1>6 DEF ENext, ExecuteCommand

\* Whatever runs at the same time, the resources said for a command are those of the
\* commands reaped between its start and its end, its own included: RUSAGE_CHILDREN at both
\* ends tells no more and no less.
THEOREM Resources == ESpec => []ResourcesOfTheWindow
<1>1. ResourceInv => ResourcesOfTheWindow
  BY DEF ResourceInv
<1> QED BY <1>1, InitResources, NextResources, Invariance, PTL DEF ESpec
=============================================================================
