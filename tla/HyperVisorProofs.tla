--------------------------- MODULE HyperVisorProofs --------------------------
(***************************************************************************)
(* Proofs about the hypervisor controller, for any number of calls,        *)
(* machines and names.                                                     *)
(***************************************************************************)
EXTENDS HyperVisor, TLAPS

-----------------------------------------------------------------------------
(* The ways in which an action changes a call *)

\* A call that begins gets its fields; of the others only the company changes.
LEMMA BeginProps ==
  ASSUME SessionInv, NEW o \in Calls, NEW op \in Operations, NEW n \in Names,
         NEW m \in Calls, NEW at \in Steps, NEW answer \in AnswersOfCalls,
         Begin(o, op, n, m, at, answer)
  PROVE  /\ call[o].at = "idle"
         /\ call' \in [Calls -> CallState]
         /\ call'[o].op = op /\ call'[o].name = n /\ call'[o].machine = m /\ call'[o].at = at
         /\ call'[o].answer = answer
         /\ call'[o].company = IF Others(o, n) = {} THEN "alone" ELSE "met"
         /\ \A p \in Calls \ {o} :
              /\ call'[p].op = call[p].op
              /\ call'[p].name = call[p].name
              /\ call'[p].machine = call[p].machine
              /\ call'[p].at = call[p].at
              /\ call'[p].answer = call[p].answer
              /\ call'[p].company = IF p \in Others(o, n) THEN "met" ELSE call[p].company
<1>1. call \in [Calls -> CallState]
  BY DEF SessionInv, TypeOK
<1>2. \A p \in Calls : call[p] \in CallState
  BY <1>1
<1>3. call' = [p \in Calls |-> call'[p]]
  BY DEF Begin
<1>4. /\ call'[o] \in CallState
      /\ call'[o].op = op /\ call'[o].name = n /\ call'[o].machine = m /\ call'[o].at = at
      /\ call'[o].answer = answer
      /\ call'[o].company = IF Others(o, n) = {} THEN "alone" ELSE "met"
  BY <1>2 DEF Begin, CallState
<1>5. ASSUME NEW p \in Calls \ {o}
      PROVE  /\ call'[p] \in CallState
             /\ call'[p].op = call[p].op
             /\ call'[p].name = call[p].name
             /\ call'[p].machine = call[p].machine
             /\ call'[p].at = call[p].at
             /\ call'[p].answer = call[p].answer
             /\ call'[p].company = IF p \in Others(o, n) THEN "met" ELSE call[p].company
  BY <1>2 DEF Begin, CallState
<1>. QED BY <1>3, <1>4, <1>5 DEF Begin

\* A call that goes on changes its step only.
LEMMA GotoProps ==
  ASSUME SessionInv, NEW o \in Calls, NEW at \in Steps, Goto(o, at)
  PROVE  /\ call' \in [Calls -> CallState]
         /\ call'[o].op = call[o].op /\ call'[o].machine = call[o].machine
         /\ call'[o].at = at /\ call'[o].answer = call[o].answer
         /\ call'[o].company = call[o].company /\ call'[o].name = call[o].name
         /\ \A p \in Calls \ {o} : call'[p] = call[p]
<1>1. call \in [Calls -> CallState] /\ call[o] \in CallState
  BY DEF SessionInv, TypeOK
<1>2. DEFINE c == [call[o] EXCEPT !.at = at]
<1>3. /\ c \in CallState /\ c.op = call[o].op /\ c.machine = call[o].machine
      /\ c.at = at /\ c.answer = call[o].answer /\ c.company = call[o].company
      /\ c.name = call[o].name
  BY <1>1 DEF CallState
<1>4. call' = [call EXCEPT ![o] = c]
  BY DEF Goto
<1>. HIDE DEF c
<1>. QED BY <1>1, <1>3, <1>4

\* A call that ends changes its step and its answer only.
LEMMA AnswersProps ==
  ASSUME SessionInv, NEW o \in Calls, NEW answer \in AnswersOfCalls, Answers(o, answer)
  PROVE  /\ call' \in [Calls -> CallState]
         /\ call'[o].op = call[o].op /\ call'[o].machine = call[o].machine
         /\ call'[o].at = "done" /\ call'[o].answer = answer
         /\ call'[o].company = call[o].company /\ call'[o].name = call[o].name
         /\ \A p \in Calls \ {o} : call'[p] = call[p]
<1>1. call \in [Calls -> CallState] /\ call[o] \in CallState
  BY DEF SessionInv, TypeOK
<1>2. DEFINE c == [[call[o] EXCEPT !.at = "done"] EXCEPT !.answer = answer]
<1>3. /\ c \in CallState /\ c.op = call[o].op /\ c.machine = call[o].machine
      /\ c.at = "done" /\ c.answer = answer /\ c.company = call[o].company
      /\ c.name = call[o].name
  BY <1>1 DEF CallState, Steps
<1>4. call' = [call EXCEPT ![o] = c]
  BY <1>1 DEF Answers, CallState
<1>. HIDE DEF c
<1>. QED BY <1>1, <1>3, <1>4

-----------------------------------------------------------------------------
\* Before the first call there is no session, and the invariant holds.
THEOREM InitInv == Init => SessionInv
<1>. SUFFICES ASSUME Init PROVE SessionInv
  OBVIOUS
<1>1. (CHOOSE n \in Names : TRUE) \in Names
  BY NamesAssumption
<1>2. \A o \in Calls : NoCall(o) \in CallState
  BY <1>1 DEF NoCall, CallState, Steps, AnswersOfCalls
<1>3. TypeOK
  BY <1>2 DEF Init, TypeOK, VMStates
<1>. QED BY <1>3 DEF Init, SessionInv, NoCall

-----------------------------------------------------------------------------
(* One lemma per action *)

\* A call that begins without taking a session.
LEMMA BeginPreserves ==
  ASSUME SessionInv, NEW o \in Calls, NEW op \in Operations, NEW n \in Names,
         NEW m \in Calls, NEW at \in Steps, NEW answer \in AnswersOfCalls,
         Begin(o, op, n, m, at, answer),
         at \in {"save", "register", "open", "configure", "close"} => m = o,
         at = "detach" => op = "destroyVM"
  PROVE  /\ call' \in [Calls -> CallState]
         /\ \A p \in Calls : call'[p].at \in {"save", "register", "open", "configure", "close"}
                            => call'[p].machine = p
         /\ \A p \in Calls : call'[p].at = "detach" => call'[p].op = "destroyVM"
         /\ \A k, p \in Calls : owner[k] = {p} =>
              /\ p # o
              /\ call'[p].machine = k
              /\ \/ call'[p].at \in {"configure", "close", "detach", "run"}
                 \/ call'[p].at = "done" /\ call'[p].answer = "failed"
<1>1. /\ call[o].at = "idle"
      /\ call' \in [Calls -> CallState]
      /\ call'[o].op = op /\ call'[o].machine = m /\ call'[o].at = at
      /\ \A p \in Calls \ {o} : /\ call'[p].op = call[p].op
                                /\ call'[p].machine = call[p].machine
                                /\ call'[p].at = call[p].at
                                /\ call'[p].answer = call[p].answer
  BY BeginProps
<1>2. \A k, p \in Calls : owner[k] = {p} => p # o
  BY <1>1 DEF SessionInv
<1>. QED BY <1>1, <1>2 DEF SessionInv

\* createVM begins without a session, for the machine of its own name.
LEMMA CreateVMPreserves ==
  ASSUME SessionInv, NEW o \in Calls, NEW n \in Names, CreateVM(o, n)
  PROVE  SessionInv'
<1>1. PICK at \in {"save", "done"}, answer \in {"none", "raised"} :
        Begin(o, "createVM", n, o, at, answer)
  BY DEF CreateVM
<1>2. UNCHANGED <<machines, settings, whole, owner, vm>>
  BY DEF CreateVM
<1>3. "createVM" \in Operations /\ at \in Steps /\ answer \in AnswersOfCalls
  BY DEF Operations, Steps, AnswersOfCalls
<1>. QED BY <1>1, <1>2, <1>3, BeginPreserves DEF SessionInv, TypeOK

\* start gives the session of the machine to the process of the VM.
LEMMA StartPreserves ==
  ASSUME SessionInv, NEW o \in Calls, NEW n \in Names, Start(o, n)
  PROVE  SessionInv'
<1>1. PICK m \in Calls, at \in {"wait", "done"}, answer \in {"none", "raised"} :
        Begin(o, "start", n, m, at, answer)
  BY DEF Start, SessionInv, TypeOK, Named
<1>2. UNCHANGED <<machines, settings, whole, owner>> /\ vm' \in [Calls -> VMStates]
  BY DEF Start, SessionInv, TypeOK, VMStates
<1>3. "start" \in Operations /\ at \in Steps /\ answer \in AnswersOfCalls
  BY DEF Operations, Steps, AnswersOfCalls
<1>4. TypeOK'
  BY <1>1, <1>2, <1>3, BeginProps DEF SessionInv, TypeOK
<1>. QED BY <1>1, <1>2, <1>3, <1>4, BeginPreserves DEF SessionInv

\* A session is taken only by a call that begins, for a machine nobody has one of.
LEMMA GetSessionPreserves ==
  ASSUME SessionInv, NEW o \in Calls, NEW op \in Operations, NEW n \in Names,
         NEW at \in {"detach", "run"}, NEW otherwise \in AnswersOfCalls,
         at = "detach" => op = "destroyVM",
         GetSession(o, op, n, at, otherwise)
  PROVE  SessionInv'
<1>. at \in Steps /\ "done" \in Steps /\ "none" \in AnswersOfCalls
  BY DEF Steps, AnswersOfCalls
<1>1. UNCHANGED <<machines, settings, whole, vm>>
  BY DEF GetSession
<1>2. ASSUME NEW m \in Named(n), Begin(o, op, n, m, at, "none"), Closed(m), Take(o, m)
      PROVE  SessionInv'
  <2>1. m \in Calls
    BY DEF Named, SessionInv, TypeOK
  <2>2. call'[o].machine = m /\ call'[o].at = at
    BY <1>2, <2>1, BeginProps
  <2>3. owner' = [owner EXCEPT ![m] = {o}] /\ owner \in [Calls -> {{}} \cup {{p} : p \in Calls}]
    BY <1>2 DEF Take, SessionInv, TypeOK
  <2>4. /\ owner' \in [Calls -> {{}} \cup {{p} : p \in Calls}]
        /\ owner'[m] = {o}
        /\ \A k \in Calls \ {m} : owner'[k] = owner[k]
    BY <2>1, <2>3
  <2>5. \A p \in Calls : owner'[m] = {p} => p = o
    BY <2>4
  <2>6. /\ call' \in [Calls -> CallState]
        /\ \A p \in Calls : call'[p].at \in {"save", "register", "open", "configure", "close"}
                           => call'[p].machine = p
        /\ \A p \in Calls : call'[p].at = "detach" => call'[p].op = "destroyVM"
        /\ \A k, p \in Calls : owner[k] = {p} =>
             /\ call'[p].machine = k
             /\ \/ call'[p].at \in {"configure", "close", "detach", "run"}
                \/ call'[p].at = "done" /\ call'[p].answer = "failed"
    BY <1>2, <2>1, BeginPreserves
  <2>7. TypeOK'
    BY <1>1, <2>4, <2>6 DEF SessionInv, TypeOK
  <2>8. ASSUME NEW k \in Calls, NEW p \in Calls, owner'[k] = {p}
        PROVE  /\ call'[p].machine = k
               /\ \/ call'[p].at \in {"configure", "close", "detach", "run"}
                  \/ call'[p].at = "done" /\ call'[p].answer = "failed"
    <3>1. CASE k = m
      BY <2>2, <2>5, <2>8, <3>1
    <3>2. CASE k # m
      BY <2>4, <2>6, <2>8, <3>2
    <3>. QED BY <3>1, <3>2
  <2>. QED BY <2>6, <2>7, <2>8 DEF SessionInv
<1>3. ASSUME NEW m \in Named(n), Begin(o, op, n, m, at, "none"), UNCHANGED owner
      PROVE  SessionInv'
  <2>1. m \in Calls
    BY DEF Named, SessionInv, TypeOK
  <2>. QED BY <1>1, <1>3, <2>1, BeginPreserves DEF SessionInv, TypeOK
<1>4. CASE Begin(o, op, n, o, "done", otherwise) /\ UNCHANGED owner
  BY <1>1, <1>4, BeginPreserves DEF SessionInv, TypeOK
<1>. QED BY <1>2, <1>3, <1>4 DEF GetSession

\* A call that holds no session may go on to any step, and may end.
LEMMA StepPreserves ==
  ASSUME SessionInv, NEW o \in Calls, owner' = owner,
         call' \in [Calls -> CallState],
         call'[o].op = call[o].op, call'[o].machine = call[o].machine,
         \A p \in Calls \ {o} : call'[p] = call[p],
         call[o].at \notin {"configure", "close", "detach", "run", "done"}
           \/ \A m \in Calls : owner[m] # {o},
         call'[o].at \in {"save", "register", "open", "configure", "close"}
           => call[o].at \in {"save", "register", "open", "configure", "close"},
         call'[o].at # "detach",
         machines' \subseteq Calls, settings' \subseteq Names, whole' \subseteq Calls,
         vm' \in [Calls -> VMStates]
  PROVE  SessionInv'
<1>1. TypeOK'
  BY DEF SessionInv, TypeOK
<1>2. \A m \in Calls : owner[m] # {o}
  BY DEF SessionInv
<1>. QED BY <1>1, <1>2 DEF SessionInv

\* A call whose request VirtualBox failed ends with the session it may hold.
LEMMA FailPreserves ==
  ASSUME SessionInv, NEW o \in Calls, owner' = owner, Answers(o, "failed"),
         machines' \subseteq Calls, settings' \subseteq Names, whole' \subseteq Calls,
         vm' \in [Calls -> VMStates]
  PROVE  SessionInv'
<1>1. "failed" \in AnswersOfCalls
  BY DEF AnswersOfCalls
<1>2. /\ call' \in [Calls -> CallState]
      /\ call'[o].machine = call[o].machine
      /\ call'[o].at = "done" /\ call'[o].answer = "failed"
      /\ \A p \in Calls \ {o} : call'[p] = call[p]
  BY <1>1, AnswersProps
<1>3. TypeOK'
  BY <1>2 DEF SessionInv, TypeOK
<1>. QED BY <1>2, <1>3 DEF SessionInv

\* A call that closes the session it may hold.
LEMMA ReleasePreserves ==
  ASSUME SessionInv, NEW o \in Calls, Release(o, call[o].machine),
         call' \in [Calls -> CallState],
         call'[o].op = call[o].op, call'[o].machine = call[o].machine,
         \A p \in Calls \ {o} : call'[p] = call[p],
         call'[o].at \notin {"save", "register", "open", "configure", "close", "detach"},
         machines' \subseteq Calls, settings' \subseteq Names, whole' \subseteq Calls,
         vm' \in [Calls -> VMStates]
  PROVE  SessionInv'
<1>1. call[o].machine \in Calls
  BY DEF SessionInv, TypeOK, CallState
<1>2. owner \in [Calls -> {{}} \cup {{p} : p \in Calls}]
  BY DEF SessionInv, TypeOK
<1>3. \A m \in Calls : \/ owner'[m] = owner[m] /\ owner'[m] # {o}
                      \/ owner'[m] = {}
  BY <1>1, <1>2 DEF Release, SessionInv
<1>4. owner' \in [Calls -> {{}} \cup {{p} : p \in Calls}]
  BY <1>1, <1>2, <1>3 DEF Release
<1>5. TypeOK'
  BY <1>4 DEF SessionInv, TypeOK
<1>. QED BY <1>3, <1>5 DEF SessionInv

-----------------------------------------------------------------------------
(* Every step of a call, of a VM and of the agent *)

\* Every step of a call keeps the session it holds with it, or closes it.
LEMMA CallStepPreserves ==
  ASSUME SessionInv, NEW o \in Calls, CallStep(o)
  PROVE  SessionInv'
<1>. /\ call \in [Calls -> CallState] /\ call[o] \in CallState
     /\ machines \subseteq Calls /\ settings \subseteq Names /\ whole \subseteq Calls
     /\ vm \in [Calls -> VMStates]
  BY DEF SessionInv, TypeOK
<1>. /\ call[o].machine \in Calls /\ call[o].name \in Names
  BY DEF CallState
<1>. {"register", "open", "configure", "close", "unregister", "wait", "done"} \subseteq Steps
     /\ {"True", "False", "None", "raised", "failed"} \subseteq AnswersOfCalls
  BY DEF Steps, AnswersOfCalls
<1>1. CASE SaveSettings(o)
  BY <1>1, GotoProps, AnswersProps, StepPreserves DEF SaveSettings
<1>2. CASE RegisterMachine(o)
  BY <1>2, GotoProps, AnswersProps, StepPreserves DEF RegisterMachine
<1>3. CASE OpenSession(o)
  <2>1. CASE Take(o, o) /\ Goto(o, "configure")
    <3>1. call[o].at = "open" /\ call[o].machine = o
      BY <1>3 DEF OpenSession, SessionInv
    <3>2. /\ owner' \in [Calls -> {{}} \cup {{p} : p \in Calls}]
          /\ owner'[o] = {o}
          /\ \A k \in Calls \ {o} : owner'[k] = owner[k]
      BY <2>1 DEF Take, SessionInv, TypeOK
    <3>3. \A p \in Calls : owner'[o] = {p} => p = o
      BY <3>2
    <3>4. TypeOK'
      BY <1>3, <2>1, <3>2, GotoProps DEF OpenSession, SessionInv, TypeOK
    <3>5. /\ call'[o].op = call[o].op /\ call'[o].machine = o /\ call'[o].at = "configure"
          /\ \A p \in Calls \ {o} : call'[p] = call[p]
      BY <2>1, <3>1, GotoProps
    <3>6. ASSUME NEW k \in Calls, NEW p \in Calls, owner'[k] = {p}
          PROVE  /\ call'[p].machine = k
                 /\ \/ call'[p].at \in {"configure", "close", "detach", "run"}
                    \/ call'[p].at = "done" /\ call'[p].answer = "failed"
      <4>1. CASE k = o
        BY <3>3, <3>5, <3>6, <4>1
      <4>2. CASE k # o
        BY <3>1, <3>2, <3>5, <3>6, <4>2 DEF SessionInv
      <4>. QED BY <4>1, <4>2
    <3>. QED BY <3>1, <3>4, <3>5, <3>6 DEF SessionInv
  <2>2. CASE UNCHANGED owner /\ Goto(o, "unregister")
    BY <1>3, <2>2, GotoProps, StepPreserves DEF OpenSession
  <2>3. CASE UNCHANGED owner /\ Answers(o, "failed")
    BY <1>3, <2>3, FailPreserves DEF OpenSession
  <2>. QED BY <1>3, <2>1, <2>2, <2>3 DEF OpenSession
<1>4. CASE Configure(o)
  <2>. call[o].at = "configure" /\ call[o].machine = o /\ UNCHANGED <<machines, settings, vm>>
    BY <1>4 DEF Configure, SessionInv
  <2>1. CASE whole' = whole \cup {o} /\ Goto(o, "close") /\ UNCHANGED owner
    <3>1. TypeOK'
      BY <2>1, GotoProps DEF SessionInv, TypeOK
    <3>. QED BY <2>1, <3>1, GotoProps DEF SessionInv
  <2>2. CASE Release(o, o) /\ Goto(o, "unregister") /\ UNCHANGED whole
    BY <2>2, GotoProps, ReleasePreserves
  <2>3. CASE Answers(o, "failed") /\ UNCHANGED <<whole, owner>>
    BY <2>3, FailPreserves
  <2>. QED BY <1>4, <2>1, <2>2, <2>3 DEF Configure
<1>5. CASE Close(o)
  <2>. call[o].machine = o /\ UNCHANGED <<machines, settings, whole, vm>>
    BY <1>5 DEF Close, SessionInv
  <2>1. CASE Release(o, o) /\ Answers(o, "True")
    BY <2>1, AnswersProps, ReleasePreserves
  <2>2. CASE UNCHANGED owner /\ Answers(o, "failed")
    BY <2>2, FailPreserves
  <2>. QED BY <1>5, <2>1, <2>2 DEF Close
<1>6. CASE Unregister(o)
  <2>1. PICK answer \in {"raised", "True", "failed"} : Answers(o, answer)
    BY <1>6 DEF Unregister
  <2>. answer \in AnswersOfCalls
    OBVIOUS
  <2>2. machines' \subseteq Calls /\ settings' \subseteq Names /\ UNCHANGED <<whole, owner, vm>>
    BY <1>6 DEF Unregister
  <2>3. call[o].at = "unregister"
    BY <1>6 DEF Unregister
  <2>. QED BY <2>1, <2>2, <2>3, AnswersProps, StepPreserves
<1>7. CASE Detach(o)
  <2>. call[o].at = "detach" /\ call[o].op = "destroyVM" /\ UNCHANGED <<machines, settings, vm>>
    BY <1>7 DEF Detach, SessionInv
  <2>1. CASE /\ whole' = whole \ {call[o].machine} /\ Release(o, call[o].machine)
             /\ Goto(o, "unregister")
    BY <2>1, GotoProps, ReleasePreserves
  <2>2. CASE whole' \in {whole, whole \ {call[o].machine}} /\ UNCHANGED owner /\ Answers(o, "failed")
    BY <2>2, FailPreserves
  <2>3. CASE owner[call[o].machine] = {} /\ UNCHANGED <<whole, owner>> /\ Answers(o, "raised")
    <3>1. \A k \in Calls : owner[k] # {o}
      BY <2>3 DEF SessionInv
    <3>. QED BY <2>3, <3>1, AnswersProps, StepPreserves
  <2>. QED BY <1>7, <2>1, <2>2, <2>3 DEF Detach
<1>8. CASE Run(o)
  <2>. DEFINE m == call[o].machine
  <2>. call[o].at = "run" /\ UNCHANGED <<machines, settings, whole>>
    BY <1>8 DEF Run
  <2>1. ASSUME NEW answer \in {"raised", "None"}, Answers(o, answer), UNCHANGED vm, Release(o, m)
        PROVE  SessionInv'
    BY <2>1, AnswersProps, ReleasePreserves
  <2>2. CASE UNCHANGED <<vm, owner>> /\ Answers(o, "failed")
    BY <2>2, FailPreserves
  <2>3. CASE Operate(o)
    <3>1. vm[m] \in VMStates => Effect(call[o].op, vm[m]) \in VMStates
      BY DEF Effect, VMStates
    <3>2. vm' \in [Calls -> VMStates] /\ UNCHANGED owner
      BY <2>3, <3>1 DEF Operate
    <3>3. \A k \in Calls : owner[k] # {o}
      BY <2>3 DEF Operate, SessionInv
    <3>4. CASE Answers(o, "True")
      BY <3>2, <3>3, <3>4, AnswersProps, StepPreserves
    <3>5. CASE call' = [call EXCEPT ![o].at = "wait", ![o].progress = "running"]
      <4>. DEFINE c == [[call[o] EXCEPT !.at = "wait"] EXCEPT !.progress = "running"]
      <4>1. /\ c \in CallState /\ c.op = call[o].op /\ c.machine = m /\ c.at = "wait"
        BY DEF CallState
      <4>2. call' = [call EXCEPT ![o] = c]
        BY <3>5 DEF CallState
      <4>3. /\ call' \in [Calls -> CallState]
            /\ call'[o].op = call[o].op /\ call'[o].machine = m /\ call'[o].at = "wait"
            /\ \A p \in Calls \ {o} : call'[p] = call[p]
        <5>. HIDE DEF c
        <5>. QED BY <4>1, <4>2
      <4>. QED BY <3>2, <3>3, <4>3, StepPreserves
    <3>. QED BY <2>3, <3>4, <3>5 DEF Operate
  <2>. QED BY <1>8, <2>1, <2>2, <2>3 DEF Run
<1>9. CASE Wait(o)
  BY <1>9, AnswersProps, StepPreserves DEF Wait, Outcomes
<1>. QED BY <1>1, <1>2, <1>3, <1>4, <1>5, <1>6, <1>7, <1>8, <1>9 DEF CallStep

\* A VM that changes its state changes no call but in the progress it waits for.
LEMMA VMProcessPreserves ==
  ASSUME SessionInv, NEW m \in Calls, NEW from \in VMStates, NEW to \in VMStates,
         NEW outcome \in {"running", "ok", "failed"}, VMProcess(m, from, to, outcome)
  PROVE  SessionInv'
<1>1. \A p \in Calls : call[p] \in CallState
  BY DEF SessionInv, TypeOK
<1>2. \A p \in Calls : /\ call'[p] \in CallState
                       /\ call'[p].op = call[p].op
                       /\ call'[p].machine = call[p].machine
                       /\ call'[p].at = call[p].at
                       /\ call'[p].answer = call[p].answer
  BY <1>1 DEF VMProcess, CallState
<1>3. TypeOK'
  BY <1>2 DEF VMProcess, SessionInv, TypeOK
<1>. QED BY <1>2, <1>3 DEF VMProcess, SessionInv

\* A restart ends all calls and closes all sessions.
LEMMA HostRestartPreserves ==
  ASSUME SessionInv, HostRestart
  PROVE  SessionInv'
<1>1. \A p \in Calls : call[p] \in CallState
  BY DEF SessionInv, TypeOK
<1>2. \A p \in Calls : /\ call'[p] \in CallState
                       /\ call'[p].op = call[p].op
                       /\ call'[p].machine = call[p].machine
                       /\ call'[p].at \in {"idle", "done"}
  BY <1>1 DEF HostRestart, InProgress, CallState, Steps
<1>3. TypeOK' /\ \A m, o \in Calls : owner'[m] # {o}
  BY <1>2 DEF HostRestart, SessionInv, TypeOK
<1>. QED BY <1>2, <1>3 DEF SessionInv

\* The invariant is inductive.
THEOREM NextInv == SessionInv /\ [Next]_vars => SessionInv'
<1>. SUFFICES ASSUME SessionInv, [Next]_vars PROVE SessionInv'
  OBVIOUS
<1>1. ASSUME NEW o \in Calls, CallStep(o) PROVE SessionInv'
  BY <1>1, CallStepPreserves
<1>2. ASSUME NEW o \in Calls, NEW n \in Names, CreateVM(o, n) PROVE SessionInv'
  BY <1>2, CreateVMPreserves
<1>3. ASSUME NEW o \in Calls, NEW n \in Names, DestroyVM(o, n) PROVE SessionInv'
  <2>. "destroyVM" \in Operations /\ "raised" \in AnswersOfCalls
    BY DEF Operations, AnswersOfCalls
  <2>. QED BY <1>3, GetSessionPreserves DEF DestroyVM
<1>4. ASSUME NEW o \in Calls, NEW n \in Names, Start(o, n) PROVE SessionInv'
  BY <1>4, StartPreserves
<1>5. ASSUME NEW o \in Calls, NEW n \in Names, NEW op \in Commands, ExecProgressCmd(o, op, n)
      PROVE  SessionInv'
  <2>. op \in Operations /\ "None" \in AnswersOfCalls
    BY DEF Operations, AnswersOfCalls
  <2>. QED BY <1>5, GetSessionPreserves DEF ExecProgressCmd
<1>6. ASSUME NEW m \in Calls, VMStarts(m) \/ VMFailsToStart(m) \/ GuestShutsDown(m) \/ VMEnds(m)
      PROVE  SessionInv'
  BY <1>6, VMProcessPreserves DEF VMStarts, VMFailsToStart, GuestShutsDown, VMEnds, VMStates
<1>7. CASE HostRestart
  BY <1>7, HostRestartPreserves
<1>8. CASE UNCHANGED vars
  BY <1>8 DEF vars, SessionInv, TypeOK
<1>. QED BY <1>1, <1>2, <1>3, <1>4, <1>5, <1>6, <1>7, <1>8 DEF Next

\* The invariant holds in every state.
THEOREM Invariance == Spec => []SessionInv
  BY InitInv, NextInv, PTL DEF Spec

\* Machines, sessions and calls are of their types.
THEOREM TypeCorrect == Spec => []TypeOK
<1>1. SessionInv => TypeOK
  BY DEF SessionInv
<1>. QED BY <1>1, Invariance, PTL

\* A session ends with the call that opened it, whatever VirtualBox refuses and whoever else
\* works on the machine, unless VirtualBox failed a request that no clean-up follows.
THEOREM SessionsEndWithCalls == Spec => []SessionsEnd
<1>1. SessionInv => SessionsEnd
  BY DEF SessionInv, SessionsEnd, InProgress
<1>. QED BY <1>1, Invariance, PTL

-----------------------------------------------------------------------------
(* createVM works all or nothing *)

LEMMA WholeInit == Init => WholeInv
<1>. SUFFICES ASSUME Init PROVE WholeInv
  OBVIOUS
<1>1. \A o \in Calls : /\ call[o].op = "none" /\ call[o].at = "idle"
                       /\ call[o].company = "alone"
                       /\ owner[o] = {} /\ vm[o] = "off"
  BY DEF Init, NoCall
<1>. QED BY <1>1 DEF Init, WholeInv, CompanyInv, Exists, InProgress

\* A call that begins meets those at work on the name: of a machine of that name it may
\* take the session, or start it.
LEMMA BeginWhole ==
  ASSUME SessionInv, WholeInv, NEW o \in Calls, NEW op \in Operations, NEW n \in Names,
         NEW m \in Calls, NEW at \in Steps, NEW answer \in AnswersOfCalls,
         Begin(o, op, n, m, at, answer),
         \/ op = "createVM" /\ m = o /\ at \in {"save", "done"}
         \/ op # "createVM" /\ at \in {"detach", "run", "wait", "done"},
         m = o \/ m \in Named(n),
         at = "done" \/ answer = "none",
         machines' = machines, whole' = whole,
         \A k \in Calls : owner'[k] = {} \/ vm'[k] = "off",
         \A k \in Calls : k \in Named(n) \/ (owner'[k] = owner[k] /\ vm'[k] = vm[k])
  PROVE  WholeInv'
<1>1. /\ call[o].at = "idle"
      /\ call'[o].op = op /\ call'[o].name = n /\ call'[o].machine = m /\ call'[o].at = at
      /\ call'[o].answer = answer
      /\ call'[o].company = IF Others(o, n) = {} THEN "alone" ELSE "met"
      /\ \A p \in Calls \ {o} :
           /\ call'[p].op = call[p].op
           /\ call'[p].name = call[p].name
           /\ call'[p].machine = call[p].machine
           /\ call'[p].at = call[p].at
           /\ call'[p].answer = call[p].answer
           /\ call'[p].company = IF p \in Others(o, n) THEN "met" ELSE call[p].company
  BY BeginProps
<1>2. machines \subseteq Calls /\ \A k \in Calls : call[k].machine \in Calls
  BY DEF SessionInv, TypeOK, CallState
<1>3. /\ ~ Exists(o) /\ o \notin machines /\ o \notin Named(n)
      /\ call[o].company = "alone"
  BY <1>1 DEF WholeInv, CompanyInv, Exists, Named
<1>4. ASSUME NEW k \in Calls, Exists(k)'
      PROVE  k # o /\ Exists(k)
  BY <1>3, <1>4 DEF Exists, Named
<1>5. ASSUME NEW k \in Calls, k # o, InProgress(k)', call'[k].company = "alone"
      PROVE  /\ InProgress(k) /\ call[k].company = "alone"
             /\ owner'[k] = owner[k] /\ vm'[k] = vm[k]
  <2>1. InProgress(k)
    BY <1>1, <1>5 DEF InProgress
  <2>2. k \notin Others(o, n) /\ call[k].company = "alone"
    BY <1>1, <1>5
  <2>3. k \notin Named(n)
    BY <1>5, <2>1, <2>2 DEF Others, Named, NameOf
  <2>. QED BY <2>1, <2>2, <2>3
<1>6. \A k \in Calls : call'[k].at \in {"save", "register", "open", "configure", "close"}
                       => call'[k].op = "createVM"
  BY <1>1 DEF WholeInv
<1>7. \A k \in Calls : /\ call'[k].op = "createVM" => call'[k].machine = k
                       /\ InProgress(k)' => call'[k].answer = "none"
  BY <1>1 DEF WholeInv, InProgress
<1>8. \A k \in Calls : Exists(k)' => /\ call'[k].op = "createVM"
                                     /\ call'[k].at \notin {"idle", "save", "register"}
  BY <1>1, <1>4 DEF WholeInv
<1>9. ASSUME NEW k \in Calls,
             call'[k].op = "createVM", InProgress(k)', call'[k].company = "alone"
      PROVE  vm'[k] = "off" /\ owner'[k] \subseteq {k}
  <2>1. CASE k # o
    BY <1>1, <1>5, <1>9, <2>1 DEF WholeInv
  <2>2. CASE k = o
    BY <1>3, <2>2 DEF Exists
  <2>. QED BY <2>1, <2>2
<1>10. ASSUME NEW p \in Calls, NEW k
       PROVE  /\ Excused(p, k) => Excused(p, k)'
              /\ Unfinished(p, k) => Unfinished(p, k)'
  <2>1. CASE p = o
    BY <1>1, <1>3, <2>1 DEF Excused, Unfinished
  <2>2. CASE p # o
    BY <1>1, <2>2 DEF Excused, Unfinished
  <2>. QED BY <2>1, <2>2
<1>11. \A k \in machines' \ whole' : \E p \in Calls : Unfinished(p, k)'
  BY <1>10 DEF WholeInv
<1>12. ASSUME NEW d \in Calls, call'[d].at = "unregister"
       PROVE  Closed(call[d].machine)' \/ \E p \in Calls : Excused(p, call[d].machine)'
  <2>1. d # o /\ call[d].at = "unregister" /\ call'[d].machine = call[d].machine
    BY <1>1, <1>12
  <2>2. CASE \E p \in Calls : Excused(p, call[d].machine)
    BY <1>10, <2>1, <2>2
  <2>3. CASE Closed(call[d].machine) /\ call[d].machine \notin Named(n)
    BY <1>2, <2>1, <2>3 DEF Closed
  <2>4. CASE call[d].machine \in Named(n)
    <3>1. d \in Others(o, n)
      BY <2>1, <2>4 DEF Others, InProgress, Named, WholeInv, CompanyInv
    <3>. QED BY <1>1, <2>1, <3>1 DEF Excused
  <2>. QED BY <2>1, <2>2, <2>3, <2>4 DEF WholeInv
<1>13. CompanyInv'
  <2>1. ASSUME NEW p \in Calls, call'[p].at = "idle" PROVE call'[p].company = "alone"
    BY <1>1, <2>1 DEF Others, InProgress, WholeInv, CompanyInv
  <2>2. ASSUME NEW p \in Calls, call'[p].at # "idle"
        PROVE  /\ call'[call'[p].machine].at # "idle"
               /\ call'[p].name = call'[call'[p].machine].name
    <3>1. CASE p # o
      <4>1. /\ call[call[p].machine].at # "idle" /\ call[p].name = call[call[p].machine].name
            /\ call'[p].machine = call[p].machine /\ call'[p].name = call[p].name
        BY <1>1, <2>2, <3>1 DEF WholeInv, CompanyInv, NameOf
      <4>. QED BY <1>1, <1>2, <4>1
    <3>2. CASE p = o /\ m # o
      <4>1. m \in Named(n) /\ call[m].name = n /\ call[m].at # "idle"
        BY <3>2 DEF Named, NameOf, WholeInv, Exists
      <4>. QED BY <1>1, <3>2, <4>1
    <3>3. CASE p = o /\ m = o
      BY <1>1, <2>2, <3>3
    <3>. QED BY <3>1, <3>2, <3>3
  <2>3. ASSUME NEW p \in Calls, NEW q \in Calls, p # q, InProgress(p)', InProgress(q)',
               call'[p].name = call'[q].name
        PROVE  call'[p].company = "met"
    <3>1. CASE p = o
      <4>1. q \in Others(o, n)
        BY <1>1, <2>3, <3>1 DEF Others, InProgress
      <4>. QED BY <1>1, <3>1, <4>1
    <3>2. CASE q = o
      <4>1. p \in Others(o, n)
        BY <1>1, <2>3, <3>2 DEF Others, InProgress
      <4>. QED BY <1>1, <4>1, <2>3, <3>2
    <3>3. CASE p # o /\ q # o
      BY <1>1, <2>3, <3>3 DEF InProgress, WholeInv, CompanyInv
    <3>. QED BY <3>1, <3>2, <3>3
  <2>. QED BY <2>1, <2>2, <2>3 DEF CompanyInv, NameOf
<1>. QED BY <1>6, <1>7, <1>8, <1>9, <1>11, <1>12, <1>13 DEF WholeInv

\* A call that goes on.  It registers its own machine, and takes the session of that only;
\* it unregisters only what is closed, and a machine that is not whole when it has done its
\* step is unfinished, as it was before.
LEMMA StepWhole ==
  ASSUME SessionInv, WholeInv, NEW o \in Calls,
         call'[o].op = call[o].op, call'[o].name = call[o].name,
         call'[o].machine = call[o].machine, call'[o].company = call[o].company,
         call'[o].at = "done" \/ call'[o].answer = call[o].answer,
         \A p \in Calls \ {o} : call'[p] = call[p],
         call[o].at \notin {"idle", "done"}, call'[o].at \notin {"idle", "save"},
         call'[o].at = "register" => call[o].at = "save",
         call'[o].at \in {"open", "configure", "close"}
           => call[o].at \in {"register", "open", "configure"},
         \A m \in machines' : m \in machines \/ (m = o /\ call'[o].at = "open"),
         \A m \in Calls : \/ owner'[m] \subseteq owner[m]
                          \/ m = o /\ o \in machines /\ vm[o] = "off" /\ owner'[m] = {o},
         \A m \in Calls : vm'[m] = vm[m] \/ vm[m] # "off",
         \A m \in machines' \ whole' : m \in machines \ whole \/ Unfinished(o, m)',
         \A m \in machines' \ whole' :
           Unfinished(o, m) => \E p \in Calls : Unfinished(p, m)',
         call'[o].at = "unregister" =>
           \/ Closed(call[o].machine)'
           \/ \E p \in Calls : Excused(p, call[o].machine)'
  PROVE  WholeInv'
<1>1. InProgress(o)
  BY DEF InProgress
<1>2. machines \subseteq Calls /\ \A k \in Calls : call[k].machine \in Calls
  BY DEF SessionInv, TypeOK, CallState
<1>3. owner \in [Calls -> {{}} \cup {{p} : p \in Calls}]
  BY DEF SessionInv, TypeOK
<1>4. \A k \in Calls : call'[k].at \in {"save", "register", "open", "configure", "close"}
                       => call'[k].op = "createVM"
  BY DEF WholeInv
<1>5. \A k \in Calls : /\ call'[k].op = "createVM" => call'[k].machine = k
                       /\ InProgress(k)' => call'[k].answer = "none"
  BY <1>1 DEF WholeInv, InProgress
<1>6. ASSUME NEW k \in Calls, Exists(k)'
      PROVE  Exists(k) \/ (k = o /\ call'[o].at = "open")
  BY <1>6 DEF Exists
<1>7. ASSUME NEW k \in Calls, Exists(k)'
      PROVE  call'[k].op = "createVM" /\ call'[k].at \notin {"idle", "save", "register"}
  BY <1>4, <1>6, <1>7 DEF WholeInv
<1>8. ASSUME NEW k \in Calls,
             call'[k].op = "createVM", InProgress(k)', call'[k].company = "alone"
      PROVE  vm'[k] = "off" /\ owner'[k] \subseteq {k}
  <2>1. call[k].op = "createVM" /\ InProgress(k) /\ call[k].company = "alone"
    BY <1>1, <1>8 DEF InProgress
  <2>2. vm[k] = "off" /\ owner[k] \subseteq {k}
    BY <2>1 DEF WholeInv
  <2>. QED BY <2>2
<1>9. ASSUME NEW p \in Calls, NEW k, Excused(p, k) PROVE Excused(p, k)'
  <2>1. CASE p = o
    BY <1>9, <2>1 DEF Excused
  <2>2. CASE p # o
    BY <1>9, <2>2 DEF Excused
  <2>. QED BY <2>1, <2>2
<1>10. ASSUME NEW k \in machines' \ whole'
       PROVE  \E p \in Calls : Unfinished(p, k)'
  <2>1. CASE Unfinished(o, k)'
    BY <2>1
  <2>2. CASE k \in machines \ whole
    <3>1. PICK p \in Calls : Unfinished(p, k)
      BY <2>2 DEF WholeInv
    <3>2. CASE p = o
      BY <1>10, <3>1, <3>2
    <3>3. CASE p # o
      BY <3>1, <3>3 DEF Unfinished, Excused
    <3>. QED BY <3>2, <3>3
  <2>. QED BY <1>10, <2>1, <2>2
<1>11. ASSUME NEW d \in Calls, call'[d].at = "unregister"
       PROVE  Closed(call[d].machine)' \/ \E p \in Calls : Excused(p, call[d].machine)'
  <2>1. CASE d = o
    BY <1>11, <2>1
  <2>2. CASE d # o
    <3>. DEFINE k == call[d].machine
    <3>1. call'[d] = call[d] /\ k \in Calls
      BY <1>2, <2>2
    <3>2. CASE \E p \in Calls : Excused(p, k)
      BY <1>9, <3>1, <3>2
    <3>3. CASE Closed(k) /\ owner'[k] \subseteq owner[k]
      BY <3>1, <3>3 DEF Closed
    <3>4. CASE k = o
      <4>1. call[d].name = call[o].name /\ InProgress(d)
        BY <1>11, <3>1, <3>4 DEF InProgress, WholeInv, CompanyInv, NameOf
      <4>2. call[d].company = "met"
        BY <1>1, <2>2, <4>1 DEF WholeInv, CompanyInv
      <4>. QED BY <3>1, <4>2 DEF Excused
    <3>. QED BY <1>11, <3>1, <3>2, <3>3, <3>4 DEF WholeInv
  <2>. QED BY <2>1, <2>2
<1>12. CompanyInv'
  <2>1. \A p \in Calls : /\ call'[p].name = call[p].name
                         /\ call'[p].machine = call[p].machine
                         /\ call'[p].company = call[p].company
                         /\ call'[p].at = "idle" <=> call[p].at = "idle"
                         /\ InProgress(p)' => InProgress(p)
    BY <1>1 DEF InProgress
  <2>2. ASSUME NEW k \in Calls PROVE owner'[k] = {} \/ vm'[k] = "off"
    BY <1>3 DEF WholeInv, CompanyInv
  <2>3. \A p \in Calls : call'[p].at = "idle" => call'[p].company = "alone"
    BY <2>1 DEF WholeInv, CompanyInv
  <2>4. \A p \in Calls : call'[p].at # "idle" =>
          /\ call'[call'[p].machine].at # "idle"
          /\ call'[p].name = call'[call'[p].machine].name
    BY <1>2, <2>1 DEF WholeInv, CompanyInv, NameOf
  <2>5. \A p, q \in Calls :
          p # q /\ InProgress(p)' /\ InProgress(q)' /\ call'[p].name = call'[q].name
            => call'[p].company = "met"
    BY <2>1 DEF WholeInv, CompanyInv
  <2>. QED BY <2>2, <2>3, <2>4, <2>5 DEF CompanyInv, NameOf
<1>. QED BY <1>4, <1>5, <1>7, <1>8, <1>10, <1>11, <1>12 DEF WholeInv

\* What a call releases is its own.
LEMMA ReleaseShrinks ==
  ASSUME SessionInv, NEW o \in Calls, NEW m \in Calls, Release(o, m)
  PROVE  \A k \in Calls : owner'[k] \subseteq owner[k]
<1>. owner \in [Calls -> {{}} \cup {{p} : p \in Calls}]
  BY DEF SessionInv, TypeOK
<1>. QED BY DEF Release

\* A call whose request VirtualBox failed is an excuse for what it leaves.
LEMMA FailWhole ==
  ASSUME SessionInv, WholeInv, NEW o \in Calls, Answers(o, "failed"),
         call[o].at \notin {"idle", "done"}, UNCHANGED <<owner, vm>>,
         machines' \subseteq machines,
         \A k \in machines' \ whole' : k \in machines \ whole \/ k = call[o].machine
  PROVE  WholeInv'
<1>1. "failed" \in AnswersOfCalls
  BY DEF AnswersOfCalls
<1>2. /\ call'[o].op = call[o].op /\ call'[o].name = call[o].name
      /\ call'[o].machine = call[o].machine /\ call'[o].company = call[o].company
      /\ call'[o].at = "done" /\ call'[o].answer = "failed"
      /\ \A p \in Calls \ {o} : call'[p] = call[p]
  BY <1>1, AnswersProps
<1>3. Unfinished(o, call[o].machine)'
  BY <1>2 DEF Unfinished, Excused
<1>4. \A k : Unfinished(o, k) => Unfinished(o, k)'
  BY <1>2, <1>3 DEF Unfinished, Excused
<1>5. \A k \in machines' \ whole' : k \in machines \ whole \/ Unfinished(o, k)'
  BY <1>2, <1>3
<1>. QED BY <1>2, <1>4, <1>5, StepWhole

\* A call that is not at work on what createVM has to roll back may go on.
LEMMA GoWhole ==
  ASSUME SessionInv, WholeInv, NEW o \in Calls,
         call'[o].op = call[o].op, call'[o].name = call[o].name,
         call'[o].machine = call[o].machine, call'[o].company = call[o].company,
         call'[o].at = "done" \/ call'[o].answer = call[o].answer,
         \A p \in Calls \ {o} : call'[p] = call[p],
         call[o].at \in {"save", "close", "detach", "run", "wait"},
         call'[o].at \in {"register", "wait", "done"},
         call'[o].at = "register" => call[o].at = "save",
         UNCHANGED <<machines, whole>>,
         \A m \in Calls : owner'[m] \subseteq owner[m],
         \A m \in Calls : vm'[m] = vm[m] \/ vm[m] # "off"
  PROVE  WholeInv'
<1>1. ASSUME NEW k, Unfinished(o, k) PROVE Unfinished(o, k)'
  BY <1>1 DEF Unfinished, Excused
<1>. QED BY <1>1, StepWhole

LEMMA OpenSessionWhole ==
  ASSUME SessionInv, WholeInv, NEW o \in Calls, OpenSession(o)
  PROVE  WholeInv'
<1>. {"configure", "unregister"} \subseteq Steps
  BY DEF Steps
<1>1. call[o].at = "open" /\ call[o].machine = o /\ UNCHANGED <<machines, whole, vm>>
  BY DEF OpenSession, SessionInv
<1>2. CASE o \in machines /\ Closed(o) /\ Take(o, o) /\ Goto(o, "configure")
  <2>1. \A k \in Calls : owner'[k] = owner[k] \/ (k = o /\ owner'[k] = {o})
    BY <1>2 DEF Take, SessionInv, TypeOK
  <2>2. vm[o] = "off"
    BY <1>2 DEF Closed
  <2>3. \A k : Unfinished(o, k) => Unfinished(o, k)'
    BY <1>1, <1>2, GotoProps DEF Unfinished, Excused
  <2>. QED BY <1>1, <1>2, <2>1, <2>2, <2>3, GotoProps, StepWhole
<1>3. CASE UNCHANGED owner /\ Goto(o, "unregister")
  <2>1. \A k : Unfinished(o, k) => Unfinished(o, k)'
    BY <1>1, <1>3, GotoProps DEF Unfinished, Excused
  <2>2. CASE call[o].company = "met"
    <3>1. Excused(o, o)'
      BY <1>1, <1>3, <2>2, GotoProps DEF Excused
    <3>. QED BY <1>1, <1>3, <2>1, <3>1, GotoProps, StepWhole
  <2>3. CASE call[o].company # "met"
    <3>1. call[o].company = "alone" /\ call[o].op = "createVM" /\ InProgress(o)
      BY <1>1, <2>3 DEF SessionInv, TypeOK, CallState, WholeInv, InProgress
    <3>2. vm[o] = "off" /\ owner[o] \subseteq {o}
      BY <3>1 DEF WholeInv
    <3>3. owner[o] # {o}
      BY <1>1 DEF SessionInv
    <3>4. Closed(o)'
      BY <1>1, <1>3, <3>2, <3>3 DEF Closed
    <3>. QED BY <1>1, <1>3, <2>1, <3>4, GotoProps, StepWhole
  <2>. QED BY <2>2, <2>3
<1>4. CASE UNCHANGED owner /\ Answers(o, "failed")
  BY <1>1, <1>4, FailWhole
<1>. QED BY <1>2, <1>3, <1>4 DEF OpenSession

LEMMA ConfigureWhole ==
  ASSUME SessionInv, WholeInv, NEW o \in Calls, Configure(o)
  PROVE  WholeInv'
<1>. {"close", "unregister"} \subseteq Steps
  BY DEF Steps
<1>1. call[o].at = "configure" /\ call[o].machine = o /\ UNCHANGED <<machines, vm>>
  BY DEF Configure, SessionInv
<1>2. CASE whole' = whole \cup {o} /\ Goto(o, "close") /\ UNCHANGED owner
  <2>1. \A k \in machines' \ whole' : k \in machines \ whole /\ k # o
    BY <1>1, <1>2
  <2>2. \A k : Unfinished(o, k) => k = o
    BY <1>1 DEF Unfinished, Excused
  <2>. QED BY <1>1, <1>2, <2>1, <2>2, GotoProps, StepWhole
<1>3. CASE Release(o, o) /\ Goto(o, "unregister") /\ UNCHANGED whole
  <2>1. \A k \in Calls : owner'[k] \subseteq owner[k]
    BY <1>3, ReleaseShrinks
  <2>2. \A k : Unfinished(o, k) => Unfinished(o, k)'
    BY <1>1, <1>3, GotoProps DEF Unfinished, Excused
  <2>3. CASE call[o].company = "met"
    <3>1. Excused(o, o)'
      BY <1>1, <1>3, <2>3, GotoProps DEF Excused
    <3>. QED BY <1>1, <1>3, <2>1, <2>2, <3>1, GotoProps, StepWhole
  <2>4. CASE call[o].company # "met"
    <3>1. call[o].company = "alone" /\ call[o].op = "createVM" /\ InProgress(o)
      BY <1>1, <2>4 DEF SessionInv, TypeOK, CallState, WholeInv, InProgress
    <3>2. vm[o] = "off" /\ owner[o] \subseteq {o}
      BY <3>1 DEF WholeInv
    <3>3. owner'[o] = {}
      BY <1>3, <3>2 DEF Release, SessionInv, TypeOK
    <3>4. Closed(o)'
      BY <1>1, <3>2, <3>3 DEF Closed
    <3>. QED BY <1>1, <1>3, <2>1, <2>2, <3>4, GotoProps, StepWhole
  <2>. QED BY <2>3, <2>4
<1>4. CASE Answers(o, "failed") /\ UNCHANGED <<whole, owner>>
  BY <1>1, <1>4, FailWhole
<1>. QED BY <1>2, <1>3, <1>4 DEF Configure

\* What is not unregistered, though VirtualBox did not fail, is not closed; so there was an
\* excuse before.
LEMMA UnregisterWhole ==
  ASSUME SessionInv, WholeInv, NEW o \in Calls, Unregister(o)
  PROVE  WholeInv'
<1>. DEFINE m == call[o].machine
<1>. {"raised", "True"} \subseteq AnswersOfCalls /\ machines \subseteq Calls
  BY DEF AnswersOfCalls, SessionInv, TypeOK
<1>1. call[o].at = "unregister" /\ UNCHANGED <<whole, owner, vm>>
  BY DEF Unregister
<1>2. \A k : Unfinished(o, k) => k = m
  BY DEF Unfinished, Excused
<1>3. CASE Answers(o, "failed")
  BY <1>1, <1>3, FailWhole DEF Unregister
<1>4. ASSUME NEW answer \in {"raised", "True"}, Answers(o, answer),
             machines' = machines \ {m}
      PROVE  WholeInv'
  BY <1>1, <1>2, <1>4, AnswersProps, StepWhole
<1>5. CASE ~ (m \in machines /\ Closed(m)) /\ Answers(o, "raised") /\ UNCHANGED machines
  <2>1. ASSUME NEW p \in Calls, NEW k, Excused(p, k) PROVE Excused(p, k)'
    <3>1. CASE p = o
      BY <1>1, <1>5, <2>1, <3>1, AnswersProps DEF Excused
    <3>2. CASE p # o
      BY <1>5, <2>1, <3>2, AnswersProps DEF Excused
    <3>. QED BY <3>1, <3>2
  <2>2. ASSUME NEW k \in machines' \ whole', Unfinished(o, k)
        PROVE  \E p \in Calls : Unfinished(p, k)'
    <3>1. k = m /\ ~ Closed(m)
      BY <1>2, <1>5, <2>2
    <3>2. PICK p \in Calls : Excused(p, m)
      BY <1>1, <3>1 DEF WholeInv
    <3>. QED BY <2>1, <3>1, <3>2 DEF Unfinished
  <2>. QED BY <1>1, <1>5, <2>2, AnswersProps, StepWhole
<1>. QED BY <1>3, <1>4, <1>5 DEF Unregister

LEMMA DetachWhole ==
  ASSUME SessionInv, WholeInv, NEW o \in Calls, Detach(o)
  PROVE  WholeInv'
<1>. DEFINE m == call[o].machine
<1>. /\ "unregister" \in Steps /\ "raised" \in AnswersOfCalls /\ m \in Calls
     /\ machines \subseteq Calls
     /\ owner \in [Calls -> {{}} \cup {{p} : p \in Calls}]
  BY DEF Steps, AnswersOfCalls, SessionInv, TypeOK, CallState
<1>1. call[o].at = "detach" /\ InProgress(o) /\ UNCHANGED <<machines, vm>>
  BY DEF Detach, InProgress
<1>2. CASE owner[m] # {} /\ whole' = whole \ {m} /\ Release(o, m) /\ Goto(o, "unregister")
  <2>1. \A k \in Calls : owner'[k] \subseteq owner[k]
    BY <1>2, ReleaseShrinks
  <2>2. /\ \A k \in Calls : k = m => Unfinished(o, k)'
        /\ \A k \in Calls : Unfinished(o, k) => k = m
    BY <1>2, GotoProps DEF Unfinished, Excused
  <2>3. \A k \in machines' \ whole' : k \in machines \ whole \/ Unfinished(o, k)'
    BY <1>1, <1>2, <2>2
  <2>4. Closed(m)' \/ \E p \in Calls : Excused(p, m)'
    <3>1. PICK p \in Calls : owner[m] = {p}
      BY <1>2
    <3>2. CASE p = o
      <4>1. owner'[m] = {} /\ vm[m] = "off"
        BY <1>2, <3>1, <3>2 DEF Release, WholeInv, CompanyInv
      <4>. QED BY <1>1, <1>2, <4>1, GotoProps DEF Closed
    <3>3. CASE p # o /\ InProgress(p)
      <4>1. call[p].machine = m
        BY <3>1 DEF SessionInv
      <4>2. call[p].name = call[o].name
        BY <1>1, <3>3, <4>1 DEF InProgress, WholeInv, CompanyInv
      <4>3. call[p].company = "met"
        BY <1>1, <3>3, <4>2 DEF WholeInv, CompanyInv
      <4>. QED BY <1>2, <3>3, <4>1, <4>3, GotoProps DEF Excused
    <3>4. CASE p # o /\ ~ InProgress(p)
      <4>1. Excused(p, m)
        BY <3>1, <3>4 DEF SessionInv, InProgress, Excused
      <4>. QED BY <1>2, <3>4, <4>1, GotoProps DEF Excused
    <3>. QED BY <3>2, <3>3, <3>4
  <2>. QED BY <1>1, <1>2, <2>1, <2>2, <2>3, <2>4, GotoProps, StepWhole
<1>3. CASE whole' \in {whole, whole \ {m}} /\ UNCHANGED owner /\ Answers(o, "failed")
  BY <1>1, <1>3, FailWhole
<1>4. CASE UNCHANGED <<whole, owner>> /\ Answers(o, "raised")
  BY <1>1, <1>4, AnswersProps, GoWhole
<1>. QED BY <1>2, <1>3, <1>4 DEF Detach

LEMMA RunWhole ==
  ASSUME SessionInv, WholeInv, NEW o \in Calls, Run(o)
  PROVE  WholeInv'
<1>. DEFINE m == call[o].machine
<1>. /\ {"None", "raised", "True"} \subseteq AnswersOfCalls /\ m \in Calls
     /\ call \in [Calls -> CallState] /\ call[o] \in CallState /\ vm \in [Calls -> VMStates]
  BY DEF AnswersOfCalls, SessionInv, TypeOK, CallState
<1>1. call[o].at = "run" /\ UNCHANGED <<machines, whole>>
  BY DEF Run
<1>2. ASSUME NEW answer \in {"None", "raised"}, Answers(o, answer), UNCHANGED vm, Release(o, m)
      PROVE  WholeInv'
  <2>1. \A k \in Calls : owner'[k] \subseteq owner[k]
    BY <1>2, ReleaseShrinks
  <2>. QED BY <1>1, <1>2, <2>1, AnswersProps, GoWhole
<1>3. CASE UNCHANGED <<vm, owner>> /\ Answers(o, "failed")
  BY <1>1, <1>3, FailWhole
<1>4. CASE Operate(o)
  <2>1. (\A k \in Calls : vm'[k] = vm[k] \/ vm[k] # "off") /\ UNCHANGED owner
    BY <1>4 DEF Operate, Accepts
  <2>2. CASE Answers(o, "True")
    BY <1>1, <2>1, <2>2, AnswersProps, GoWhole
  <2>3. CASE call' = [call EXCEPT ![o].at = "wait", ![o].progress = "running"]
    <3>. DEFINE c == [[call[o] EXCEPT !.at = "wait"] EXCEPT !.progress = "running"]
    <3>1. /\ c.op = call[o].op /\ c.name = call[o].name /\ c.machine = m /\ c.at = "wait"
          /\ c.answer = call[o].answer /\ c.company = call[o].company
      BY DEF CallState
    <3>2. call' = [call EXCEPT ![o] = c]
      BY <2>3 DEF CallState
    <3>3. /\ call'[o].op = call[o].op /\ call'[o].name = call[o].name
          /\ call'[o].machine = m /\ call'[o].at = "wait"
          /\ call'[o].answer = call[o].answer /\ call'[o].company = call[o].company
          /\ \A p \in Calls \ {o} : call'[p] = call[p]
      <4>. HIDE DEF c
      <4>. QED BY <3>1, <3>2
    <3>. QED BY <1>1, <2>1, <3>3, GoWhole
  <2>. QED BY <1>4, <2>2, <2>3 DEF Operate
<1>. QED BY <1>1, <1>2, <1>3, <1>4 DEF Run

LEMMA CallStepWhole ==
  ASSUME SessionInv, WholeInv, NEW o \in Calls, CallStep(o)
  PROVE  WholeInv'
<1>. /\ {"register", "open"} \subseteq Steps
     /\ {"True", "False", "raised"} \subseteq AnswersOfCalls
  BY DEF Steps, AnswersOfCalls
<1>1. CASE SaveSettings(o)
  BY <1>1, GotoProps, AnswersProps, GoWhole DEF SaveSettings
<1>2. CASE RegisterMachine(o)
  <2>1. call[o].at = "register" /\ call[o].machine = o /\ UNCHANGED <<whole, owner, vm>>
    BY <1>2 DEF RegisterMachine, SessionInv
  <2>2. CASE machines' = machines \cup {o} /\ Goto(o, "open")
    <3>1. Unfinished(o, o)' /\ \A k : Unfinished(o, k) => Unfinished(o, k)'
      BY <2>1, <2>2, GotoProps DEF Unfinished, Excused
    <3>. QED BY <2>1, <2>2, <3>1, GotoProps, StepWhole
  <2>3. CASE UNCHANGED machines /\ Answers(o, "raised")
    <3>1. \A k : Unfinished(o, k) => Unfinished(o, k)'
      BY <2>1, <2>3, AnswersProps DEF Unfinished, Excused
    <3>. QED BY <2>1, <2>3, <3>1, AnswersProps, StepWhole
  <2>. QED BY <1>2, <2>2, <2>3 DEF RegisterMachine
<1>3. CASE OpenSession(o)
  BY <1>3, OpenSessionWhole
<1>4. CASE Configure(o)
  BY <1>4, ConfigureWhole
<1>5. CASE Close(o)
  <2>1. call[o].at = "close" /\ UNCHANGED <<machines, whole, vm>>
    BY <1>5 DEF Close
  <2>2. CASE Release(o, o) /\ Answers(o, "True")
    <3>1. \A k \in Calls : owner'[k] \subseteq owner[k]
      BY <2>2, ReleaseShrinks
    <3>. QED BY <2>1, <2>2, <3>1, AnswersProps, GoWhole
  <2>3. CASE UNCHANGED owner /\ Answers(o, "failed")
    BY <2>1, <2>3, FailWhole
  <2>. QED BY <1>5, <2>2, <2>3 DEF Close
<1>6. CASE Unregister(o)
  BY <1>6, UnregisterWhole
<1>7. CASE Detach(o)
  BY <1>7, DetachWhole
<1>8. CASE Run(o)
  BY <1>8, RunWhole
<1>9. CASE Wait(o)
  BY <1>9, AnswersProps, GoWhole DEF Wait, Outcomes
<1>. QED BY <1>1, <1>2, <1>3, <1>4, <1>5, <1>6, <1>7, <1>8, <1>9 DEF CallStep

\* A session that is shared or taken is that of a machine of the name of the call.
LEMMA GetSessionWhole ==
  ASSUME SessionInv, WholeInv, NEW o \in Calls, NEW op \in Operations \ {"createVM"},
         NEW n \in Names, NEW at \in {"detach", "run"}, NEW otherwise \in AnswersOfCalls,
         GetSession(o, op, n, at, otherwise)
  PROVE  WholeInv'
<1>. /\ at \in Steps /\ "done" \in Steps /\ "none" \in AnswersOfCalls /\ op \in Operations
     /\ UNCHANGED <<machines, whole, vm>>
  BY DEF Steps, AnswersOfCalls, GetSession
<1>1. \A k \in Calls : owner[k] = {} \/ vm[k] = "off"
  BY DEF WholeInv, CompanyInv
<1>2. ASSUME NEW m \in Named(n), Begin(o, op, n, m, at, "none"), Closed(m), Take(o, m)
      PROVE  WholeInv'
  <2>1. m \in Calls
    BY DEF Named, SessionInv, TypeOK
  <2>2. \A k \in Calls : k = m \/ owner'[k] = owner[k]
    BY <1>2, <2>1 DEF Take, SessionInv, TypeOK
  <2>3. \A k \in Calls : owner'[k] = {} \/ vm'[k] = "off"
    BY <1>1, <1>2, <2>2 DEF Closed
  <2>. QED BY <1>2, <2>1, <2>2, <2>3, BeginWhole
<1>3. ASSUME NEW m \in Named(n), Begin(o, op, n, m, at, "none"), UNCHANGED owner
      PROVE  WholeInv'
  <2>1. m \in Calls
    BY DEF Named, SessionInv, TypeOK
  <2>. QED BY <1>1, <1>3, <2>1, BeginWhole
<1>4. CASE Begin(o, op, n, o, "done", otherwise) /\ UNCHANGED owner
  BY <1>1, <1>4, BeginWhole
<1>. QED BY <1>2, <1>3, <1>4 DEF GetSession

LEMMA StartWhole ==
  ASSUME SessionInv, WholeInv, NEW o \in Calls, NEW n \in Names, Start(o, n)
  PROVE  WholeInv'
<1>. /\ {"wait", "done"} \subseteq Steps /\ {"none", "raised"} \subseteq AnswersOfCalls
     /\ "start" \in Operations /\ UNCHANGED <<machines, whole, owner>>
  BY DEF Steps, AnswersOfCalls, Operations, Start
<1>1. \A k \in Calls : owner[k] = {} \/ vm[k] = "off"
  BY DEF WholeInv, CompanyInv
<1>2. ASSUME NEW m \in Named(n), Closed(m), vm' = [vm EXCEPT ![m] = "starting"],
             Begin(o, "start", n, m, "wait", "none")
      PROVE  WholeInv'
  <2>1. m \in Calls
    BY DEF Named, SessionInv, TypeOK
  <2>2. \A k \in Calls : k = m \/ vm'[k] = vm[k]
    BY <1>2, <2>1 DEF SessionInv, TypeOK
  <2>3. \A k \in Calls : owner'[k] = {} \/ vm'[k] = "off"
    BY <1>1, <1>2, <2>2 DEF Closed
  <2>. QED BY <1>2, <2>1, <2>2, <2>3, BeginWhole
<1>3. CASE Begin(o, "start", n, o, "done", "raised") /\ UNCHANGED vm
  BY <1>1, <1>3, BeginWhole
<1>. QED BY <1>2, <1>3 DEF Start

LEMMA CreateVMWhole ==
  ASSUME SessionInv, WholeInv, NEW o \in Calls, NEW n \in Names, CreateVM(o, n)
  PROVE  WholeInv'
<1>. /\ {"save", "done"} \subseteq Steps /\ {"none", "raised"} \subseteq AnswersOfCalls
     /\ "createVM" \in Operations /\ UNCHANGED <<machines, whole, owner, vm>>
  BY DEF Steps, AnswersOfCalls, Operations, CreateVM
<1>1. \A k \in Calls : owner[k] = {} \/ vm[k] = "off"
  BY DEF WholeInv, CompanyInv
<1>2. CASE Begin(o, "createVM", n, o, "save", "none")
  BY <1>1, <1>2, BeginWhole
<1>3. CASE Begin(o, "createVM", n, o, "done", "raised")
  BY <1>1, <1>3, BeginWhole
<1>. QED BY <1>2, <1>3 DEF CreateVM

\* Only a VM that is not off changes by itself.
LEMMA VMProcessWhole ==
  ASSUME SessionInv, WholeInv, NEW m \in Calls, NEW from \in VMStates \ {"off"}, NEW to,
         NEW outcome, VMProcess(m, from, to, outcome)
  PROVE  WholeInv'
<1>1. \A p \in Calls : /\ call'[p].op = call[p].op
                       /\ call'[p].name = call[p].name
                       /\ call'[p].machine = call[p].machine
                       /\ call'[p].at = call[p].at
                       /\ call'[p].answer = call[p].answer
                       /\ call'[p].company = call[p].company
  <2>1. \A p \in Calls : call[p] \in CallState
    BY DEF SessionInv, TypeOK
  <2>. QED BY <2>1 DEF VMProcess, CallState
<1>2. UNCHANGED <<machines, whole, owner>> /\ \A p \in Calls : call[p].machine \in Calls
  BY DEF VMProcess, SessionInv, TypeOK, CallState
<1>3. vm[m] # "off" /\ \A k \in Calls \ {m} : vm'[k] = vm[k]
  BY DEF VMProcess, SessionInv, TypeOK
<1>4. \A k \in Calls : /\ Exists(k)' => Exists(k)
                       /\ InProgress(k)' <=> InProgress(k)
                       /\ vm[k] = "off" => vm'[k] = "off"
                       /\ owner'[k] = {} \/ vm'[k] = "off"
                       /\ Closed(k) => Closed(k)'
  BY <1>1, <1>2, <1>3 DEF Exists, InProgress, Closed, WholeInv, CompanyInv
<1>5. \A p \in Calls, k \in Calls : /\ Excused(p, k) => Excused(p, k)'
                                    /\ Unfinished(p, k) => Unfinished(p, k)'
  BY <1>1 DEF Unfinished, Excused
<1>6. \A k \in machines' : k \in Calls
  BY <1>2 DEF SessionInv, TypeOK
<1>7. CompanyInv'
  BY <1>1, <1>2, <1>4 DEF WholeInv, CompanyInv, NameOf
<1>8. ASSUME NEW d \in Calls, call'[d].at = "unregister"
      PROVE  Closed(call[d].machine)' \/ \E p \in Calls : Excused(p, call[d].machine)'
  BY <1>1, <1>2, <1>4, <1>5, <1>8 DEF WholeInv
<1>. QED BY <1>1, <1>2, <1>4, <1>5, <1>6, <1>7, <1>8 DEF WholeInv

\* A call that a restart ends has no answer.
LEMMA HostRestartWhole ==
  ASSUME SessionInv, WholeInv, HostRestart
  PROVE  WholeInv'
<1>1. \A p \in Calls : /\ call'[p].op = call[p].op
                       /\ call'[p].name = call[p].name
                       /\ call'[p].machine = call[p].machine
                       /\ call'[p].answer = call[p].answer
                       /\ call'[p].company = call[p].company
                       /\ call'[p].at = IF InProgress(p) THEN "done" ELSE call[p].at
                       /\ ~ InProgress(p)'
  <2>1. \A p \in Calls : call[p] \in CallState
    BY DEF SessionInv, TypeOK
  <2>. QED BY <2>1 DEF HostRestart, InProgress, CallState
<1>2. machines' = machines /\ whole' = whole /\ vm' = vm /\ \A k \in Calls : owner'[k] = {}
  BY DEF HostRestart
<1>3. \A k \in Calls : Exists(k)' => Exists(k)
  BY <1>2 DEF Exists
<1>4. \A k \in Calls :
        /\ call'[k].at \notin {"save", "register", "open", "configure", "close", "unregister"}
        /\ call[k].at = "idle" <=> call'[k].at = "idle"
        /\ call[k].machine \in Calls
  BY <1>1 DEF InProgress, SessionInv, TypeOK, CallState
<1>5. ASSUME NEW p \in Calls, NEW k, Unfinished(p, k) PROVE Unfinished(p, k)'
  <2>1. CASE InProgress(p)
    BY <1>1, <1>5, <2>1 DEF Unfinished, Excused, WholeInv, InProgress
  <2>2. CASE ~ InProgress(p)
    BY <1>1, <1>5, <2>2 DEF Unfinished, Excused, InProgress
  <2>. QED BY <2>1, <2>2
<1>6. CompanyInv'
  BY <1>1, <1>2, <1>4 DEF WholeInv, CompanyInv, NameOf
<1>. QED BY <1>1, <1>2, <1>3, <1>4, <1>5, <1>6 DEF WholeInv

\* With SessionInv, WholeInv is inductive.
LEMMA NextWhole == SessionInv /\ WholeInv /\ [Next]_vars => WholeInv'
<1>. SUFFICES ASSUME SessionInv, WholeInv, [Next]_vars PROVE WholeInv'
  OBVIOUS
<1>1. ASSUME NEW o \in Calls, CallStep(o) PROVE WholeInv'
  BY <1>1, CallStepWhole
<1>2. ASSUME NEW o \in Calls, NEW n \in Names, CreateVM(o, n) PROVE WholeInv'
  BY <1>2, CreateVMWhole
<1>3. ASSUME NEW o \in Calls, NEW n \in Names, DestroyVM(o, n) PROVE WholeInv'
  <2>. "destroyVM" \in Operations \ {"createVM"} /\ "raised" \in AnswersOfCalls
    BY DEF Operations, AnswersOfCalls
  <2>. QED BY <1>3, GetSessionWhole DEF DestroyVM
<1>4. ASSUME NEW o \in Calls, NEW n \in Names, Start(o, n) PROVE WholeInv'
  BY <1>4, StartWhole
<1>5. ASSUME NEW o \in Calls, NEW n \in Names, NEW op \in Commands, ExecProgressCmd(o, op, n)
      PROVE  WholeInv'
  <2>. op \in Operations \ {"createVM"} /\ "None" \in AnswersOfCalls
    BY CommandsAssumption DEF Operations, AnswersOfCalls
  <2>. QED BY <1>5, GetSessionWhole DEF ExecProgressCmd
<1>6. ASSUME NEW m \in Calls, VMStarts(m) \/ VMFailsToStart(m) \/ GuestShutsDown(m) \/ VMEnds(m)
      PROVE  WholeInv'
  BY <1>6, VMProcessWhole DEF VMStarts, VMFailsToStart, GuestShutsDown, VMEnds, VMStates
<1>7. CASE HostRestart
  BY <1>7, HostRestartWhole
<1>8. CASE UNCHANGED vars
  BY <1>8 DEF vars, WholeInv, CompanyInv, NameOf, Exists, Closed, InProgress, Unfinished, Excused
<1>. QED BY <1>1, <1>2, <1>3, <1>4, <1>5, <1>6, <1>7, <1>8 DEF Next

\* createVM works all or nothing: a registered machine is whole, but for a call that is still
\* at work on it, was not alone with it or ended with the agent, or of which VirtualBox failed
\* a request that no clean-up follows, or one of the clean-up.
THEOREM CreatedWhole == Spec => []WholeAtRest
<1>1. SessionInv /\ WholeInv => WholeAtRest
  <2>. SUFFICES ASSUME WholeInv, NEW m \in machines \ whole
                PROVE  \E o \in Calls : /\ call[o].machine = m
                                        /\ \/ InProgress(o) \/ call[o].company = "met"
                                           \/ call[o].answer \in {"none", "failed"}
    BY DEF WholeAtRest
  <2>1. PICK o \in Calls : Unfinished(o, m)
    BY DEF WholeInv
  <2>. QED BY <2>1 DEF Unfinished, Excused, InProgress
<1>. QED BY <1>1, WholeInit, Invariance, NextWhole, PTL DEF Spec
=============================================================================
