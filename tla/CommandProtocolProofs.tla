------------------------ MODULE CommandProtocolProofs -------------------------
(***************************************************************************)
(* Proofs about the whole exchange, for any VMs, commands, numbers of      *)
(* connections and faults: a HELLO the host hears means that the VM is     *)
(* listening, and the exchange implements CommandService.                  *)
(***************************************************************************)
EXTENDS CommandProtocol, TLAPS

BrokerProofs == INSTANCE TopicBrokerProofs WITH Topics <- {CONN, CMD_REQ, CMD_RES}
RegistryProofs == INSTANCE CommandRegistryProofs WITH Requests <- VMs, Results <- VMs

-----------------------------------------------------------------------------
(* The invariant *)

BrokerInv == Broker!BTypeOK /\ Broker!NoLeakedSubscriber /\ Broker!LockDiscipline

\* A client has one open connection, its transport; what a VM executes was sent to it.
LocalInv ==
  /\ transport \in [Clients -> Conns \cup {NoConn}]
  /\ vms \subseteq VMs
  /\ up \subseteq VMs
  /\ running \in [VMs -> SUBSET CmdIds]
  /\ executed \subseteq issued
  /\ \A c \in Clients : transport[c] # NoConn => transport[c][1] = c
  /\ \A d \in Conns : sock[d] = "open" => transport[d[1]] = d
  /\ \A d \in Conns : toClient[d] # <<>> => sock[d] = "open"
  /\ \A v \in VMs : \A id \in running[v] : id \in executed /\ Target[id] = v

\* The i-th frame of c, or one before it, has or will have it subscribed to the commands.
Subscribed(c, i) == \/ c \in topics[CMD_REQ]
                    \/ \E j \in 1 .. i - 1 : toBroker[c][j] = Broker!Subscribe(CMD_REQ)

SaysHello(f) == f.cmd = "SEND" /\ f.msg.word = "HELLO"
TellsHello(f) == f.cmd = "MESSAGE" /\ f.msg.word = "HELLO"

\* A HELLO speaks of the connection it is on, behind a SUBSCRIBE; once it is broadcast the
\* connection is subscribed, or over.
HelloInv ==
  /\ \A c \in Conns : \A i \in DOMAIN toBroker[c] :
       SaysHello(toBroker[c][i]) => toBroker[c][i].msg.conn = c /\ Subscribed(c, i)
  /\ \A d \in Conns : \A j \in DOMAIN toClient[d] :
       TellsHello(toClient[d][j]) =>
         LET conn == toClient[d][j].msg.conn
         IN  conn \in Conns /\ (conn \in topics[CMD_REQ] \/ sock[conn] = "closed")

\* What is said once: each command, and its result by the VM it is for.
Answer(id) == CmdResult(id, Target[id])
Trips == {CmdRun(id) : id \in CmdIds} \cup {Answer(id) : id \in CmdIds}

IsOver(id) == id \in executed /\ \A v \in VMs : id \notin running[v]

\* The client the word is for, whether it may have been said, and whether it has been taken.
Reader(m) == IF m.word = "CMD_RUN" THEN Target[m.id] ELSE Host
Begun(m) == IF m.word = "CMD_RUN" THEN m.id \in issued ELSE IsOver(m.id)
Taken(m) == IF m.word = "CMD_RUN" THEN m.id \in executed ELSE m.id \in DOMAIN cmdReqsRetired

\* The word is the i-th frame of c on its way to the broker, the j-th to d.
Asked(c, i, m) == /\ i \in DOMAIN toBroker[c]
                  /\ toBroker[c][i].cmd = "SEND"
                  /\ toBroker[c][i].msg = m
Told(d, j, m) == /\ j \in DOMAIN toClient[d]
                 /\ toClient[d][j].cmd = "MESSAGE"
                 /\ toClient[d][j].msg = m

Arrived(m) == \/ Taken(m)
              \/ \E d \in Conns : /\ d[1] = Reader(m)
                                  /\ \E j \in DOMAIN toClient[d] : Told(d, j, m)

\* A word is on its way at most once: to the broker; then, while it is broadcast, or after,
\* to its reader; then it is taken, a command into execution, a result by the registry.
TripOf(m) ==
  /\ \A c \in Conns : \A i \in DOMAIN toBroker[c] : Asked(c, i, m) => Begun(m)
  /\ \A d \in Conns : \A j \in DOMAIN toClient[d] : Told(d, j, m) => Begun(m)
  /\ \A c, d \in Conns : \A i \in DOMAIN toBroker[c], j \in DOMAIN toBroker[d] :
       Asked(c, i, m) /\ Asked(d, j, m) => c = d /\ i = j
  /\ \A d \in Conns : \A i, j \in DOMAIN toClient[d] :
       d[1] = Reader(m) /\ Told(d, i, m) /\ Told(d, j, m) => i = j
  /\ \A c \in Conns : \A i \in DOMAIN toBroker[c] :
       Asked(c, i, m) /\ Arrived(m) =>
         /\ c = lock /\ i = 1
         /\ \A d \in unserved : d[1] = Reader(m) => sock[d] # "open"
  /\ \A d \in Conns : \A j \in DOMAIN toClient[d] :
       d[1] = Reader(m) /\ Told(d, j, m) => ~ Taken(m)

TripInv == \A m \in Trips : TripOf(m)

\* A result is that of a command that is over, said by the VM it was sent to; so is what the
\* host has retired.
IsResult(m) == m.word = "CMD_RESULT" => IsOver(m.id) /\ m.from = Target[m.id]

ResultInv ==
  /\ \A c \in Conns : \A i \in DOMAIN toBroker[c] :
       toBroker[c][i].cmd = "SEND" => IsResult(toBroker[c][i].msg)
  /\ \A d \in Conns : \A j \in DOMAIN toClient[d] :
       toClient[d][j].cmd = "MESSAGE" => IsResult(toClient[d][j].msg)
  /\ \A id \in DOMAIN cmdReqsRetired : IsOver(id)

\* A host that is not restarted forgets no command.
KnownInv == "restart" \notin Faults =>
              issued \subseteq DOMAIN cmdReqsSent \cup DOMAIN cmdReqsRetired

ProtocolInv == /\ BrokerInv /\ Registry!RegistryInv /\ KnownInv
               /\ LocalInv /\ HelloInv /\ TripInv /\ ResultInv

-----------------------------------------------------------------------------
(* The broker inside the exchange *)

\* TopicBroker's formulas are the same seen from here and from its proofs.
LEMMA SameBroker ==
  /\ BrokerInv <=> BrokerProofs!BrokerInv
  /\ BrokerInv' <=> BrokerProofs!BrokerInv'
  /\ Broker!BInit <=> BrokerProofs!BInit
  /\ Broker!ClientFrames = BrokerProofs!ClientFrames
  /\ Broker!BrokerStep <=> BrokerProofs!BrokerStep
  /\ Broker!BrokerRestart <=> BrokerProofs!BrokerRestart
  /\ \A c : /\ Broker!Open(c) <=> BrokerProofs!Open(c)
            /\ Broker!Lose(c) <=> BrokerProofs!Lose(c)
            /\ \A n : Broker!Misread(c, n) <=> BrokerProofs!Misread(c, n)
            /\ \A fs : /\ Broker!Write(c, fs) <=> BrokerProofs!Write(c, fs)
                       /\ Broker!Receive(c, fs) <=> BrokerProofs!Receive(c, fs)
<1>1. Broker!ClientFrames = BrokerProofs!ClientFrames
  BY DEF Broker!ClientFrames, BrokerProofs!ClientFrames, Broker!Connect, BrokerProofs!Connect,
         Broker!Subscribe, BrokerProofs!Subscribe, Broker!Send, BrokerProofs!Send
<1>2. BrokerInv <=> BrokerProofs!BrokerInv
  BY <1>1 DEF BrokerInv, BrokerProofs!BrokerInv, Broker!BTypeOK, BrokerProofs!BTypeOK,
         Broker!NoLeakedSubscriber, BrokerProofs!NoLeakedSubscriber, Broker!LockDiscipline,
         BrokerProofs!LockDiscipline, Broker!NextFrame, BrokerProofs!NextFrame, Broker!Served,
         BrokerProofs!Served, Broker!BrokerFrames, BrokerProofs!BrokerFrames
<1>3. BrokerInv' <=> BrokerProofs!BrokerInv'
  BY <1>1 DEF BrokerInv, BrokerProofs!BrokerInv, Broker!BTypeOK, BrokerProofs!BTypeOK,
         Broker!NoLeakedSubscriber, BrokerProofs!NoLeakedSubscriber, Broker!LockDiscipline,
         BrokerProofs!LockDiscipline, Broker!NextFrame, BrokerProofs!NextFrame, Broker!Served,
         BrokerProofs!Served, Broker!BrokerFrames, BrokerProofs!BrokerFrames
<1>4. Broker!BInit <=> BrokerProofs!BInit
  BY DEF Broker!BInit, BrokerProofs!BInit
<1>5. Broker!BrokerRestart <=> BrokerProofs!BrokerRestart
  BY DEF Broker!BrokerRestart, BrokerProofs!BrokerRestart, Broker!Served, BrokerProofs!Served
<1>6. ASSUME NEW c
      PROVE  /\ Broker!Open(c) <=> BrokerProofs!Open(c)
             /\ Broker!Lose(c) <=> BrokerProofs!Lose(c)
             /\ \A n : Broker!Misread(c, n) <=> BrokerProofs!Misread(c, n)
             /\ \A fs : /\ Broker!Write(c, fs) <=> BrokerProofs!Write(c, fs)
                        /\ Broker!Receive(c, fs) <=> BrokerProofs!Receive(c, fs)
  BY DEF Broker!Open, BrokerProofs!Open, Broker!Lose, BrokerProofs!Lose, Broker!Misread,
         BrokerProofs!Misread, Broker!Write, BrokerProofs!Write, Broker!Receive,
         BrokerProofs!Receive, Broker!Connect, BrokerProofs!Connect
<1>7. ASSUME NEW c
      PROVE  Broker!HandlerStep(c) <=> BrokerProofs!HandlerStep(c)
  <2>1. Broker!EngineConnect(c) <=> BrokerProofs!EngineConnect(c)
    BY DEF Broker!EngineConnect, BrokerProofs!EngineConnect, Broker!NextFrame,
           BrokerProofs!NextFrame, Broker!Served, BrokerProofs!Served, Broker!Done,
           BrokerProofs!Done, Broker!Reply, BrokerProofs!Reply, Broker!Connected,
           BrokerProofs!Connected
  <2>2. Broker!EngineSubscribe(c) <=> BrokerProofs!EngineSubscribe(c)
    BY DEF Broker!EngineSubscribe, BrokerProofs!EngineSubscribe, Broker!NextFrame,
           BrokerProofs!NextFrame, Broker!Served, BrokerProofs!Served, Broker!Done,
           BrokerProofs!Done
  <2>3. Broker!BeginSend(c) <=> BrokerProofs!BeginSend(c)
    BY DEF Broker!BeginSend, BrokerProofs!BeginSend, Broker!NextFrame,
           BrokerProofs!NextFrame, Broker!Served, BrokerProofs!Served
  <2>4. Broker!ServeSubscriber(c) <=> BrokerProofs!ServeSubscriber(c)
    BY DEF Broker!ServeSubscriber, BrokerProofs!ServeSubscriber, Broker!Reply,
           BrokerProofs!Reply, Broker!Message, BrokerProofs!Message
  <2>5. Broker!ServeFails(c) <=> BrokerProofs!ServeFails(c)
    BY DEF Broker!ServeFails, BrokerProofs!ServeFails, Broker!Reply, BrokerProofs!Reply,
           Broker!Done, BrokerProofs!Done, Broker!Error, BrokerProofs!Error
  <2>6. Broker!Finish(c) <=> BrokerProofs!Finish(c)
    BY DEF Broker!Finish, BrokerProofs!Finish
  <2>. QED BY <2>1, <2>2, <2>3, <2>4, <2>5, <2>6
           DEF Broker!HandlerStep, BrokerProofs!HandlerStep
<1>8. Broker!EndSend <=> BrokerProofs!EndSend
  BY DEF Broker!EndSend, BrokerProofs!EndSend, Broker!Done, BrokerProofs!Done
<1>9. Broker!BrokerStep <=> BrokerProofs!BrokerStep
  BY <1>7, <1>8 DEF Broker!BrokerStep, BrokerProofs!BrokerStep
<1>. QED BY <1>1, <1>2, <1>3, <1>4, <1>5, <1>6, <1>9

\* What clients do to their connections, and the broker's own steps, keep its invariant.
LEMMA BrokerKept ==
  ASSUME BrokerInv
  PROVE  /\ \A c \in Conns : Broker!Open(c) \/ Broker!Lose(c) => BrokerInv'
         /\ \A c \in Conns : (\E n \in 1 .. Len(toClient[c]) : Broker!Misread(c, n)) => BrokerInv'
         /\ \A c : \A fs \in Seq(Broker!ClientFrames) : Broker!Write(c, fs) => BrokerInv'
         /\ \A c \in Conns : \A fs \in Seq(Broker!ClientFrames) :
              Broker!Receive(c, fs) => BrokerInv'
         /\ Broker!BrokerStep \/ Broker!BrokerRestart => BrokerInv'
         /\ UNCHANGED brokerVars => BrokerInv'
<1>. USE ProtocolAssumptions
<1>1. BrokerProofs!BrokerInv
  BY SameBroker
<1>2. ASSUME NEW c \in Conns, BrokerProofs!Open(c)
      PROVE  BrokerProofs!BrokerInv'
  BY <1>1, <1>2, BrokerProofs!ClientInv
<1>3. ASSUME NEW c \in Conns, BrokerProofs!Lose(c)
      PROVE  BrokerProofs!BrokerInv'
  BY <1>1, <1>3, BrokerProofs!LoseInv
<1>4. ASSUME NEW c \in Conns, NEW n \in 1 .. Len(toClient[c]), BrokerProofs!Misread(c, n)
      PROVE  BrokerProofs!BrokerInv'
  BY <1>1, <1>4, BrokerProofs!ClientInv
<1>5. ASSUME NEW c, NEW fs \in Seq(BrokerProofs!ClientFrames), BrokerProofs!Write(c, fs)
      PROVE  BrokerProofs!BrokerInv'
  BY <1>1, <1>5, BrokerProofs!ClientInv
<1>6. ASSUME NEW c \in Conns, NEW fs \in Seq(BrokerProofs!ClientFrames),
             BrokerProofs!Receive(c, fs)
      PROVE  BrokerProofs!BrokerInv'
  BY <1>1, <1>6, BrokerProofs!ClientInv
<1>7. ASSUME BrokerProofs!BrokerStep \/ BrokerProofs!BrokerRestart
      PROVE  BrokerProofs!BrokerInv'
  BY <1>1, <1>7, BrokerProofs!NextInv DEF BrokerProofs!BNext
<1>8. ASSUME UNCHANGED brokerVars
      PROVE  BrokerProofs!BrokerInv'
  BY <1>1, <1>8, BrokerProofs!NextInv DEF brokerVars, BrokerProofs!bvars
<1>. QED BY <1>2, <1>3, <1>4, <1>5, <1>6, <1>7, <1>8, SameBroker

-----------------------------------------------------------------------------
(* How frames move *)

None == [c \in Conns |-> 0]
At(c, n) == [d \in Conns |-> IF d = c THEN n ELSE 0]

\* The frames on their way to the broker are new ones, from W, or those of before, k[c] of
\* which have left the queue of c at its front; nothing new comes before anything old.
OutFlow(k, W) ==
  \A c \in Conns : \A i \in DOMAIN toBroker'[c] :
    \/ toBroker'[c][i] \in W
    \/ \A j \in 1 .. i : /\ j + k[c] \in DOMAIN toBroker[c]
                         /\ toBroker'[c][j] = toBroker[c][j + k[c]]

\* The frames on their way to the clients are new ones, from X, or those of before.
InFlow(l, X) ==
  \A d \in Conns : \A j \in DOMAIN toClient'[d] :
    \/ toClient'[d][j] \in X
    \/ /\ j + l[d] \in DOMAIN toClient[d]
       /\ toClient'[d][j] = toClient[d][j + l[d]]

\* The queues hold sequences of well-formed frames.
LEMMA Queues ==
  ASSUME BrokerInv, NEW c \in Conns
  PROVE  /\ toBroker[c] \in Seq(Broker!ClientFrames)
         /\ toClient[c] \in Seq(Broker!BrokerFrames)
         /\ DOMAIN toBroker[c] = 1 .. Len(toBroker[c]) /\ Len(toBroker[c]) \in Nat
         /\ DOMAIN toClient[c] = 1 .. Len(toClient[c]) /\ Len(toClient[c]) \in Nat
         /\ toBroker[c] # <<>> => 1 \in DOMAIN toBroker[c] /\ Head(toBroker[c]) = toBroker[c][1]
         /\ toClient[c] # <<>> => 1 \in DOMAIN toClient[c] /\ Head(toClient[c]) = toClient[c][1]
BY DEF BrokerInv, Broker!BTypeOK

\* What is left of a queue without its first frame.
LEMMA TailEntries ==
  ASSUME NEW S, NEW s \in Seq(S), s # <<>>
  PROVE  \A i \in DOMAIN Tail(s) : i \in Nat /\ i + 1 \in DOMAIN s /\ Tail(s)[i] = s[i + 1]
OBVIOUS

\* What is left of it when its end is cut off.
LEMMA PrefixEntries ==
  ASSUME NEW S, NEW s \in Seq(S), NEW n \in 0 .. Len(s)
  PROVE  \A i \in DOMAIN SubSeq(s, 1, n) : i \in 1 .. n /\ i \in DOMAIN s
                                           /\ SubSeq(s, 1, n)[i] = s[i]
OBVIOUS

\* What is left of it without its first n frames.
LEMMA SuffixEntries ==
  ASSUME NEW S, NEW s \in Seq(S), NEW n \in 1 .. Len(s)
  PROVE  \A i \in DOMAIN SubSeq(s, n + 1, Len(s)) :
           i \in Nat /\ i + n \in DOMAIN s /\ SubSeq(s, n + 1, Len(s))[i] = s[i + n]
OBVIOUS

\* What it holds when frames are written to it.
LEMMA ConcatEntries ==
  ASSUME NEW S, NEW s \in Seq(S), NEW t \in Seq(S)
  PROVE  \A i \in DOMAIN (s \o t) :
           \/ i \in 1 .. Len(s) /\ (s \o t)[i] = s[i]
           \/ i - Len(s) \in 1 .. Len(t) /\ (s \o t)[i] = t[i - Len(s)]
OBVIOUS

\* The frames written are behind those of before.
LEMMA ConcatNew ==
  ASSUME NEW S, NEW s \in Seq(S), NEW t \in Seq(S), NEW i \in 1 .. Len(t)
  PROVE  (s \o t)[Len(s) + i] = t[i]
OBVIOUS

\* Writing to a connection adds frames behind those it holds.
LEMMA WriteFlow ==
  ASSUME BrokerInv, BrokerInv', NEW c, NEW fs \in Seq(Broker!ClientFrames),
         \/ toBroker' = toBroker
         \/ c \in Conns /\ toBroker' = [toBroker EXCEPT ![c] = @ \o fs]
  PROVE  OutFlow(None, {fs[i] : i \in 1 .. Len(fs)})
<1>. SUFFICES ASSUME NEW d \in Conns, NEW i \in DOMAIN toBroker'[d]
              PROVE  \/ toBroker'[d][i] \in {fs[j] : j \in 1 .. Len(fs)}
                     \/ \A j \in 1 .. i : /\ j + 0 \in DOMAIN toBroker[d]
                                          /\ toBroker'[d][j] = toBroker[d][j + 0]
  BY DEF OutFlow, None
<1>1. /\ toBroker[d] \in Seq(Broker!ClientFrames)
      /\ DOMAIN toBroker[d] = 1 .. Len(toBroker[d]) /\ Len(toBroker[d]) \in Nat
  BY Queues
<1>2. CASE toBroker'[d] = toBroker[d]
  BY <1>1, <1>2
<1>3. CASE toBroker'[d] = toBroker[d] \o fs
  <2>1. \/ i \in 1 .. Len(toBroker[d])
        \/ i - Len(toBroker[d]) \in 1 .. Len(fs) /\ toBroker'[d][i] = fs[i - Len(toBroker[d])]
    BY <1>1, <1>3, ConcatEntries
  <2>2. CASE i \in 1 .. Len(toBroker[d])
    <3>1. \A j \in 1 .. i : j \in 1 .. Len(toBroker[d]) /\ toBroker'[d][j] = toBroker[d][j]
      BY <1>1, <1>3, <2>2
    <3>. QED BY <1>1, <3>1
  <2>. QED BY <2>1, <2>2
<1>4. toBroker'[d] = toBroker[d] \/ toBroker'[d] = toBroker[d] \o fs
  BY DEF BrokerInv, Broker!BTypeOK
<1>. QED BY <1>2, <1>3, <1>4

\* Taking the first frame of a queue, or none, moves the others up.
LEMMA DoneFlow ==
  ASSUME BrokerInv, NEW c \in Conns, toBroker[c] # <<>>, Broker!Done(c)
  PROVE  OutFlow(At(c, 1), {})
<1>. SUFFICES ASSUME NEW d \in Conns, NEW i \in DOMAIN toBroker'[d], NEW j \in 1 .. i
              PROVE  /\ j + At(c, 1)[d] \in DOMAIN toBroker[d]
                     /\ toBroker'[d][j] = toBroker[d][j + At(c, 1)[d]]
  BY DEF OutFlow
<1>1. /\ toBroker[d] \in Seq(Broker!ClientFrames)
      /\ DOMAIN toBroker[d] = 1 .. Len(toBroker[d]) /\ Len(toBroker[d]) \in Nat
  BY Queues
<1>2. toBroker' = [toBroker EXCEPT ![c] = Tail(@)]
  BY DEF Broker!Done
<1>3. CASE d = c
  <2>1. toBroker'[d] = Tail(toBroker[d]) /\ At(c, 1)[d] = 1
    BY <1>2, <1>3 DEF BrokerInv, Broker!BTypeOK, At
  <2>2. j \in DOMAIN Tail(toBroker[d])
    BY <1>1, <1>3, <2>1
  <2>. QED BY <1>1, <1>3, <2>1, <2>2, TailEntries
<1>4. CASE d # c
  BY <1>1, <1>2, <1>4 DEF BrokerInv, Broker!BTypeOK, At
<1>. QED BY <1>3, <1>4

\* Where a queue is as it was, or is cut off at its end, nothing moves.
LEMMA CutFlow ==
  ASSUME BrokerInv,
         \A d \in Conns : \/ toBroker'[d] = toBroker[d]
                          \/ toBroker'[d] = <<>>
                          \/ toBroker'[d] = <<Broker!Connect>>
                          \/ \E n \in 0 .. Len(toBroker[d]) :
                               toBroker'[d] = SubSeq(toBroker[d], 1, n)
  PROVE  OutFlow(None, {Broker!Connect})
<1>. SUFFICES ASSUME NEW d \in Conns, NEW i \in DOMAIN toBroker'[d]
              PROVE  \/ toBroker'[d][i] \in {Broker!Connect}
                     \/ \A j \in 1 .. i : /\ j + 0 \in DOMAIN toBroker[d]
                                          /\ toBroker'[d][j] = toBroker[d][j + 0]
  BY DEF OutFlow, None
<1>1. /\ toBroker[d] \in Seq(Broker!ClientFrames)
      /\ DOMAIN toBroker[d] = 1 .. Len(toBroker[d]) /\ Len(toBroker[d]) \in Nat
  BY Queues
<1>2. CASE toBroker'[d] = toBroker[d]
  BY <1>1, <1>2
<1>3. CASE toBroker'[d] = <<>> \/ toBroker'[d] = <<Broker!Connect>>
  BY <1>3
<1>4. ASSUME NEW n \in 0 .. Len(toBroker[d]), toBroker'[d] = SubSeq(toBroker[d], 1, n)
      PROVE  \A j \in 1 .. i : j \in DOMAIN toBroker[d] /\ toBroker'[d][j] = toBroker[d][j]
  <2>1. i \in 1 .. n
    BY <1>1, <1>4
  <2>2. \A j \in 1 .. i : j \in DOMAIN SubSeq(toBroker[d], 1, n)
    BY <1>1, <2>1
  <2>. QED BY <1>1, <1>4, <2>2, PrefixEntries
<1>5. ASSUME NEW n \in 0 .. Len(toBroker[d]), toBroker'[d] = SubSeq(toBroker[d], 1, n)
      PROVE  \A j \in 1 .. i : j + 0 \in DOMAIN toBroker[d] /\ toBroker'[d][j] = toBroker[d][j + 0]
  <2>1. \A j \in 1 .. i : j + 0 = j
    OBVIOUS
  <2>. QED BY <1>4, <1>5, <2>1
<1>. QED BY <1>2, <1>3, <1>5

\* The same of the frames on their way to the clients.
LEMMA ReadFlow ==
  ASSUME BrokerInv, NEW c \in Conns, NEW n \in 1 .. Len(toClient[c]),
         \/ n = 1 /\ toClient' = [toClient EXCEPT ![c] = Tail(@)]
         \/ toClient' = [toClient EXCEPT ![c] = SubSeq(@, n + 1, Len(@))]
  PROVE  InFlow(At(c, n), {})
<1>. SUFFICES ASSUME NEW d \in Conns, NEW j \in DOMAIN toClient'[d]
              PROVE  /\ j + At(c, n)[d] \in DOMAIN toClient[d]
                     /\ toClient'[d][j] = toClient[d][j + At(c, n)[d]]
  BY DEF InFlow
<1>1. /\ toClient[d] \in Seq(Broker!BrokerFrames)
      /\ DOMAIN toClient[d] = 1 .. Len(toClient[d]) /\ Len(toClient[d]) \in Nat
  BY Queues
<1>2. CASE d = c
  <2>1. At(c, n)[d] = n
    BY <1>2 DEF At
  <2>2. CASE n = 1 /\ toClient' = [toClient EXCEPT ![c] = Tail(@)]
    <3>1. toClient'[d] = Tail(toClient[d]) /\ toClient[d] # <<>>
      BY <1>1, <1>2, <2>2 DEF BrokerInv, Broker!BTypeOK
    <3>2. j + 1 \in DOMAIN toClient[d] /\ Tail(toClient[d])[j] = toClient[d][j + 1]
      BY <1>1, <3>1, TailEntries
    <3>. QED BY <2>1, <2>2, <3>1, <3>2
  <2>3. CASE toClient' = [toClient EXCEPT ![c] = SubSeq(@, n + 1, Len(@))]
    <3>1. toClient'[d] = SubSeq(toClient[d], n + 1, Len(toClient[d]))
      BY <1>2, <2>3 DEF BrokerInv, Broker!BTypeOK
    <3>2. n \in 1 .. Len(toClient[d]) /\ j \in DOMAIN SubSeq(toClient[d], n + 1, Len(toClient[d]))
      BY <1>2, <3>1
    <3>3. /\ j + n \in DOMAIN toClient[d]
          /\ SubSeq(toClient[d], n + 1, Len(toClient[d]))[j] = toClient[d][j + n]
      BY <1>1, <3>2, SuffixEntries
    <3>. QED BY <2>1, <3>1, <3>3
  <2>. QED BY <2>2, <2>3
<1>3. CASE d # c
  BY <1>1, <1>3 DEF BrokerInv, Broker!BTypeOK, At
<1>. QED BY <1>2, <1>3

\* A reply is behind what is on its way already.
LEMMA ReplyFlow ==
  ASSUME BrokerInv, NEW c \in Conns, NEW f \in Broker!BrokerFrames,
         toClient' = Broker!Reply(c, f)
  PROVE  InFlow(None, {f})
<1>. SUFFICES ASSUME NEW d \in Conns, NEW j \in DOMAIN toClient'[d]
              PROVE  \/ toClient'[d][j] \in {f}
                     \/ j + 0 \in DOMAIN toClient[d] /\ toClient'[d][j] = toClient[d][j + 0]
  BY DEF InFlow, None
<1>1. /\ toClient[d] \in Seq(Broker!BrokerFrames)
      /\ DOMAIN toClient[d] = 1 .. Len(toClient[d]) /\ Len(toClient[d]) \in Nat
  BY Queues
<1>2. toClient'[d] = toClient[d] \/ toClient'[d] = Append(toClient[d], f)
  BY DEF Broker!Reply, BrokerInv, Broker!BTypeOK
<1>. QED BY <1>1, <1>2

\* Where a queue is as it was, or empty, nothing moves.
LEMMA StayFlow ==
  ASSUME BrokerInv, NEW X,
         \A d \in Conns : toClient'[d] = toClient[d] \/ toClient'[d] = <<>>
  PROVE  InFlow(None, X)
BY Queues DEF InFlow, None

-----------------------------------------------------------------------------
(* What the flow of frames leaves in force *)

\* The words are told apart by their first field, the frames by their command.
LEMMA Words ==
  /\ \A m \in Msgs : /\ m.word = "HELLO" => m.conn \in Conns /\ m = Hello(m.conn)
                     /\ m.word = "CMD_RUN" => /\ m.id \in CmdIds
                                              /\ m = CmdRun(m.id) /\ m.to = Target[m.id]
                     /\ m.word = "CMD_RESULT" => /\ m.id \in CmdIds /\ m.from \in VMs
                                                 /\ m = CmdResult(m.id, m.from)
                     /\ m.word \in {"HELLO", "CMD_RUN", "CMD_RESULT"}
  /\ \A id \in CmdIds : CmdRun(id).word = "CMD_RUN" /\ CmdRun(id).id = id
  /\ \A f \in Broker!ClientFrames : f.cmd = "SEND" => f.msg \in Msgs
  /\ \A f \in Broker!BrokerFrames : f.cmd = "MESSAGE" => f.msg \in Msgs
<1>1. \A m \in Msgs : /\ m.word = "HELLO" => m.conn \in Conns /\ m = Hello(m.conn)
                      /\ m.word = "CMD_RUN" => /\ m.id \in CmdIds
                                               /\ m = CmdRun(m.id) /\ m.to = Target[m.id]
                      /\ m.word = "CMD_RESULT" => /\ m.id \in CmdIds /\ m.from \in VMs
                                                  /\ m = CmdResult(m.id, m.from)
                      /\ m.word \in {"HELLO", "CMD_RUN", "CMD_RESULT"}
  BY DEF Msgs, Hello, CmdRun, CmdResult, Conns, Clients
<1>2. \A id \in CmdIds : CmdRun(id).word = "CMD_RUN" /\ CmdRun(id).id = id
  BY DEF CmdRun
<1>3. \A f \in Broker!ClientFrames : f.cmd = "SEND" => f.msg \in Msgs
  BY DEF Broker!ClientFrames, Broker!Connect, Broker!Subscribe, Broker!Send
<1>4. \A f \in Broker!BrokerFrames : f.cmd = "MESSAGE" => f.msg \in Msgs
  BY DEF Broker!BrokerFrames
<1>. QED BY <1>1, <1>2, <1>3, <1>4

\* What a command and a result are as words that are said once.
LEMMA TripWords ==
  ASSUME NEW id \in CmdIds
  PROVE  /\ CmdRun(id) \in Trips /\ CmdRun(id) \in Msgs /\ CmdRun(id).word = "CMD_RUN"
         /\ Reader(CmdRun(id)) = Target[id]
         /\ Begun(CmdRun(id)) <=> id \in issued
         /\ Begun(CmdRun(id))' <=> id \in issued'
         /\ Taken(CmdRun(id)) <=> id \in executed
         /\ Taken(CmdRun(id))' <=> id \in executed'
         /\ Answer(id) \in Trips /\ Answer(id) \in Msgs /\ Answer(id).word = "CMD_RESULT"
         /\ Reader(Answer(id)) = Host
         /\ Begun(Answer(id)) <=> IsOver(id)
         /\ Begun(Answer(id))' <=> IsOver(id)'
         /\ Taken(Answer(id)) <=> id \in DOMAIN cmdReqsRetired
         /\ Taken(Answer(id))' <=> id \in DOMAIN cmdReqsRetired'
<1>1. Target[id] \in VMs
  BY ProtocolAssumptions
<1>2. /\ CmdRun(id) \in Msgs /\ CmdRun(id).word = "CMD_RUN" /\ CmdRun(id).id = id
      /\ Answer(id) \in Msgs /\ Answer(id).word = "CMD_RESULT" /\ Answer(id).id = id
  BY <1>1 DEF Msgs, CmdRun, Answer, CmdResult
<1>. QED BY <1>2 DEF Trips, Reader, Begun, Taken

\* A word that is said once is a command or a result, and of one command only.
LEMMA TripCases ==
  /\ \A m \in Trips : \E id \in CmdIds : m = CmdRun(id) \/ m = Answer(id)
  /\ \A j, k \in CmdIds : /\ CmdRun(j) # Answer(k)
                          /\ j # k => CmdRun(j) # CmdRun(k) /\ Answer(j) # Answer(k)
<1>1. \A k \in CmdIds : /\ CmdRun(k).word = "CMD_RUN" /\ CmdRun(k).id = k
                       /\ Answer(k).word = "CMD_RESULT" /\ Answer(k).id = k
  BY DEF CmdRun, Answer, CmdResult
<1>2. ASSUME NEW j \in CmdIds, NEW k \in CmdIds
      PROVE  CmdRun(j) # Answer(k)
  BY <1>1
<1>. QED BY <1>1, <1>2 DEF Trips

\* The frame carries the word.
Carries(f, m) == f.cmd \in {"SEND", "MESSAGE"} /\ f.msg = m

\* The word is not written or delivered, and not taken: a broadcast goes on with fewer
\* subscribers, or its frame leaves the queue.
LEMMA TripFlow ==
  ASSUME BrokerInv, BrokerInv', NEW m \in Trips, TripOf(m),
         NEW k \in [Conns -> Nat], NEW W, OutFlow(k, W), \A f \in W : ~ Carries(f, m),
         NEW l \in [Conns -> Nat], NEW X, InFlow(l, X), \A f \in X : ~ Carries(f, m),
         lock \in Conns => \/ k[lock] > 0
                           \/ /\ lock' = lock
                              /\ \A d \in Conns : d \in unserved' /\ sock'[d] = "open" =>
                                                  d \in unserved /\ sock[d] = "open",
         Taken(m)' => Taken(m), Begun(m) => Begun(m)'
  PROVE  TripOf(m)'
<1>1. ASSUME NEW c \in Conns, NEW i \in DOMAIN toBroker'[c],
             Asked(c, i, m)'
      PROVE  /\ i \in Nat /\ i >= 1 /\ k[c] \in Nat
             /\ i + k[c] \in DOMAIN toBroker[c] /\ Asked(c, i + k[c], m)
  <2>1. DOMAIN toBroker'[c] = 1 .. Len(toBroker'[c])
    BY DEF BrokerInv, Broker!BTypeOK
  <2>2. toBroker'[c][i].cmd = "SEND" /\ toBroker'[c][i].msg = m
    BY <1>1 DEF Asked
  <2>3. toBroker'[c][i] \notin W
    BY <2>2 DEF Carries
  <2>4. \A j \in 1 .. i : /\ j + k[c] \in DOMAIN toBroker[c]
                          /\ toBroker'[c][j] = toBroker[c][j + k[c]]
    BY <2>3 DEF OutFlow
  <2>5. i \in 1 .. i /\ k[c] \in Nat
    BY <2>1
  <2>6. i + k[c] \in DOMAIN toBroker[c] /\ toBroker'[c][i] = toBroker[c][i + k[c]]
    BY <2>4, <2>5
  <2>. QED BY <2>1, <2>2, <2>5, <2>6 DEF Asked
<1>2. ASSUME NEW d \in Conns, NEW j \in DOMAIN toClient'[d],
             Told(d, j, m)'
      PROVE  /\ j \in Nat /\ l[d] \in Nat
             /\ j + l[d] \in DOMAIN toClient[d] /\ Told(d, j + l[d], m)
  <2>1. DOMAIN toClient'[d] = 1 .. Len(toClient'[d])
    BY DEF BrokerInv, Broker!BTypeOK
  <2>2. toClient'[d][j].cmd = "MESSAGE" /\ toClient'[d][j].msg = m
    BY <1>2 DEF Told
  <2>3. toClient'[d][j] \notin X
    BY <2>2 DEF Carries
  <2>4. j + l[d] \in DOMAIN toClient[d] /\ toClient'[d][j] = toClient[d][j + l[d]]
    BY <2>3 DEF InFlow
  <2>. QED BY <2>1, <2>2, <2>4 DEF Told
<1>3. ASSUME Arrived(m)'
      PROVE  Arrived(m)
  BY <1>2, <1>3 DEF Arrived
<1>4. \A c \in Conns : \A i \in DOMAIN toBroker'[c] : Asked(c, i, m)' => Begun(m)'
  BY <1>1 DEF TripOf
<1>5. \A d \in Conns : \A j \in DOMAIN toClient'[d] : Told(d, j, m)' => Begun(m)'
  BY <1>2 DEF TripOf
<1>6. ASSUME NEW c \in Conns, NEW d \in Conns,
             NEW i \in DOMAIN toBroker'[c], NEW j \in DOMAIN toBroker'[d],
             Asked(c, i, m)', Asked(d, j, m)'
      PROVE  c = d /\ i = j
  <2>1. c = d /\ i + k[c] = j + k[d]
    BY <1>1, <1>6 DEF TripOf
  <2>. QED BY <1>1, <1>6, <2>1
<1>7. ASSUME NEW d \in Conns, NEW i \in DOMAIN toClient'[d], NEW j \in DOMAIN toClient'[d],
             d[1] = Reader(m), Told(d, i, m)', Told(d, j, m)'
      PROVE  i = j
  <2>1. i \in Nat /\ l[d] \in Nat /\ i + l[d] \in DOMAIN toClient[d] /\ Told(d, i + l[d], m)
    BY <1>2, <1>7
  <2>2. j \in Nat /\ j + l[d] \in DOMAIN toClient[d] /\ Told(d, j + l[d], m)
    BY <1>2, <1>7
  <2>3. i + l[d] = j + l[d]
    BY <1>7, <2>1, <2>2 DEF TripOf
  <2>. QED BY <2>1, <2>2, <2>3
<1>8. ASSUME NEW c \in Conns, NEW i \in DOMAIN toBroker'[c],
             Asked(c, i, m)', Arrived(m)'
      PROVE  /\ c = lock' /\ i = 1
             /\ \A d \in unserved' : d[1] = Reader(m) => sock'[d] # "open"
  <2>1. /\ c = lock /\ i + k[c] = 1
        /\ \A d \in unserved : d[1] = Reader(m) => sock[d] # "open"
    BY <1>1, <1>3, <1>8 DEF TripOf
  <2>2. k[c] = 0 /\ i = 1
    BY <1>1, <1>8, <2>1
  <2>3. unserved' \subseteq Conns
    BY DEF BrokerInv, Broker!BTypeOK
  <2>. QED BY <2>1, <2>2, <2>3
<1>9. \A d \in Conns : \A j \in DOMAIN toClient'[d] :
        d[1] = Reader(m) /\ Told(d, j, m)' => ~ Taken(m)'
  BY <1>2 DEF TripOf
<1>. QED BY <1>4, <1>5, <1>6, <1>7, <1>8, <1>9 DEF TripOf

\* m will be a result that is right.
IsResultThen(m) == m.word = "CMD_RESULT" => /\ m.id \in executed'
                                            /\ \A v \in VMs : m.id \notin running'[v]
                                            /\ m.from = Target[m.id]

\* What is written and delivered of results is right, and what is over stays over.
LEMMA ResultFlow ==
  ASSUME BrokerInv, BrokerInv', ResultInv,
         NEW k, NEW W, OutFlow(k, W), \A f \in W : f.cmd = "SEND" => IsResultThen(f.msg),
         NEW l, NEW X, InFlow(l, X), \A f \in X : f.cmd = "MESSAGE" => IsResultThen(f.msg),
         executed \subseteq executed',
         \A id \in CmdIds : IsOver(id) => \A v \in VMs : id \notin running'[v],
         \A id \in DOMAIN cmdReqsRetired' : id \in CmdIds /\ IsOver(id)
  PROVE  ResultInv'
<1>1. ASSUME NEW m \in Msgs, IsResult(m)
      PROVE  IsResultThen(m)
  BY <1>1, Words DEF IsResult, IsResultThen, IsOver
<1>2. ASSUME NEW c \in Conns, NEW i \in DOMAIN toBroker'[c], toBroker'[c][i].cmd = "SEND"
      PROVE  IsResultThen(toBroker'[c][i].msg)
  <2>1. CASE toBroker'[c][i] \in W
    BY <1>2, <2>1
  <2>2. CASE toBroker'[c][i] \notin W
    <3>1. i \in 1 .. i
      <4>1. toBroker'[c] \in Seq(Broker!ClientFrames)
        BY DEF BrokerInv, Broker!BTypeOK
      <4>. QED BY <4>1
    <3>2. i + k[c] \in DOMAIN toBroker[c] /\ toBroker'[c][i] = toBroker[c][i + k[c]]
      BY <2>2, <3>1 DEF OutFlow
    <3>3. toBroker[c][i + k[c]] \in Broker!ClientFrames
      <4>1. toBroker[c] \in Seq(Broker!ClientFrames)
        BY Queues
      <4>. QED BY <3>2, <4>1
    <3>4. toBroker[c][i + k[c]].msg \in Msgs /\ IsResult(toBroker[c][i + k[c]].msg)
      BY <1>2, <3>2, <3>3, Words DEF ResultInv
    <3>. QED BY <1>1, <3>2, <3>4
  <2>. QED BY <2>1, <2>2
<1>3. ASSUME NEW d \in Conns, NEW j \in DOMAIN toClient'[d], toClient'[d][j].cmd = "MESSAGE"
      PROVE  IsResultThen(toClient'[d][j].msg)
  <2>1. CASE toClient'[d][j] \in X
    BY <1>3, <2>1
  <2>2. CASE toClient'[d][j] \notin X
    <3>2. j + l[d] \in DOMAIN toClient[d] /\ toClient'[d][j] = toClient[d][j + l[d]]
      BY <2>2 DEF InFlow
    <3>3. toClient[d][j + l[d]] \in Broker!BrokerFrames
      <4>1. toClient[d] \in Seq(Broker!BrokerFrames)
        BY Queues
      <4>. QED BY <3>2, <4>1
    <3>4. toClient[d][j + l[d]].msg \in Msgs /\ IsResult(toClient[d][j + l[d]].msg)
      BY <1>3, <3>2, <3>3, Words DEF ResultInv
    <3>. QED BY <1>1, <3>2, <3>4
  <2>. QED BY <2>1, <2>2
<1>4. \A id \in DOMAIN cmdReqsRetired' : IsOver(id)'
  BY DEF IsOver
<1>. QED BY <1>2, <1>3, <1>4 DEF ResultInv, IsResult, IsOver, IsResultThen

\* No HELLO is written; a SUBSCRIBE that leaves its queue has its connection subscribed, and a
\* connection that is unsubscribed is over.
LEMMA HelloFlow ==
  ASSUME BrokerInv, BrokerInv', HelloInv,
         NEW k, NEW W, OutFlow(k, W), \A f \in W : ~ SaysHello(f),
         NEW l, NEW X, InFlow(l, X),
         \A f \in X : TellsHello(f) =>
           f.msg.conn \in Conns /\ (f.msg.conn \in topics'[CMD_REQ] \/ sock'[f.msg.conn] = "closed"),
         \A c \in Conns :
           /\ c \in topics[CMD_REQ] => \/ c \in topics'[CMD_REQ]
                                       \/ toBroker'[c] = <<>> /\ sock'[c] = "closed"
           /\ sock[c] = "closed" => sock'[c] = "closed"
           /\ k[c] \in {0, 1}
           /\ k[c] = 1 /\ toBroker[c][1] = Broker!Subscribe(CMD_REQ) => c \in topics'[CMD_REQ]
  PROVE  HelloInv'
<1>1. ASSUME NEW c \in Conns, NEW i \in DOMAIN toBroker'[c], SaysHello(toBroker'[c][i])
      PROVE  toBroker'[c][i].msg.conn = c /\ Subscribed(c, i)'
  <2>1. DOMAIN toBroker'[c] = 1 .. Len(toBroker'[c]) /\ Len(toBroker'[c]) \in Nat
    BY DEF BrokerInv, Broker!BTypeOK
  <2>2. \A j \in 1 .. i : /\ j + k[c] \in DOMAIN toBroker[c]
                          /\ toBroker'[c][j] = toBroker[c][j + k[c]]
    BY <1>1 DEF OutFlow
  <2>3. i + k[c] \in DOMAIN toBroker[c] /\ toBroker'[c][i] = toBroker[c][i + k[c]]
    BY <2>1, <2>2
  <2>4. toBroker'[c][i].msg.conn = c /\ Subscribed(c, i + k[c])
    BY <1>1, <2>3 DEF HelloInv
  <2>5. CASE c \in topics[CMD_REQ]
    BY <2>1, <2>4, <2>5 DEF Subscribed
  <2>6. ASSUME NEW j \in 1 .. (i + k[c]) - 1, toBroker[c][j] = Broker!Subscribe(CMD_REQ)
        PROVE  Subscribed(c, i)'
    <3>1. CASE j = 1 /\ k[c] = 1
      BY <2>6, <3>1 DEF Subscribed
    <3>2. CASE ~ (j = 1 /\ k[c] = 1)
      <4>1. j - k[c] \in 1 .. i - 1
        BY <2>1, <3>2
      <4>2. toBroker'[c][j - k[c]] = toBroker[c][j]
        BY <2>1, <2>2, <4>1
      <4>. QED BY <2>6, <4>1, <4>2 DEF Subscribed
    <3>. QED BY <3>1, <3>2
  <2>. QED BY <2>4, <2>5, <2>6 DEF Subscribed
<1>2. ASSUME NEW d \in Conns, NEW j \in DOMAIN toClient'[d], TellsHello(toClient'[d][j])
      PROVE  LET conn == toClient'[d][j].msg.conn
             IN  conn \in Conns /\ (conn \in topics'[CMD_REQ] \/ sock'[conn] = "closed")
  <2>1. CASE toClient'[d][j] \in X
    BY <1>2, <2>1
  <2>2. CASE toClient'[d][j] \notin X
    <3>1. j + l[d] \in DOMAIN toClient[d] /\ toClient'[d][j] = toClient[d][j + l[d]]
      BY <2>2 DEF InFlow
    <3>. QED BY <1>2, <3>1 DEF HelloInv
  <2>. QED BY <2>1, <2>2
<1>. QED BY <1>1, <1>2 DEF HelloInv


-----------------------------------------------------------------------------
(* Steps that say no word *)

WordsInv == HelloInv /\ TripInv /\ ResultInv

Quiet(frames) == \A f \in frames : f.cmd \notin {"SEND", "MESSAGE"}

\* What a step that says no word does to the connections and to the lock: of a queue the
\* broker takes the first frame, which for a SUBSCRIBE subscribes; who is unsubscribed is over.
QuietBroker(k) ==
  /\ \A c \in Conns :
       /\ c \in topics[CMD_REQ] => \/ c \in topics'[CMD_REQ]
                                   \/ toBroker'[c] = <<>> /\ sock'[c] = "closed"
       /\ sock[c] = "closed" => sock'[c] = "closed"
       /\ k[c] = 1 /\ toBroker[c][1] = Broker!Subscribe(CMD_REQ) => c \in topics'[CMD_REQ]
  /\ lock \in Conns => \/ k[lock] > 0
                       \/ /\ lock' = lock
                          /\ \A d \in Conns : d \in unserved' /\ sock'[d] = "open" =>
                                              d \in unserved /\ sock[d] = "open"

\* No command is taken into execution, and no result by the registry.
NothingTaken == /\ executed' = executed
                /\ issued \subseteq issued'
                /\ \A v \in VMs : running'[v] \subseteq running[v]
                /\ DOMAIN cmdReqsRetired' \subseteq DOMAIN cmdReqsRetired

\* What the host has retired are commands.
RetiredIds == DOMAIN cmdReqsRetired \subseteq CmdIds

\* What is over stays over, and what may have been said.
LEMMA StillOver ==
  ASSUME NothingTaken, RetiredIds, ResultInv
  PROVE  /\ executed \subseteq executed'
         /\ \A id \in CmdIds : IsOver(id) => IsOver(id)' /\ \A v \in VMs : id \notin running'[v]
         /\ \A id \in DOMAIN cmdReqsRetired' : id \in CmdIds /\ IsOver(id)
         /\ \A m \in Trips : (Taken(m)' => Taken(m)) /\ (Begun(m) => Begun(m)')
<1>1. \A id \in CmdIds : IsOver(id) => IsOver(id)' /\ \A v \in VMs : id \notin running'[v]
  BY DEF NothingTaken, IsOver
<1>2. \A id \in DOMAIN cmdReqsRetired' : id \in CmdIds /\ IsOver(id)
  BY DEF NothingTaken, RetiredIds, ResultInv
<1>3. ASSUME NEW m \in Trips
      PROVE  (Taken(m)' => Taken(m)) /\ (Begun(m) => Begun(m)')
  BY <1>1, TripCases, TripWords DEF NothingTaken
<1>. QED BY <1>1, <1>2, <1>3 DEF NothingTaken

\* Where no word is said or taken, the invariants about words hold on.
LEMMA QuietFlow ==
  ASSUME BrokerInv, BrokerInv', WordsInv, NothingTaken, RetiredIds,
         NEW k \in [Conns -> {0, 1}], NEW W, OutFlow(k, W), Quiet(W), QuietBroker(k),
         NEW l \in [Conns -> Nat], NEW X, InFlow(l, X), Quiet(X)
  PROVE  WordsInv'
<1>1. HelloInv'
  <2>1. (\A f \in W : ~ SaysHello(f)) /\ (\A f \in X : ~ TellsHello(f))
    BY DEF Quiet, SaysHello, TellsHello
  <2>2. \A c \in Conns : k[c] \in {0, 1}
    OBVIOUS
  <2>. QED BY <2>1, <2>2, HelloFlow DEF WordsInv, QuietBroker
<1>2. TripInv'
  <2>. SUFFICES ASSUME NEW m \in Trips
                PROVE  TripOf(m)'
    BY DEF TripInv
  <2>1. (\A f \in W : ~ Carries(f, m)) /\ (\A f \in X : ~ Carries(f, m))
    BY DEF Quiet, Carries
  <2>2. k \in [Conns -> Nat]
    OBVIOUS
  <2>. QED BY <2>1, <2>2, StillOver, TripFlow DEF WordsInv, TripInv, QuietBroker
<1>3. ResultInv'
  <2>1. /\ \A f \in W : f.cmd = "SEND" => IsResultThen(f.msg)
        /\ \A f \in X : f.cmd = "MESSAGE" => IsResultThen(f.msg)
    BY DEF Quiet
  <2>. QED BY <2>1, StillOver, ResultFlow DEF WordsInv
<1>. QED BY <1>1, <1>2, <1>3 DEF WordsInv

\* Nothing moves at the broker.
LEMMA Steady ==
  ASSUME BrokerInv, sock' = sock, topics' = topics, lock' = lock, unserved' = unserved
  PROVE  QuietBroker(None)
BY DEF QuietBroker, None

\* The two ways to say that nothing moves in the queues.
LEMMA StillFlow ==
  ASSUME BrokerInv
  PROVE  /\ toBroker' = toBroker => OutFlow(None, {})
         /\ toClient' = toClient => InFlow(None, {})
         /\ None \in [Conns -> {0, 1}] /\ None \in [Conns -> Nat]
         /\ \A c : \A n \in Nat : At(c, n) \in [Conns -> Nat]
         /\ \A c : At(c, 1) \in [Conns -> {0, 1}]
<1>1. ASSUME toBroker' = toBroker
      PROVE  OutFlow(None, {})
  <2>. SUFFICES ASSUME NEW d \in Conns, NEW i \in DOMAIN toBroker[d], NEW j \in 1 .. i
                PROVE  j + 0 \in DOMAIN toBroker[d] /\ toBroker'[d][j] = toBroker[d][j + 0]
    BY <1>1 DEF OutFlow, None
  <2>1. DOMAIN toBroker[d] = 1 .. Len(toBroker[d]) /\ Len(toBroker[d]) \in Nat
    BY Queues
  <2>. QED BY <1>1, <2>1
<1>2. ASSUME toClient' = toClient
      PROVE  InFlow(None, {})
  BY <1>2, StayFlow
<1>. QED BY <1>1, <1>2 DEF None, At

\* What the frames of the broker and of the clients are.
LEMMA Frames ==
  /\ \A t : t \in {CONN, CMD_REQ, CMD_RES} =>
       /\ Broker!Subscribe(t) \in Broker!ClientFrames
       /\ \A m \in Msgs : Broker!Send(t, m) \in Broker!ClientFrames
  /\ \A m \in Msgs : Broker!Message(m) \in Broker!BrokerFrames
  /\ Broker!Connected \in Broker!BrokerFrames /\ Broker!Error \in Broker!BrokerFrames
  /\ Quiet({}) /\ Quiet({Broker!Connect}) /\ Quiet({Broker!Connected}) /\ Quiet({Broker!Error})
  /\ \A t : Quiet({Broker!Subscribe(t)})
<1>1. \A t : t \in {CONN, CMD_REQ, CMD_RES} =>
        /\ Broker!Subscribe(t) \in Broker!ClientFrames
        /\ \A m \in Msgs : Broker!Send(t, m) \in Broker!ClientFrames
  BY DEF Broker!ClientFrames
<1>2. \A m \in Msgs : Broker!Message(m) \in Broker!BrokerFrames
  BY DEF Broker!BrokerFrames, Broker!Message
<1>3. Broker!Connected \in Broker!BrokerFrames /\ Broker!Error \in Broker!BrokerFrames
  BY DEF Broker!BrokerFrames, Broker!Connected, Broker!Error
<1>4. /\ Quiet({}) /\ Quiet({Broker!Connect}) /\ Quiet({Broker!Connected}) /\ Quiet({Broker!Error})
      /\ \A t : Quiet({Broker!Subscribe(t)})
  BY DEF Broker!Connect, Broker!Subscribe, Broker!Connected, Broker!Error, Quiet
<1>. QED BY <1>1, <1>2, <1>3, <1>4

\* Nothing happens between the clients and the broker.
LEMMA StutterWords ==
  ASSUME BrokerInv, BrokerInv', WordsInv, NothingTaken, RetiredIds, UNCHANGED brokerVars
  PROVE  WordsInv'
<1>1. OutFlow(None, {}) /\ InFlow(None, {}) /\ QuietBroker(None)
  BY StillFlow, Steady DEF brokerVars
<1>. QED BY <1>1, StillFlow, Frames, QuietFlow

\* A connection is opened, or lost, or a chunk misread.
LEMMA ConnectionWords ==
  ASSUME BrokerInv, BrokerInv', WordsInv, NothingTaken, RetiredIds, NEW c \in Conns,
         \/ Broker!Open(c)
         \/ Broker!Lose(c)
         \/ \E n \in 1 .. Len(toClient[c]) : Broker!Misread(c, n)
  PROVE  WordsInv'
<1>1. CASE Broker!Open(c)
  <2>1. OutFlow(None, {Broker!Connect})
    <3>1. \A d \in Conns : toBroker'[d] = toBroker[d] \/ toBroker'[d] = <<Broker!Connect>>
      BY <1>1 DEF Broker!Open, BrokerInv, Broker!BTypeOK
    <3>. QED BY <3>1, CutFlow
  <2>2. InFlow(None, {})
    BY <1>1, StillFlow DEF Broker!Open
  <2>3. QuietBroker(None)
    <3>1. /\ sock[c] = "new" /\ sock' = [sock EXCEPT ![c] = "open"]
          /\ UNCHANGED <<topics, lock, unserved>>
      BY <1>1 DEF Broker!Open
    <3>2. lock \in Conns => c \notin unserved
      <4>1. ASSUME lock \in Conns
            PROVE  lock # NoConn /\ Head(toBroker[lock]) \in Broker!ClientFrames
                   /\ Head(toBroker[lock]).cmd = "SEND"
        BY <4>1, ProtocolAssumptions, Queues
           DEF BrokerInv, Broker!BTypeOK, Broker!LockDiscipline, Broker!NextFrame
      <4>2. \A f \in Broker!ClientFrames : f.cmd = "SEND" => f.dest \in {CONN, CMD_REQ, CMD_RES}
        BY DEF Broker!ClientFrames, Broker!Connect, Broker!Subscribe, Broker!Send
      <4>3. ~ Broker!Served(c)
        BY <3>1 DEF Broker!Served
      <4>. QED BY <4>1, <4>2, <4>3
               DEF BrokerInv, Broker!NoLeakedSubscriber, Broker!LockDiscipline
    <3>3. sock \in [Conns -> {"new", "open", "dead", "closed"}]
      BY DEF BrokerInv, Broker!BTypeOK
    <3>. QED BY <3>1, <3>2, <3>3 DEF QuietBroker, None
  <2>. QED BY <2>1, <2>2, <2>3, StillFlow, Frames, QuietFlow
<1>2. CASE Broker!Lose(c)
  <2>1. OutFlow(None, {Broker!Connect})
    <3>1. \A d \in Conns : \/ toBroker'[d] = toBroker[d]
                           \/ \E n \in 0 .. Len(toBroker[d]) :
                                toBroker'[d] = SubSeq(toBroker[d], 1, n)
      BY <1>2 DEF Broker!Lose, BrokerInv, Broker!BTypeOK
    <3>. QED BY <3>1, CutFlow
  <2>2. InFlow(None, {})
    <3>1. \A d \in Conns : toClient'[d] = toClient[d] \/ toClient'[d] = <<>>
      BY <1>2 DEF Broker!Lose, BrokerInv, Broker!BTypeOK
    <3>. QED BY <3>1, StayFlow
  <2>3. QuietBroker(None)
    BY <1>2 DEF Broker!Lose, QuietBroker, None, BrokerInv, Broker!BTypeOK
  <2>. QED BY <2>1, <2>2, <2>3, StillFlow, Frames, QuietFlow
<1>3. ASSUME NEW n \in 1 .. Len(toClient[c]), Broker!Misread(c, n)
      PROVE  WordsInv'
  <2>1. OutFlow(None, {}) /\ QuietBroker(None)
    BY <1>3, StillFlow, Steady DEF Broker!Misread
  <2>2. InFlow(At(c, n), {})
    BY <1>3, ReadFlow DEF Broker!Misread
  <2>3. n \in Nat
    BY Queues
  <2>. QED BY <2>1, <2>2, <2>3, StillFlow, Frames, QuietFlow
<1>. QED BY <1>1, <1>2, <1>3

\* A client reads a frame, and writes no word.
LEMMA QuietReceiveWords ==
  ASSUME BrokerInv, BrokerInv', WordsInv, NothingTaken, RetiredIds, NEW c \in Conns,
         NEW fs \in Seq(Broker!ClientFrames), Quiet({fs[i] : i \in 1 .. Len(fs)}),
         Broker!Receive(c, fs)
  PROVE  WordsInv'
<1>1. OutFlow(None, {fs[i] : i \in 1 .. Len(fs)})
  BY WriteFlow DEF Broker!Receive
<1>2. InFlow(At(c, 1), {})
  <2>1. 1 \in 1 .. Len(toClient[c])
    BY Queues DEF Broker!Receive
  <2>. QED BY <2>1, ReadFlow DEF Broker!Receive
<1>3. QuietBroker(None)
  BY Steady DEF Broker!Receive
<1>. QED BY <1>1, <1>2, <1>3, StillFlow, Frames, QuietFlow

\* The broker and its clients are restarted: nothing is on its way any more.
LEMMA RestartWords ==
  ASSUME WordsInv, Broker!BrokerRestart, Registry!Restart
  PROVE  WordsInv'
<1>1. \A c \in Conns : toBroker'[c] = <<>> /\ toClient'[c] = <<>>
  BY DEF Broker!BrokerRestart
<1>2. \A c \in Conns : DOMAIN toBroker'[c] = {} /\ DOMAIN toClient'[c] = {}
  BY <1>1
<1>3. DOMAIN cmdReqsRetired' = {}
  BY DEF Registry!Restart, Registry!EmptyDict
<1>. QED BY <1>2, <1>3 DEF WordsInv, HelloInv, TripInv, TripOf, ResultInv, Asked, Told

-----------------------------------------------------------------------------
(* The steps of the broker *)

\* The thread that holds the lock is in the middle of a SEND of a word.
LEMMA Sender ==
  ASSUME BrokerInv, lock # NoConn
  PROVE  /\ lock \in Conns
         /\ 1 \in DOMAIN toBroker[lock] /\ toBroker[lock] # <<>>
         /\ Head(toBroker[lock]) = toBroker[lock][1]
         /\ toBroker[lock][1] \in Broker!ClientFrames
         /\ toBroker[lock][1].cmd = "SEND"
         /\ toBroker[lock][1].msg \in Msgs
<1>1. lock \in Conns /\ toBroker[lock] # <<>> /\ Head(toBroker[lock]).cmd = "SEND"
  BY DEF BrokerInv, Broker!BTypeOK, Broker!LockDiscipline, Broker!NextFrame
<1>2. toBroker[lock][1] \in Broker!ClientFrames
  BY <1>1, Queues
<1>. QED BY <1>1, <1>2, Queues, Words

\* The word is sent on to another client, or not at all.
LEMMA ServeOther ==
  ASSUME BrokerInv, BrokerInv', NEW d \in Conns, Broker!ServeSubscriber(d),
         NEW m \in Trips, TripOf(m),
         sock[d] # "open" \/ toBroker[lock][1].msg # m,
         Taken(m)' => Taken(m), Begun(m) => Begun(m)'
  PROVE  TripOf(m)'
<1>1. OutFlow(None, {})
  BY StillFlow DEF Broker!ServeSubscriber
<1>2. PICK X : InFlow(None, X) /\ \A f \in X : ~ Carries(f, m)
  <2>1. CASE sock[d] # "open"
    <3>1. InFlow(None, {})
      BY <2>1, StillFlow DEF Broker!ServeSubscriber, Broker!Reply
    <3>. QED BY <3>1
  <2>2. CASE toBroker[lock][1].msg # m
    <3>1. /\ toBroker[lock][1].msg \in Msgs
          /\ toClient' = Broker!Reply(d, Broker!Message(toBroker[lock][1].msg))
      BY Sender DEF Broker!ServeSubscriber
    <3>2. InFlow(None, {Broker!Message(toBroker[lock][1].msg)})
      BY <3>1, ReplyFlow, Frames
    <3>3. ~ Carries(Broker!Message(toBroker[lock][1].msg), m)
      BY <2>2 DEF Carries, Broker!Message
    <3>. QED BY <3>2, <3>3
  <2>. QED BY <2>1, <2>2
<1>3. /\ lock' = lock
      /\ \A e \in Conns : e \in unserved' /\ sock'[e] = "open" => e \in unserved /\ sock[e] = "open"
  BY DEF Broker!ServeSubscriber
<1>. QED BY <1>1, <1>2, <1>3, StillFlow, TripFlow

\* The word is sent on to a client that is there.
LEMMA ServeReader ==
  ASSUME BrokerInv, BrokerInv', LocalInv, NEW d \in Conns, Broker!ServeSubscriber(d),
         NEW m \in Trips, TripOf(m), sock[d] = "open", toBroker[lock][1].msg = m,
         Taken(m)' => Taken(m), Begun(m) => Begun(m)'
  PROVE  TripOf(m)'
<1>1. /\ lock \in Conns /\ lock' = lock /\ sock' = sock /\ toBroker' = toBroker
      /\ d \in unserved /\ unserved' = unserved \ {d}
  BY Sender DEF Broker!ServeSubscriber
<1>2. 1 \in DOMAIN toBroker[lock] /\ Asked(lock, 1, m)
  BY Sender DEF Asked, Broker!ServeSubscriber
<1>3. \A c \in Conns : \A i : Asked(c, i, m)' <=> Asked(c, i, m)
  BY <1>1 DEF Asked
<1>4. /\ toClient[d] \in Seq(Broker!BrokerFrames) /\ Len(toClient[d]) \in Nat
      /\ toClient' = [toClient EXCEPT ![d] = Append(@, Broker!Message(m))]
  BY Sender, Queues DEF Broker!ServeSubscriber, Broker!Reply
<1>5. ASSUME NEW e \in Conns, NEW j \in DOMAIN toClient'[e], Told(e, j, m)'
      PROVE  \/ j \in DOMAIN toClient[e] /\ Told(e, j, m)
             \/ e = d /\ j = Len(toClient[d]) + 1
  <2>1. CASE e # d
    <3>1. toClient'[e] = toClient[e]
      BY <1>4, <2>1 DEF BrokerInv, Broker!BTypeOK
    <3>. QED BY <1>5, <3>1 DEF Told
  <2>2. CASE e = d
    <3>1. toClient'[d] = Append(toClient[d], Broker!Message(m))
      BY <1>4 DEF BrokerInv, Broker!BTypeOK
    <3>2. \/ j \in DOMAIN toClient[d] /\ toClient'[d][j] = toClient[d][j]
          \/ j = Len(toClient[d]) + 1
      BY <1>4, <2>2, <3>1
    <3>. QED BY <1>5, <2>2, <3>2 DEF Told
  <2>. QED BY <2>1, <2>2
<1>6. d[1] = Reader(m) => ~ Arrived(m)
  BY <1>1, <1>2 DEF TripOf
<1>7. ASSUME NEW e \in Conns, d[1] = Reader(m), e[1] = Reader(m), sock[e] = "open"
      PROVE  e = d
  BY <1>7 DEF LocalInv
<1>8. Arrived(m)' => Arrived(m) \/ d[1] = Reader(m)
  BY <1>5 DEF Arrived
<1>9. \A c \in Conns : \A i \in DOMAIN toBroker'[c] : Asked(c, i, m)' => Begun(m)'
  BY <1>1, <1>3 DEF TripOf
<1>10. \A e \in Conns : \A j \in DOMAIN toClient'[e] : Told(e, j, m)' => Begun(m)'
  BY <1>1, <1>2 DEF TripOf
<1>11. \A b, c \in Conns : \A i \in DOMAIN toBroker'[b], j \in DOMAIN toBroker'[c] :
         Asked(b, i, m)' /\ Asked(c, j, m)' => b = c /\ i = j
  BY <1>1, <1>3 DEF TripOf
<1>12. ASSUME NEW e \in Conns, NEW i \in DOMAIN toClient'[e], NEW j \in DOMAIN toClient'[e],
              e[1] = Reader(m), Told(e, i, m)', Told(e, j, m)'
       PROVE  i = j
  <2>1. CASE e = d
    BY <1>5, <1>6, <1>12, <2>1 DEF Arrived
  <2>2. CASE e # d
    BY <1>5, <1>12, <2>2 DEF TripOf
  <2>. QED BY <2>1, <2>2
<1>13. ASSUME NEW c \in Conns, NEW i \in DOMAIN toBroker'[c], Asked(c, i, m)', Arrived(m)'
       PROVE  /\ c = lock' /\ i = 1
              /\ \A e \in unserved' : e[1] = Reader(m) => sock'[e] # "open"
  <2>1. c = lock' /\ i = 1
    BY <1>1, <1>2, <1>3, <1>13 DEF TripOf
  <2>2. CASE Arrived(m)
    BY <1>1, <1>2, <2>1, <2>2 DEF TripOf
  <2>3. CASE d[1] = Reader(m)
    <3>1. unserved' \subseteq Conns
      BY DEF BrokerInv, Broker!BTypeOK
    <3>. QED BY <1>1, <1>7, <2>1, <2>3, <3>1
  <2>. QED BY <1>8, <1>13, <2>2, <2>3
<1>14. ASSUME NEW e \in Conns, NEW j \in DOMAIN toClient'[e], e[1] = Reader(m), Told(e, j, m)'
       PROVE  ~ Taken(m)'
  <2>1. CASE e = d
    BY <1>6, <1>14, <2>1 DEF Arrived
  <2>2. CASE e # d
    BY <1>5, <1>14, <2>2 DEF TripOf
  <2>. QED BY <2>1, <2>2
<1>. QED BY <1>9, <1>10, <1>11, <1>12, <1>13, <1>14 DEF TripOf

\* A word is sent on to a subscriber.
LEMMA ServeWords ==
  ASSUME BrokerInv, BrokerInv', LocalInv, WordsInv, NothingTaken, RetiredIds,
         NEW d \in Conns, Broker!ServeSubscriber(d)
  PROVE  WordsInv'
<1>. DEFINE m == toBroker[lock][1].msg
<1>1. /\ lock \in Conns /\ 1 \in DOMAIN toBroker[lock] /\ toBroker[lock][1].cmd = "SEND"
      /\ m \in Msgs /\ toClient' = Broker!Reply(d, Broker!Message(m))
  BY Sender DEF Broker!ServeSubscriber
<1>2. OutFlow(None, {}) /\ QuietBroker(None)
  <2>1. OutFlow(None, {})
    BY StillFlow DEF Broker!ServeSubscriber
  <2>2. QuietBroker(None)
    BY DEF Broker!ServeSubscriber, QuietBroker, None
  <2>. QED BY <2>1, <2>2
<1>3. InFlow(None, {Broker!Message(m)})
  BY <1>1, ReplyFlow, Frames
<1>4. TripInv'
  <2>. SUFFICES ASSUME NEW w \in Trips
                PROVE  TripOf(w)'
    BY DEF TripInv
  <2>. HIDE DEF m
  <2>. QED BY StillOver, ServeOther, ServeReader DEF WordsInv, TripInv, m
<1>5. HelloInv'
  <2>1. TellsHello(Broker!Message(m)) => m.conn \in Conns /\ m.conn \in topics'[CMD_REQ]
    <3>1. ASSUME m.word = "HELLO"
          PROVE  m.conn \in Conns /\ m.conn \in topics'[CMD_REQ]
      <4>1. m.conn = lock /\ Subscribed(lock, 1)
        BY <1>1, <3>1 DEF WordsInv, HelloInv, SaysHello
      <4>2. topics' = topics
        BY DEF Broker!ServeSubscriber
      <4>. QED BY <1>1, <4>1, <4>2 DEF Subscribed
    <3>. QED BY <3>1 DEF TellsHello, Broker!Message
  <2>2. Broker!Message(m).msg = m
    BY DEF Broker!Message
  <2>3. \A c \in Conns : None[c] = 0
    BY DEF None
  <2>. HIDE DEF m
  <2>. QED BY <1>2, <1>3, <2>1, <2>2, <2>3, HelloFlow DEF WordsInv, QuietBroker
<1>6. ResultInv'
  <2>1. IsResult(m)
    BY <1>1 DEF WordsInv, ResultInv
  <2>2. IsResultThen(m)
    BY <1>1, <2>1, StillOver, Words DEF WordsInv, IsResult, IsResultThen, IsOver
  <2>3. Broker!Message(m).msg = m
    BY DEF Broker!Message
  <2>. HIDE DEF m
  <2>. QED BY <1>2, <1>3, <2>2, <2>3, StillOver, ResultFlow DEF WordsInv
<1>. QED BY <1>4, <1>5, <1>6 DEF WordsInv

\* A handler thread, or the end of a broadcast.
LEMMA BrokerStepWords ==
  ASSUME BrokerInv, BrokerInv', LocalInv, WordsInv, NothingTaken, RetiredIds, Broker!BrokerStep
  PROVE  WordsInv'
<1>. USE StillFlow, Frames
<1>1. ASSUME NEW c \in Conns, Broker!EngineConnect(c)
      PROVE  WordsInv'
  <2>1. toBroker[c] # <<>> /\ Broker!Done(c) /\ Head(toBroker[c]).cmd = "CONNECT"
    BY <1>1 DEF Broker!EngineConnect, Broker!NextFrame
  <2>2. OutFlow(At(c, 1), {})
    BY <2>1, DoneFlow
  <2>3. InFlow(None, {Broker!Connected})
    BY <1>1, ReplyFlow DEF Broker!EngineConnect
  <2>4. QuietBroker(At(c, 1))
    <3>1. toBroker[c][1].cmd = "CONNECT"
      BY <2>1, Queues
    <3>2. \A d \in Conns : At(c, 1)[d] = 1 => d = c
      BY DEF At
    <3>. QED BY <1>1, <3>1, <3>2 DEF Broker!EngineConnect, QuietBroker, Broker!Subscribe
  <2>. QED BY <2>2, <2>3, <2>4, QuietFlow
<1>2. ASSUME NEW c \in Conns, Broker!EngineSubscribe(c)
      PROVE  WordsInv'
  <2>1. toBroker[c] # <<>> /\ Broker!Done(c)
    BY <1>2 DEF Broker!EngineSubscribe, Broker!NextFrame
  <2>2. OutFlow(At(c, 1), {})
    BY <2>1, DoneFlow
  <2>3. InFlow(None, {})
    BY <1>2 DEF Broker!EngineSubscribe
  <2>4. QuietBroker(At(c, 1))
    <3>1. Head(toBroker[c]) = toBroker[c][1] /\ lock = NoConn /\ sock' = sock
      BY <1>2, <2>1, Queues DEF Broker!EngineSubscribe
    <3>2. \A d \in Conns : At(c, 1)[d] = 1 => d = c
      BY DEF At
    <3>3. topics' = [topics EXCEPT ![toBroker[c][1].dest] = @ \cup {c}]
      BY <1>2, <3>1 DEF Broker!EngineSubscribe
    <3>4. CMD_REQ \in DOMAIN topics
      BY DEF BrokerInv, Broker!BTypeOK
    <3>. QED BY <3>1, <3>2, <3>3, <3>4, ProtocolAssumptions DEF QuietBroker, Broker!Subscribe
  <2>. QED BY <2>2, <2>3, <2>4, QuietFlow
<1>3. ASSUME NEW c \in Conns, Broker!BeginSend(c)
      PROVE  WordsInv'
  <2>1. OutFlow(None, {}) /\ InFlow(None, {})
    BY <1>3 DEF Broker!BeginSend
  <2>2. QuietBroker(None)
    BY <1>3, ProtocolAssumptions DEF Broker!BeginSend, QuietBroker, None
  <2>. QED BY <2>1, <2>2, QuietFlow
<1>4. ASSUME NEW d \in Conns, Broker!ServeFails(d)
      PROVE  WordsInv'
  <2>1. lock \in Conns /\ toBroker[lock] # <<>> /\ Broker!Done(lock) /\ toBroker[lock][1].cmd = "SEND"
    BY <1>4, Sender DEF Broker!ServeFails
  <2>2. OutFlow(At(lock, 1), {})
    BY <2>1, DoneFlow
  <2>3. InFlow(None, {Broker!Error})
    BY <1>4, <2>1, ReplyFlow DEF Broker!ServeFails
  <2>4. QuietBroker(At(lock, 1))
    <3>1. \A e \in Conns : At(lock, 1)[e] = 1 => e = lock
      BY DEF At
    <3>2. At(lock, 1)[lock] > 0
      BY <2>1 DEF At
    <3>. QED BY <1>4, <2>1, <3>1, <3>2 DEF Broker!ServeFails, QuietBroker, Broker!Subscribe
  <2>. QED BY <2>2, <2>3, <2>4, QuietFlow
<1>5. ASSUME Broker!EndSend
      PROVE  WordsInv'
  <2>1. lock \in Conns /\ toBroker[lock] # <<>> /\ Broker!Done(lock) /\ toBroker[lock][1].cmd = "SEND"
    BY <1>5, Sender DEF Broker!EndSend
  <2>2. OutFlow(At(lock, 1), {})
    BY <2>1, DoneFlow
  <2>3. InFlow(None, {})
    BY <1>5 DEF Broker!EndSend
  <2>4. QuietBroker(At(lock, 1))
    <3>1. \A e \in Conns : At(lock, 1)[e] = 1 => e = lock
      BY DEF At
    <3>2. At(lock, 1)[lock] > 0
      BY <2>1 DEF At
    <3>. QED BY <1>5, <2>1, <3>1, <3>2 DEF Broker!EndSend, QuietBroker, Broker!Subscribe
  <2>. QED BY <2>2, <2>3, <2>4, QuietFlow
<1>6. ASSUME NEW c \in Conns, Broker!Finish(c)
      PROVE  WordsInv'
  <2>1. OutFlow(None, {}) /\ InFlow(None, {})
    BY <1>6 DEF Broker!Finish
  <2>2. QuietBroker(None)
    <3>1. /\ sock[c] = "dead" /\ toBroker'[c] = <<>> /\ lock = NoConn
          /\ sock' = [sock EXCEPT ![c] = "closed"]
          /\ topics' = [t \in {CONN, CMD_REQ, CMD_RES} |-> topics[t] \ {c}]
      BY <1>6 DEF Broker!Finish
    <3>2. sock \in [Conns -> {"new", "open", "dead", "closed"}]
      BY DEF BrokerInv, Broker!BTypeOK
    <3>. QED BY <3>1, <3>2, ProtocolAssumptions DEF QuietBroker, None
  <2>. QED BY <2>1, <2>2, QuietFlow
<1>. QED BY <1>1, <1>2, <1>3, <1>4, <1>5, <1>6, ServeWords
         DEF Broker!BrokerStep, Broker!HandlerStep

-----------------------------------------------------------------------------
(* The words the clients say *)

\* What a client adds to its connection is behind what is there.
LEMMA Written ==
  ASSUME BrokerInv, NEW c \in Conns, NEW fs \in Seq(Broker!ClientFrames),
         toBroker' = [toBroker EXCEPT ![c] = @ \o fs]
  PROVE  /\ \A d \in Conns \ {c} : toBroker'[d] = toBroker[d]
         /\ \A i \in DOMAIN toBroker'[c] :
              \/ i \in DOMAIN toBroker[c] /\ \A j \in 1 .. i : toBroker'[c][j] = toBroker[c][j]
              \/ i - Len(toBroker[c]) \in 1 .. Len(fs) /\ toBroker'[c][i] = fs[i - Len(toBroker[c])]
<1>1. /\ toBroker[c] \in Seq(Broker!ClientFrames)
      /\ DOMAIN toBroker[c] = 1 .. Len(toBroker[c]) /\ Len(toBroker[c]) \in Nat
  BY Queues
<1>2. toBroker'[c] = toBroker[c] \o fs /\ \A d \in Conns \ {c} : toBroker'[d] = toBroker[d]
  BY DEF BrokerInv, Broker!BTypeOK
<1>3. ASSUME NEW i \in DOMAIN (toBroker[c] \o fs), i \in 1 .. Len(toBroker[c])
      PROVE  \A j \in 1 .. i : (toBroker[c] \o fs)[j] = toBroker[c][j]
  BY <1>1, <1>3
<1>. QED BY <1>1, <1>2, <1>3, ConcatEntries

\* A word that may be said now was never on its way.
LEMMA SaidTrip ==
  ASSUME BrokerInv, BrokerInv', NEW m \in Trips, TripOf(m),
         ~ Begun(m), ~ Taken(m), Begun(m)', ~ Taken(m)',
         NEW c, NEW fs \in Seq(Broker!ClientFrames), Len(fs) = 1, Broker!Write(c, fs)
  PROVE  TripOf(m)'
<1>1. /\ \A d \in Conns : \A i \in DOMAIN toBroker[d] : ~ Asked(d, i, m)
      /\ \A d \in Conns : \A j \in DOMAIN toClient[d] : ~ Told(d, j, m)
      /\ toClient' = toClient
  BY DEF TripOf, Broker!Write
<1>2. \A d \in Conns : \A j \in DOMAIN toClient'[d] : ~ Told(d, j, m)'
  BY <1>1 DEF Told
<1>3. ~ Arrived(m)'
  BY <1>2 DEF Arrived
<1>4. ASSUME NEW d \in Conns, NEW i \in DOMAIN toBroker'[d], Asked(d, i, m)'
      PROVE  d = c /\ i = Len(toBroker[c]) + 1
  <2>1. CASE c \in Conns /\ toBroker' = [toBroker EXCEPT ![c] = @ \o fs]
    <3>1. CASE d # c
      <4>1. toBroker'[d] = toBroker[d]
        BY <2>1, <3>1, Written
      <4>. QED BY <1>1, <1>4, <4>1 DEF Asked
    <3>2. CASE d = c
      <4>1. \/ i \in DOMAIN toBroker[c] /\ \A j \in 1 .. i : toBroker'[c][j] = toBroker[c][j]
            \/ i - Len(toBroker[c]) \in 1 .. Len(fs)
        BY <1>4, <2>1, <3>2, Written
      <4>2. DOMAIN toBroker[c] = 1 .. Len(toBroker[c]) /\ Len(toBroker[c]) \in Nat
        BY <2>1, Queues
      <4>3. CASE i \in DOMAIN toBroker[c] /\ \A j \in 1 .. i : toBroker'[c][j] = toBroker[c][j]
        <5>1. toBroker'[c][i] = toBroker[c][i]
          BY <4>2, <4>3
        <5>. QED BY <1>1, <1>4, <3>2, <4>3, <5>1 DEF Asked
      <4>4. i \in Nat
        <5>1. toBroker'[d] \in Seq(Broker!ClientFrames)
          BY DEF BrokerInv, Broker!BTypeOK
        <5>. QED BY <5>1
      <4>5. CASE i - Len(toBroker[c]) \in 1 .. 1
        BY <3>2, <4>2, <4>4, <4>5
      <4>. QED BY <4>1, <4>3, <4>5
    <3>. QED BY <3>1, <3>2
  <2>2. CASE toBroker' = toBroker
    BY <1>1, <1>4, <2>2 DEF Asked
  <2>. QED BY <2>1, <2>2 DEF Broker!Write
<1>. QED BY <1>2, <1>3, <1>4 DEF TripOf

\* What a step may do to the other words when one is said, or taken.
Others(m) == /\ \A w \in Trips \ {m} : (Taken(w)' => Taken(w)) /\ (Begun(w) => Begun(w)')
             /\ executed \subseteq executed'
             /\ \A id \in CmdIds : IsOver(id) => \A v \in VMs : id \notin running'[v]
             /\ \A id \in DOMAIN cmdReqsRetired' : id \in CmdIds /\ IsOver(id)

\* A client says a word for the first time.
LEMMA SayWords ==
  ASSUME BrokerInv, BrokerInv', WordsInv,
         NEW m \in Trips, ~ Begun(m), ~ Taken(m), Begun(m)', ~ Taken(m)',
         IsResultThen(m), Others(m),
         NEW c, NEW fs \in Seq(Broker!ClientFrames), Broker!Write(c, fs),
         Len(fs) = 1, fs[1].cmd = "SEND", fs[1].msg = m
  PROVE  WordsInv'
<1>1. \A f \in {fs[i] : i \in 1 .. Len(fs)} : f.cmd = "SEND" /\ f.msg = m
  OBVIOUS
<1>2. /\ OutFlow(None, {fs[i] : i \in 1 .. Len(fs)})
      /\ InFlow(None, {})
      /\ QuietBroker(None)
  BY WriteFlow, StillFlow, Steady DEF Broker!Write
<1>3. m.word # "HELLO"
  BY TripCases, TripWords
<1>4. HelloInv'
  <2>1. \A f \in {fs[i] : i \in 1 .. Len(fs)} : ~ SaysHello(f)
    BY <1>1, <1>3 DEF SaysHello
  <2>2. \A d \in Conns : None[d] = 0
    BY DEF None
  <2>. QED BY <1>2, <2>1, <2>2, HelloFlow DEF WordsInv, QuietBroker
<1>5. ResultInv'
  <2>1. \A f \in {fs[i] : i \in 1 .. Len(fs)} : f.cmd = "SEND" => IsResultThen(f.msg)
    BY <1>1
  <2>. QED BY <1>2, <2>1, ResultFlow DEF WordsInv, Others
<1>6. ASSUME NEW w \in Trips, w # m
      PROVE  TripOf(w)'
  <2>1. \A f \in {fs[i] : i \in 1 .. Len(fs)} : ~ Carries(f, w)
    BY <1>1, <1>6 DEF Carries
  <2>. QED BY <1>2, <1>6, <2>1, StillFlow, TripFlow DEF WordsInv, TripInv, QuietBroker, Others
<1>7. TripOf(m)'
  BY SaidTrip DEF WordsInv, TripInv
<1>. QED BY <1>4, <1>5, <1>6, <1>7 DEF WordsInv, TripInv

\* RunCmd: a command that is issued now was never on its way.
LEMMA RunCmdWords ==
  ASSUME BrokerInv, BrokerInv', LocalInv, WordsInv, RetiredIds, NEW id \in CmdIds, RunCmd(id)
  PROVE  WordsInv'
<1>1. PICK fs : fs = <<Broker!Send(CMD_REQ, CmdRun(id))>>
  OBVIOUS
<1>2. /\ Broker!Write(transport[Host], fs) /\ id \notin issued /\ issued' = issued \cup {id}
      /\ executed' = executed /\ running' = running /\ cmdReqsRetired' = cmdReqsRetired
  BY <1>1 DEF RunCmd, Registry!AddCmdRequest, localVars
<1>3. /\ fs \in Seq(Broker!ClientFrames) /\ Len(fs) = 1
      /\ fs[1].cmd = "SEND" /\ fs[1].msg = CmdRun(id)
  <2>1. Broker!Send(CMD_REQ, CmdRun(id)) \in Broker!ClientFrames
    BY TripWords, Frames
  <2>. QED BY <1>1, <2>1 DEF Broker!Send
<1>4. id \notin executed
  BY <1>2 DEF LocalInv
<1>5. \A k \in CmdIds : IsOver(k)' <=> IsOver(k)
  BY <1>2 DEF IsOver
<1>6. Others(CmdRun(id))
  <2>1. ASSUME NEW w \in Trips \ {CmdRun(id)}
        PROVE  (Taken(w)' => Taken(w)) /\ (Begun(w) => Begun(w)')
    BY <1>2, <1>5, TripCases, TripWords
  <2>. QED BY <1>2, <2>1 DEF Others, IsOver, WordsInv, ResultInv, RetiredIds
<1>7. IsResultThen(CmdRun(id))
  BY TripWords DEF IsResultThen
<1>. QED BY <1>2, <1>3, <1>4, <1>6, <1>7, TripWords, SayWords

\* VMConnected: HELLO is behind SUBSCRIBE, and speaks of the connection it is said on.
LEMMA VMConnectedWords ==
  ASSUME BrokerInv, BrokerInv', LocalInv, WordsInv, RetiredIds, NEW v \in VMs, VMConnected(v)
  PROVE  WordsInv'
<1>. DEFINE c == transport[v]
            fs == <<Broker!Subscribe(CMD_REQ), Broker!Send(CONN, Hello(c))>>
<1>1. /\ c \in Conns /\ c[1] = v /\ Broker!Receive(c, fs)
      /\ NothingTaken
  BY DEF VMConnected, Reads, Online, LocalInv, Clients, registryVars, localVars, NothingTaken
<1>2. Hello(c) \in Msgs
  <2>1. c \in VMs \X (1 .. MaxConns)
    BY <1>1 DEF Conns
  <2>. QED BY <2>1 DEF Msgs
<1>3. /\ fs \in Seq(Broker!ClientFrames) /\ Len(fs) = 2
      /\ fs[1] = Broker!Subscribe(CMD_REQ) /\ fs[2] = Broker!Send(CONN, Hello(c))
  <2>1. Broker!Subscribe(CMD_REQ) \in Broker!ClientFrames /\ Broker!Send(CONN, Hello(c)) \in Broker!ClientFrames
    BY <1>2, Frames
  <2>. HIDE DEF c
  <2>. QED BY <2>1
<1>4. \A f \in {fs[i] : i \in 1 .. Len(fs)} :
        f = Broker!Subscribe(CMD_REQ) \/ f = Broker!Send(CONN, Hello(c))
  <2>. HIDE DEF c
  <2>. QED BY <1>3
<1>5. OutFlow(None, {fs[i] : i \in 1 .. Len(fs)}) /\ InFlow(At(c, 1), {}) /\ QuietBroker(None)
  <2>. HIDE DEF c, fs
  <2>1. 1 \in 1 .. Len(toClient[c])
    BY <1>1, Queues DEF Broker!Receive
  <2>2. InFlow(At(c, 1), {}) /\ QuietBroker(None)
    BY <1>1, <2>1, ReadFlow, Steady DEF Broker!Receive
  <2>. QED BY <1>1, <1>3, <2>2, WriteFlow DEF Broker!Receive
<1>6. TripInv'
  <2>. SUFFICES ASSUME NEW m \in Trips
                PROVE  TripOf(m)'
    BY DEF TripInv
  <2>1. \A f \in {fs[i] : i \in 1 .. Len(fs)} : ~ Carries(f, m)
    <3>1. m.word # "HELLO" /\ Hello(c).word = "HELLO"
      BY TripCases, TripWords DEF Hello
    <3>. QED BY <1>4, <3>1 DEF Carries, Broker!Subscribe, Broker!Send
  <2>2. (Taken(m)' => Taken(m)) /\ (Begun(m) => Begun(m)')
    BY <1>1, StillOver DEF WordsInv
  <2>. HIDE DEF c, fs
  <2>. QED BY <1>5, <2>1, <2>2, StillFlow, TripFlow DEF WordsInv, TripInv, QuietBroker
<1>7. ResultInv'
  <2>1. \A f \in {fs[i] : i \in 1 .. Len(fs)} : f.cmd = "SEND" => IsResultThen(f.msg)
    BY <1>4 DEF IsResultThen, Broker!Subscribe, Broker!Send, Hello
  <2>. HIDE DEF c, fs
  <2>. QED BY <1>1, <1>5, <2>1, StillOver, ResultFlow DEF WordsInv
<1>8. HelloInv'
  <2>1. toBroker' = [toBroker EXCEPT ![c] = @ \o fs] /\ topics' = topics /\ sock' = sock
    BY <1>1 DEF Broker!Receive
  <2>2. ASSUME NEW d \in Conns, NEW i \in DOMAIN toBroker'[d], SaysHello(toBroker'[d][i])
        PROVE  toBroker'[d][i].msg.conn = d /\ Subscribed(d, i)'
    <3>. HIDE DEF c, fs
    <3>1. CASE d # c
      <4>1. toBroker'[d] = toBroker[d]
        BY <1>1, <1>3, <2>1, <3>1, Written
      <4>2. toBroker[d][i].msg.conn = d /\ Subscribed(d, i)
        BY <2>2, <4>1 DEF WordsInv, HelloInv
      <4>. QED BY <2>1, <4>1, <4>2 DEF Subscribed
    <3>2. CASE d = c
      <4>1. \/ i \in DOMAIN toBroker[c] /\ \A j \in 1 .. i : toBroker'[c][j] = toBroker[c][j]
            \/ i - Len(toBroker[c]) \in 1 .. Len(fs) /\ toBroker'[c][i] = fs[i - Len(toBroker[c])]
        BY <1>1, <1>3, <2>1, <2>2, <3>2, Written
      <4>2. /\ toBroker[c] \in Seq(Broker!ClientFrames) /\ Len(toBroker[c]) \in Nat
            /\ DOMAIN toBroker[c] = 1 .. Len(toBroker[c])
            /\ toBroker'[c] = toBroker[c] \o fs /\ i \in Nat
        <5>1. toBroker'[c] = toBroker[c] \o fs /\ toBroker'[d] \in Seq(Broker!ClientFrames)
          BY <1>1, <2>1 DEF BrokerInv, Broker!BTypeOK
        <5>. QED BY <1>1, <5>1, Queues
      <4>3. CASE i \in DOMAIN toBroker[c] /\ \A j \in 1 .. i : toBroker'[c][j] = toBroker[c][j]
        <5>1. toBroker'[c][i] = toBroker[c][i] /\ \A j \in 1 .. i - 1 : toBroker'[c][j] = toBroker[c][j]
          BY <4>2, <4>3
        <5>2. toBroker[c][i].msg.conn = c /\ Subscribed(c, i)
          BY <1>1, <2>2, <3>2, <4>3, <5>1 DEF WordsInv, HelloInv
        <5>. QED BY <2>1, <3>2, <5>1, <5>2 DEF Subscribed
      <4>4. CASE i - Len(toBroker[c]) \in 1 .. 2 /\ toBroker'[c][i] = fs[i - Len(toBroker[c])]
        <5>1. i - Len(toBroker[c]) = 2
          <6>1. ~ SaysHello(fs[1])
            BY <1>3 DEF SaysHello, Broker!Subscribe
          <6>2. i - Len(toBroker[c]) = 1 \/ i - Len(toBroker[c]) = 2
            BY <4>2, <4>4
          <6>. QED BY <2>2, <3>2, <4>4, <6>1, <6>2
        <5>2. toBroker'[c][i].msg.conn = c
          BY <1>3, <4>4, <5>1 DEF Broker!Send, Hello
        <5>3. Len(toBroker[c]) + 1 \in 1 .. i - 1
          BY <4>2, <5>1
        <5>4. toBroker'[c][Len(toBroker[c]) + 1] = Broker!Subscribe(CMD_REQ)
          <6>1. 1 \in 1 .. Len(fs)
            BY <1>3
          <6>2. (toBroker[c] \o fs)[Len(toBroker[c]) + 1] = fs[1]
            <7>1. toBroker[c] \in Seq(Broker!ClientFrames) /\ fs \in Seq(Broker!ClientFrames)
              BY <1>3, <4>2
            <7>. QED BY <6>1, <7>1, ConcatNew
          <6>. QED BY <1>3, <4>2, <6>2
        <5>. QED BY <3>2, <5>2, <5>3, <5>4 DEF Subscribed
      <4>. QED BY <1>3, <4>1, <4>3, <4>4
    <3>. QED BY <3>1, <3>2
  <2>3. ASSUME NEW d \in Conns, NEW j \in DOMAIN toClient'[d], TellsHello(toClient'[d][j])
        PROVE  LET conn == toClient'[d][j].msg.conn
               IN  conn \in Conns /\ (conn \in topics'[CMD_REQ] \/ sock'[conn] = "closed")
    <3>. HIDE DEF c, fs
    <3>1. j + At(c, 1)[d] \in DOMAIN toClient[d] /\ toClient'[d][j] = toClient[d][j + At(c, 1)[d]]
      BY <1>5 DEF InFlow
    <3>. QED BY <2>1, <2>3, <3>1 DEF WordsInv, HelloInv
  <2>. QED BY <2>2, <2>3 DEF HelloInv
<1>. QED BY <1>6, <1>7, <1>8 DEF WordsInv

\* What a client hears is the first word on its way to its connection.
LEMMA Heard ==
  ASSUME BrokerInv, LocalInv, NEW c \in Clients, NEW word, ReadsWord(c, word)
  PROVE  /\ transport[c] \in Conns /\ transport[c][1] = c /\ sock[transport[c]] = "open"
         /\ toClient[transport[c]] # <<>> /\ 1 \in 1 .. Len(toClient[transport[c]])
         /\ 1 \in DOMAIN toClient[transport[c]]
         /\ toClient[transport[c]][1].cmd = "MESSAGE"
         /\ NextMsg(c) = toClient[transport[c]][1].msg
         /\ NextMsg(c) \in Msgs /\ NextMsg(c).word = word
<1>1. transport[c] \in Conns /\ transport[c][1] = c /\ sock[transport[c]] = "open"
  BY DEF ReadsWord, Online, LocalInv
<1>2. /\ toClient[transport[c]] # <<>> /\ Head(toClient[transport[c]]).cmd = "MESSAGE"
      /\ NextMsg(c) = Head(toClient[transport[c]]).msg /\ NextMsg(c).word = word
  BY DEF ReadsWord, NextMsg
<1>3. toClient[transport[c]][1] \in Broker!BrokerFrames
  BY <1>1, <1>2, Queues
<1>. QED BY <1>1, <1>2, <1>3, Queues, Words

\* The only copy of a word on its way to its reader is gone when it is taken.
LEMMA TakenTrip ==
  ASSUME BrokerInv, BrokerInv', LocalInv, NEW m \in Trips, TripOf(m), Begun(m)',
         NEW c \in Conns, Told(c, 1, m), c[1] = Reader(m), sock[c] = "open",
         NEW none, none = <<>>, Broker!Receive(c, none)
  PROVE  TripOf(m)'
<1>1. Arrived(m) /\ 1 \in DOMAIN toClient[c] /\ 1 \in 1 .. Len(toClient[c])
  BY Queues DEF Arrived, Told
<1>2. toBroker' = toBroker
  <2>1. toBroker[c] \o none = toBroker[c]
    BY Queues
  <2>2. toBroker' = [toBroker EXCEPT ![c] = toBroker[c] \o none]
    BY DEF Broker!Receive
  <2>. QED BY <2>1, <2>2 DEF BrokerInv, Broker!BTypeOK
<1>3. \A d \in Conns : \A i : Asked(d, i, m)' <=> Asked(d, i, m)
  BY <1>2 DEF Asked
<1>4. /\ lock' = lock /\ unserved' = unserved /\ sock' = sock
      /\ toClient' = [toClient EXCEPT ![c] = Tail(@)]
  BY DEF Broker!Receive
<1>5. InFlow(At(c, 1), {})
  BY <1>1, ReadFlow DEF Broker!Receive
<1>6. ASSUME NEW d \in Conns, NEW j \in DOMAIN toClient'[d], Told(d, j, m)'
      PROVE  d[1] # Reader(m)
  <2>1. /\ j + At(c, 1)[d] \in DOMAIN toClient[d]
        /\ toClient'[d][j] = toClient[d][j + At(c, 1)[d]]
    BY <1>5 DEF InFlow
  <2>2. Told(d, j + At(c, 1)[d], m)
    <3>1. toClient'[d][j].cmd = "MESSAGE" /\ toClient'[d][j].msg = m
      BY <1>6 DEF Told
    <3>. QED BY <2>1, <3>1 DEF Told
  <2>3. CASE d = c
    <3>1. j \in Nat /\ j # 0
      <4>1. toClient'[d] \in Seq(Broker!BrokerFrames)
        BY DEF BrokerInv, Broker!BTypeOK
      <4>. QED BY <4>1
    <3>2. j + 1 \in DOMAIN toClient[c] /\ Told(c, j + 1, m)
      BY <2>1, <2>2, <2>3 DEF At
    <3>3. j + 1 = 1
      BY <1>1, <3>2 DEF TripOf
    <3>. QED BY <3>1, <3>3
  <2>4. CASE d # c
    <3>1. toClient[d] # <<>>
      BY <2>1, Queues
    <3>2. sock[d] = "open" /\ transport[d[1]] = d
      BY <3>1 DEF LocalInv
    <3>3. transport[c[1]] = c
      BY DEF LocalInv
    <3>. QED BY <2>4, <3>2, <3>3
  <2>. QED BY <2>3, <2>4
<1>7. /\ \A d \in Conns : \A i \in DOMAIN toBroker'[d] : Asked(d, i, m)' => Begun(m)'
      /\ \A d, e \in Conns : \A i \in DOMAIN toBroker'[d], j \in DOMAIN toBroker'[e] :
           Asked(d, i, m)' /\ Asked(e, j, m)' => d = e /\ i = j
      /\ \A d \in Conns : \A i \in DOMAIN toBroker'[d] : Asked(d, i, m)' =>
           /\ d = lock' /\ i = 1
           /\ \A e \in unserved' : e[1] = Reader(m) => sock'[e] # "open"
  BY <1>1, <1>2, <1>3, <1>4 DEF TripOf
<1>. QED BY <1>6, <1>7 DEF TripOf

\* A word is heard by its reader, and taken.
LEMMA TakeWords ==
  ASSUME BrokerInv, BrokerInv', LocalInv, WordsInv,
         NEW m \in Trips, Begun(m)', Others(m),
         NEW c \in Conns, Told(c, 1, m), c[1] = Reader(m), sock[c] = "open",
         NEW none, none = <<>>, Broker!Receive(c, none)
  PROVE  WordsInv'
<1>1. none \in Seq(Broker!ClientFrames) /\ {none[i] : i \in 1 .. Len(none)} = {}
  OBVIOUS
<1>2. OutFlow(None, {}) /\ InFlow(At(c, 1), {}) /\ QuietBroker(None)
  <2>1. OutFlow(None, {none[i] : i \in 1 .. Len(none)})
    BY <1>1, WriteFlow DEF Broker!Receive
  <2>2. 1 \in 1 .. Len(toClient[c])
    BY Queues DEF Told
  <2>3. InFlow(At(c, 1), {}) /\ QuietBroker(None)
    BY <2>2, ReadFlow, Steady DEF Broker!Receive
  <2>. QED BY <1>1, <2>1, <2>3
<1>3. HelloInv'
  <2>1. \A d \in Conns : None[d] = 0
    BY DEF None
  <2>. QED BY <1>2, <2>1, HelloFlow DEF WordsInv, QuietBroker
<1>4. ResultInv'
  BY <1>2, ResultFlow DEF WordsInv, Others
<1>5. ASSUME NEW w \in Trips, w # m
      PROVE  TripOf(w)'
  BY <1>2, <1>5, StillFlow, TripFlow DEF WordsInv, TripInv, QuietBroker, Others
<1>6. TripOf(m)'
  BY TakenTrip DEF WordsInv, TripInv
<1>. QED BY <1>3, <1>4, <1>5, <1>6 DEF WordsInv, TripInv

\* VMHearsCmdRun: a command is taken into execution once.
LEMMA VMHearsCmdRunWords ==
  ASSUME BrokerInv, BrokerInv', LocalInv, WordsInv, RetiredIds, NEW v \in VMs, VMHearsCmdRun(v)
  PROVE  WordsInv'
<1>1. PICK c \in Conns, id \in CmdIds :
        /\ c = transport[v] /\ id = NextMsg(v).id
        /\ c[1] = v /\ sock[c] = "open"
        /\ NextMsg(v) = CmdRun(id) /\ NextMsg(v).to = Target[id]
        /\ 1 \in DOMAIN toClient[c] /\ Told(c, 1, CmdRun(id))
  <2>1. v \in Clients /\ ReadsWord(v, "CMD_RUN")
    BY DEF VMHearsCmdRun, Clients
  <2>. QED BY <2>1, Heard, Words DEF Told
<1>2. PICK none : none = <<>>
  OBVIOUS
<1>3. none \in Seq(Broker!ClientFrames) /\ {none[i] : i \in 1 .. Len(none)} = {}
  BY <1>2
<1>4. Broker!Receive(c, none) /\ issued' = issued /\ cmdReqsRetired' = cmdReqsRetired
  BY <1>1, <1>2 DEF VMHearsCmdRun, registryVars
<1>5. PICK starts \in SUBSET {id} : /\ Target[id] # v => starts = {}
                                    /\ running' = [running EXCEPT ![v] = @ \cup starts]
                                    /\ executed' = executed \cup starts
  BY <1>1 DEF VMHearsCmdRun
<1>6. CASE starts = {}
  <2>1. NothingTaken
    BY <1>4, <1>5, <1>6 DEF LocalInv, NothingTaken
  <2>2. Quiet({none[i] : i \in 1 .. Len(none)})
    BY <1>3, Frames
  <2>. QED BY <1>1, <1>4, <1>3, <2>1, <2>2, QuietReceiveWords
<1>7. CASE starts = {id} /\ Target[id] = v
  <2>1. TripOf(CmdRun(id))
    BY TripWords DEF WordsInv, TripInv
  <2>2. id \in issued /\ id \notin executed
    BY <1>1, <1>7, <2>1, TripWords DEF TripOf
  <2>3. \A k \in CmdIds : IsOver(k) => IsOver(k)' /\ \A w \in VMs : k \notin running'[w]
    BY <1>5, <1>7, <2>2 DEF IsOver, LocalInv
  <2>4. Others(CmdRun(id))
    <3>1. ASSUME NEW w \in Trips \ {CmdRun(id)}
          PROVE  (Taken(w)' => Taken(w)) /\ (Begun(w) => Begun(w)')
      BY <1>4, <1>5, <2>3, TripCases, TripWords
    <3>. QED BY <1>4, <1>5, <2>3, <3>1 DEF Others, WordsInv, ResultInv, RetiredIds
  <2>. QED BY <1>1, <1>2, <1>4, <1>7, <2>2, <2>4, TripWords, TakeWords
<1>. QED BY <1>5, <1>7, <1>6

\* A result the host hears is of a command, from a VM.
LEMMA ResultHeard ==
  ASSUME BrokerInv, LocalInv, HostHearsCmdResult
  PROVE  \E id \in CmdIds, vm \in VMs :
           /\ id = NextMsg(Host).id /\ vm = NextMsg(Host).from
           /\ Registry!AcceptResult(id, vm) \/ Registry!RejectResult(id)
<1>1. Host \in Clients /\ ReadsWord(Host, "CMD_RESULT")
  BY DEF HostHearsCmdResult, Clients
<1>2. NextMsg(Host).id \in CmdIds /\ NextMsg(Host).from \in VMs
  BY <1>1, Heard, Words
<1>. QED BY <1>2 DEF HostHearsCmdResult, Registry!ProcessCmdResult

\* HostHearsCmdResult: a result is taken by the registry, or rejected, for good.
LEMMA HostHearsCmdResultWords ==
  ASSUME BrokerInv, BrokerInv', LocalInv, WordsInv, RetiredIds, HostHearsCmdResult
  PROVE  WordsInv'
<1>1. PICK c \in Conns, id \in CmdIds, vm \in VMs :
        /\ c = transport[Host] /\ c[1] = Host /\ sock[c] = "open"
        /\ 1 \in DOMAIN toClient[c] /\ Told(c, 1, CmdResult(id, vm))
        /\ Registry!AcceptResult(id, vm) \/ Registry!RejectResult(id)
  <2>1. Host \in Clients /\ ReadsWord(Host, "CMD_RESULT")
    BY DEF HostHearsCmdResult, Clients
  <2>. QED BY <2>1, Heard, Words, ResultHeard DEF Told
<1>2. IsOver(id) /\ vm = Target[id] /\ Told(c, 1, Answer(id))
  <2>1. IsResult(CmdResult(id, vm))
    BY <1>1 DEF WordsInv, ResultInv, Told
  <2>2. IsOver(id) /\ vm = Target[id]
    BY <2>1 DEF IsResult, CmdResult
  <2>. QED BY <1>1, <2>2 DEF Answer
<1>3. PICK none : none = <<>>
  OBVIOUS
<1>4. none \in Seq(Broker!ClientFrames) /\ {none[i] : i \in 1 .. Len(none)} = {}
  BY <1>3
<1>5. /\ Broker!Receive(c, none) /\ executed' = executed /\ running' = running /\ issued' = issued
      /\ DOMAIN cmdReqsRetired' \subseteq DOMAIN cmdReqsRetired \cup {id}
  BY <1>1, <1>3 DEF HostHearsCmdResult, localVars, Registry!AcceptResult, Registry!RejectResult,
                    Registry!vars, Registry!With
<1>6. \A k \in CmdIds : IsOver(k) => IsOver(k)' /\ \A w \in VMs : k \notin running'[w]
  BY <1>5 DEF IsOver
<1>7. Others(Answer(id))
  <2>1. ASSUME NEW w \in Trips \ {Answer(id)}
        PROVE  (Taken(w)' => Taken(w)) /\ (Begun(w) => Begun(w)')
    BY <1>5, <1>6, TripCases, TripWords
  <2>. QED BY <1>2, <1>5, <1>6, <2>1 DEF Others, WordsInv, ResultInv, RetiredIds
<1>. QED BY <1>1, <1>2, <1>3, <1>5, <1>6, <1>7, TripWords, TakeWords

\* ExecutionEnds: the result is said once, when the command is over, by the VM it was sent to.
LEMMA ExecutionEndsWords ==
  ASSUME BrokerInv, BrokerInv', LocalInv, WordsInv, RetiredIds,
         NEW v \in VMs, NEW id \in CmdIds, ExecutionEnds(v, id)
  PROVE  WordsInv'
<1>1. PICK fs : fs = <<Broker!Send(CMD_RES, CmdResult(id, v))>>
  OBVIOUS
<1>2. /\ id \in running[v] /\ running' = [running EXCEPT ![v] = @ \ {id}]
      /\ issued' = issued /\ executed' = executed /\ cmdReqsRetired' = cmdReqsRetired
      /\ UNCHANGED brokerVars \/ Broker!Write(transport[v], fs)
  BY <1>1 DEF ExecutionEnds, registryVars
<1>3. NothingTaken
  BY <1>2 DEF NothingTaken, LocalInv
<1>4. CASE UNCHANGED brokerVars
  BY <1>3, <1>4, StutterWords
<1>5. CASE Broker!Write(transport[v], fs)
  <2>1. Target[id] = v /\ ~ IsOver(id) /\ id \notin DOMAIN cmdReqsRetired
    BY <1>2 DEF LocalInv, IsOver, WordsInv, ResultInv
  <2>2. IsOver(id)' /\ \A w \in VMs : id \notin running'[w]
    BY <1>2 DEF LocalInv, IsOver
  <2>3. /\ fs \in Seq(Broker!ClientFrames) /\ Len(fs) = 1
        /\ fs[1].cmd = "SEND" /\ fs[1].msg = Answer(id)
    <3>1. Broker!Send(CMD_RES, Answer(id)) \in Broker!ClientFrames
      BY TripWords, Frames
    <3>. QED BY <1>1, <2>1, <3>1 DEF Broker!Send, Answer
  <2>4. IsResultThen(Answer(id))
    BY <2>1, <2>2 DEF IsResultThen, Answer, CmdResult, IsOver
  <2>5. Others(Answer(id))
    BY <1>3, StillOver DEF Others, WordsInv
  <2>. QED BY <1>2, <1>5, <2>1, <2>2, <2>3, <2>4, <2>5, TripWords, SayWords
<1>. QED BY <1>2, <1>4, <1>5

-----------------------------------------------------------------------------
(* The registry of the host inside the exchange *)

\* CommandRegistry's formulas are the same seen from here and from its proofs.
LEMMA SameRegistry ==
  /\ Registry!RegistryInv <=> RegistryProofs!RegistryInv
  /\ Registry!RegistryInv' <=> RegistryProofs!RegistryInv'
  /\ Registry!Init <=> RegistryProofs!Init
  /\ Registry!Restart <=> RegistryProofs!Restart
  /\ UNCHANGED registryVars <=> UNCHANGED RegistryProofs!vars
  /\ \A id : /\ Registry!PopCmdResults(id) <=> RegistryProofs!PopCmdResults(id)
             /\ Registry!RejectResult(id) <=> RegistryProofs!RejectResult(id)
             /\ \A r : /\ Registry!AddCmdRequest(id, r) <=> RegistryProofs!AddCmdRequest(id, r)
                       /\ Registry!AcceptResult(id, r) <=> RegistryProofs!AcceptResult(id, r)
<1>1. Registry!RegistryInv <=> RegistryProofs!RegistryInv
  BY DEF Registry!RegistryInv, RegistryProofs!RegistryInv, Registry!TypeOK,
     RegistryProofs!TypeOK, Registry!RegistryPartition, RegistryProofs!RegistryPartition,
     Registry!NeverAnsweredTwice, RegistryProofs!NeverAnsweredTwice, Registry!HandedOutIds,
     RegistryProofs!HandedOutIds, Registry!Dicts, RegistryProofs!Dicts
<1>2. Registry!RegistryInv' <=> RegistryProofs!RegistryInv'
  BY DEF Registry!RegistryInv, RegistryProofs!RegistryInv, Registry!TypeOK,
     RegistryProofs!TypeOK, Registry!RegistryPartition, RegistryProofs!RegistryPartition,
     Registry!NeverAnsweredTwice, RegistryProofs!NeverAnsweredTwice, Registry!HandedOutIds,
     RegistryProofs!HandedOutIds, Registry!Dicts, RegistryProofs!Dicts
<1>3. /\ Registry!Init <=> RegistryProofs!Init
      /\ Registry!Restart <=> RegistryProofs!Restart
      /\ UNCHANGED registryVars <=> UNCHANGED RegistryProofs!vars
  BY DEF Registry!Init, RegistryProofs!Init, Registry!Restart, RegistryProofs!Restart,
     Registry!EmptyDict, RegistryProofs!EmptyDict, registryVars, RegistryProofs!vars
<1>4. ASSUME NEW id
      PROVE  /\ Registry!PopCmdResults(id) <=> RegistryProofs!PopCmdResults(id)
             /\ Registry!RejectResult(id) <=> RegistryProofs!RejectResult(id)
             /\ \A r : /\ Registry!AddCmdRequest(id, r) <=> RegistryProofs!AddCmdRequest(id, r)
                       /\ Registry!AcceptResult(id, r) <=> RegistryProofs!AcceptResult(id, r)
  BY DEF Registry!PopCmdResults, RegistryProofs!PopCmdResults, Registry!RejectResult,
     RegistryProofs!RejectResult, Registry!AddCmdRequest, RegistryProofs!AddCmdRequest,
     Registry!AcceptResult, RegistryProofs!AcceptResult, Registry!With, RegistryProofs!With,
     Registry!Without, RegistryProofs!Without, Registry!vars, RegistryProofs!vars
<1>. QED BY <1>1, <1>2, <1>3, <1>4

\* What the exchange does to the registry is what the registry is proved about.
LEMMA RegistryStep ==
  ASSUME Registry!RegistryInv,
         \/ UNCHANGED registryVars
         \/ Registry!Restart
         \/ \E id \in CmdIds : \/ Registry!PopCmdResults(id)
                               \/ Registry!RejectResult(id)
                               \/ \E vm \in VMs : \/ Registry!AddCmdRequest(id, vm)
                                                  \/ Registry!AcceptResult(id, vm)
  PROVE  Registry!RegistryInv'
<1>. USE ProtocolAssumptions
<1>1. RegistryProofs!RegistryInv
  BY SameRegistry
<1>2. [RegistryProofs!Next]_(RegistryProofs!vars)
  BY SameRegistry DEF RegistryProofs!Next, RegistryProofs!ProcessCmdResult
<1>3. RegistryProofs!RegistryInv'
  BY <1>1, <1>2, RegistryProofs!NextInv
<1>. QED BY <1>3, SameRegistry

\* The registry keeps its invariant in the exchange.
LEMMA RegistryKept ==
  ASSUME ProtocolInv, [Next]_vars
  PROVE  Registry!RegistryInv'
<1>1. ASSUME NEW id \in CmdIds, RunCmd(id)
      PROVE  Registry!RegistryInv'
  <2>1. Target[id] \in VMs
    BY ProtocolAssumptions
  <2>. QED BY <1>1, <2>1, RegistryStep DEF RunCmd, ProtocolInv
<1>2. ASSUME NEW id \in CmdIds, GetCmdResults(id)
      PROVE  Registry!RegistryInv'
  BY <1>2, RegistryStep DEF GetCmdResults, ProtocolInv
<1>3. CASE HostHearsCmdResult
  BY <1>3, ResultHeard, RegistryStep DEF ProtocolInv
<1>4. CASE HostRestart
  BY <1>4, RegistryStep DEF HostRestart, ProtocolInv
<1>5. CASE UNCHANGED registryVars
  BY <1>5, RegistryStep DEF ProtocolInv
<1>6. \/ UNCHANGED registryVars
      \/ HostHearsCmdResult \/ HostRestart
      \/ \E id \in CmdIds : RunCmd(id) \/ GetCmdResults(id)
  BY DEF Next, vars, HostReacts, HostConnected, HostHearsHello, HearsError, VMReacts, VMConnected,
     VMHearsCmdRun, ExecutionEnds, VMCrash, VMBoot, Reconnect, Break, Misread, BrokerStep
<1>. QED BY <1>1, <1>2, <1>3, <1>4, <1>5, <1>6

\* A command leaves the requests sent for those retired, and neither otherwise than by a restart.
LEMMA KnownKept ==
  ASSUME ProtocolInv, [Next]_vars
  PROVE  KnownInv'
<1>. SUFFICES ASSUME "restart" \notin Faults
              PROVE  issued' \subseteq DOMAIN cmdReqsSent' \cup DOMAIN cmdReqsRetired'
  BY DEF KnownInv
<1>1. issued \subseteq DOMAIN cmdReqsSent \cup DOMAIN cmdReqsRetired
  BY DEF ProtocolInv, KnownInv
<1>2. ASSUME NEW id \in CmdIds, RunCmd(id)
      PROVE  issued' \subseteq DOMAIN cmdReqsSent' \cup DOMAIN cmdReqsRetired'
  BY <1>1, <1>2 DEF RunCmd, Registry!AddCmdRequest, Registry!With
<1>3. ASSUME NEW id \in CmdIds, GetCmdResults(id)
      PROVE  issued' \subseteq DOMAIN cmdReqsSent' \cup DOMAIN cmdReqsRetired'
  BY <1>1, <1>3 DEF GetCmdResults, Registry!PopCmdResults
<1>4. CASE HostHearsCmdResult
  <2>1. PICK id \in CmdIds, vm \in VMs : Registry!AcceptResult(id, vm) \/ Registry!RejectResult(id)
    BY <1>4, ResultHeard DEF ProtocolInv
  <2>. QED BY <1>1, <2>1 DEF Registry!AcceptResult, Registry!RejectResult, Registry!vars,
                             Registry!With, Registry!Without
<1>5. CASE UNCHANGED registryVars
  BY <1>1, <1>5 DEF registryVars
<1>6. \/ UNCHANGED registryVars
      \/ HostHearsCmdResult
      \/ \E id \in CmdIds : RunCmd(id) \/ GetCmdResults(id)
  BY DEF Next, vars, HostReacts, HostConnected, HostHearsHello, HearsError, VMReacts, VMConnected,
     VMHearsCmdRun, ExecutionEnds, VMCrash, VMBoot, Reconnect, Break, Misread, BrokerStep,
     HostRestart
<1>. QED BY <1>2, <1>3, <1>4, <1>5, <1>6

-----------------------------------------------------------------------------
(* The broker keeps its invariant *)

\* The frames of the clients are well formed, and come from their connections.
LEMMA BrokerInvKept ==
  ASSUME ProtocolInv, [Next]_vars
  PROVE  BrokerInv'
<1>. USE DEF ProtocolInv
<1>1. ASSUME NEW c \in Clients, transport[c] # NoConn
      PROVE  transport[c] \in Conns
  BY <1>1 DEF LocalInv
<1>2. ASSUME NEW c, NEW f \in Broker!ClientFrames, Broker!Write(c, <<f>>)
      PROVE  BrokerInv'
  <2>1. <<f>> \in Seq(Broker!ClientFrames)
    OBVIOUS
  <2>. QED BY <1>2, <2>1, BrokerKept
<1>3. ASSUME NEW id \in CmdIds, RunCmd(id)
      PROVE  BrokerInv'
  <2>1. Broker!Send(CMD_REQ, CmdRun(id)) \in Broker!ClientFrames
    BY Frames DEF Msgs
  <2>. QED BY <1>2, <1>3, <2>1 DEF RunCmd
<1>4. ASSUME NEW v \in VMs, NEW id \in CmdIds, ExecutionEnds(v, id)
      PROVE  BrokerInv'
  <2>1. Broker!Send(CMD_RES, CmdResult(id, v)) \in Broker!ClientFrames
    BY Frames DEF Msgs
  <2>. QED BY <1>2, <1>4, <2>1, BrokerKept DEF ExecutionEnds
<1>5. ASSUME NEW c \in Clients, NEW fs \in Seq(Broker!ClientFrames), Online(c),
             Broker!Receive(transport[c], fs)
      PROVE  BrokerInv'
  BY <1>1, <1>5, BrokerKept DEF Online
<1>6. <<>> \in Seq(Broker!ClientFrames) /\ Host \in Clients /\ VMs \subseteq Clients
  BY DEF Clients
<1>7. CASE HostConnected
  <2>1. <<Broker!Subscribe(CONN), Broker!Subscribe(CMD_RES)>> \in Seq(Broker!ClientFrames)
    <3>1. /\ Broker!Subscribe(CONN) \in Broker!ClientFrames
          /\ Broker!Subscribe(CMD_RES) \in Broker!ClientFrames
      BY Frames
    <3>. QED BY <3>1
  <2>. QED BY <1>5, <1>6, <1>7, <2>1 DEF HostConnected, Reads
<1>8. ASSUME NEW v \in VMs, VMConnected(v)
      PROVE  BrokerInv'
  <2>1. transport[v] \in VMs \X (1 .. MaxConns)
    BY <1>1, <1>6, <1>8 DEF VMConnected, Reads, Online, LocalInv, Conns
  <2>2. Hello(transport[v]) \in Msgs
    BY <2>1 DEF Msgs
  <2>3. <<Broker!Subscribe(CMD_REQ), Broker!Send(CONN, Hello(transport[v]))>> \in Seq(Broker!ClientFrames)
    <3>1. /\ Broker!Subscribe(CMD_REQ) \in Broker!ClientFrames
          /\ Broker!Send(CONN, Hello(transport[v])) \in Broker!ClientFrames
      BY <2>2, Frames
    <3>. QED BY <3>1
  <2>. QED BY <1>5, <1>6, <1>8, <2>3 DEF VMConnected, Reads
<1>9. CASE HostHearsHello \/ HostHearsCmdResult
  BY <1>5, <1>6, <1>9 DEF HostHearsHello, HostHearsCmdResult, ReadsWord
<1>10. ASSUME NEW v \in VMs, VMHearsCmdRun(v)
       PROVE  BrokerInv'
  BY <1>5, <1>6, <1>10 DEF VMHearsCmdRun, ReadsWord
<1>11. ASSUME NEW c \in Clients, HearsError(c)
       PROVE  BrokerInv'
  BY <1>5, <1>6, <1>11 DEF HearsError, Reads
<1>12. ASSUME NEW c \in Clients, Reconnect(c)
       PROVE  BrokerInv'
  <2>1. PICK n \in 1 .. MaxConns : Broker!Open(<<c, n>>)
    BY <1>12 DEF Reconnect, Unused
  <2>2. <<c, n>> \in Conns
    BY DEF Conns
  <2>. QED BY <2>1, <2>2, BrokerKept
<1>13. ASSUME NEW c \in Clients, Break(c) \/ Misread(c)
       PROVE  BrokerInv'
  BY <1>1, <1>13, BrokerKept DEF Break, Misread, Online
<1>14. ASSUME NEW v \in VMs, VMCrash(v)
       PROVE  BrokerInv'
  BY <1>1, <1>6, <1>14, BrokerKept DEF VMCrash, Online
<1>15. CASE HostRestart \/ BrokerStep \/ UNCHANGED vars
            \/ (\E id \in CmdIds : GetCmdResults(id)) \/ (\E v \in VMs : VMBoot(v))
  BY <1>15, BrokerKept DEF HostRestart, BrokerStep, GetCmdResults, VMBoot, vars
<1>. QED BY <1>3, <1>4, <1>6, <1>7, <1>8, <1>9, <1>10, <1>11, <1>12, <1>13, <1>14, <1>15
         DEF Next, HostReacts, VMReacts

-----------------------------------------------------------------------------
(* What the agents know of their connections *)

\* What the broker does leaves connections open only where they were, and sends to these.
LEMMA BrokerStepSockets ==
  ASSUME BrokerInv, LocalInv, Broker!BrokerStep
  PROVE  /\ \A d \in Conns : sock'[d] = "open" <=> sock[d] = "open"
         /\ \A d \in Conns : toClient'[d] # <<>> => toClient[d] # <<>> \/ sock[d] = "open"
<1>1. ASSUME NEW c \in Conns, NEW f, toClient' = Broker!Reply(c, f), sock' = sock
      PROVE  /\ \A d \in Conns : sock'[d] = "open" <=> sock[d] = "open"
             /\ \A d \in Conns : toClient'[d] # <<>> => toClient[d] # <<>> \/ sock[d] = "open"
  BY <1>1 DEF Broker!Reply, BrokerInv, Broker!BTypeOK
<1>2. ASSUME NEW c \in Conns, Broker!EngineConnect(c) \/ Broker!ServeSubscriber(c)
      PROVE  \E f : toClient' = Broker!Reply(c, f) /\ sock' = sock
  BY <1>2 DEF Broker!EngineConnect, Broker!ServeSubscriber
<1>3. ASSUME NEW c \in Conns, Broker!ServeFails(c)
      PROVE  lock \in Conns /\ toClient' = Broker!Reply(lock, Broker!Error) /\ sock' = sock
  BY <1>3, Sender DEF Broker!ServeFails
<1>4. ASSUME NEW c \in Conns, Broker!EngineSubscribe(c) \/ Broker!BeginSend(c)
      PROVE  toClient' = toClient /\ sock' = sock
  BY <1>4 DEF Broker!EngineSubscribe, Broker!BeginSend
<1>5. ASSUME NEW c \in Conns, Broker!Finish(c)
      PROVE  toClient' = toClient /\ \A d \in Conns : sock'[d] = "open" <=> sock[d] = "open"
  BY <1>5 DEF Broker!Finish, BrokerInv, Broker!BTypeOK
<1>6. ASSUME Broker!EndSend
      PROVE  toClient' = toClient /\ sock' = sock
  BY <1>6 DEF Broker!EndSend
<1>. QED BY <1>1, <1>2, <1>3, <1>4, <1>5, <1>6 DEF Broker!BrokerStep, Broker!HandlerStep

\* Where an agent changes only what it executes, or what it knows of the party.
LEMMA LocalStill ==
  ASSUME LocalInv, transport' = transport, vms' \subseteq VMs, up' \subseteq VMs,
         executed' = executed, issued \subseteq issued',
         running' \in [VMs -> SUBSET CmdIds], \A v \in VMs : running'[v] \subseteq running[v],
         \A d \in Conns : sock'[d] = "open" <=> sock[d] = "open",
         \A d \in Conns : toClient'[d] # <<>> => toClient[d] # <<>> \/ sock[d] = "open"
  PROVE  LocalInv'
BY DEF LocalInv

\* Reading and writing leave every connection as it was.
LEMMA ClientSockets ==
  ASSUME BrokerInv, NEW c \in Conns, NEW fs,
         \/ Broker!Receive(c, fs)
         \/ \E n \in 1 .. Len(toClient[c]) : Broker!Misread(c, n)
  PROVE  /\ \A d \in Conns : sock'[d] = "open" <=> sock[d] = "open"
         /\ \A d \in Conns : toClient'[d] # <<>> => toClient[d] # <<>> \/ sock[d] = "open"
<1>1. sock' = sock /\ sock[c] = "open" /\ \A d \in Conns \ {c} : toClient'[d] = toClient[d]
  BY DEF Broker!Receive, Broker!Misread, BrokerInv, Broker!BTypeOK
<1>. QED BY <1>1

\* A client that is not connected opens a connection it has not used.
LEMMA ReconnectLocal ==
  ASSUME BrokerInv, LocalInv, NEW c \in Clients, Reconnect(c)
  PROVE  LocalInv'
<1>1. PICK n \in 1 .. MaxConns : /\ Broker!Open(<<c, n>>)
                                 /\ transport' = [transport EXCEPT ![c] = <<c, n>>]
  BY DEF Reconnect, Unused
<1>2. PICK e \in Conns : e = <<c, n>> /\ e[1] = c
  <2>1. <<c, n>> \in Conns /\ <<c, n>>[1] = c
    BY DEF Conns
  <2>. QED BY <2>1
<1>3. /\ sock' = [sock EXCEPT ![e] = "open"] /\ toClient' = toClient
      /\ transport' = [transport EXCEPT ![c] = e] /\ ~ Online(c)
      /\ UNCHANGED <<issued, vms, up, running, executed>>
  BY <1>1, <1>2 DEF Reconnect, Broker!Open, registryVars
<1>4. transport' \in [Clients -> Conns \cup {NoConn}]
  BY <1>3 DEF LocalInv
<1>5. ASSUME NEW b \in Clients, transport'[b] # NoConn
      PROVE  transport'[b][1] = b
  BY <1>2, <1>3, <1>5 DEF LocalInv
<1>6. ASSUME NEW d \in Conns, sock'[d] = "open"
      PROVE  transport'[d[1]] = d
  <2>1. CASE d = e
    BY <1>2, <1>3, <2>1 DEF LocalInv
  <2>2. CASE d # e
    <3>1. sock[d] = "open"
      BY <1>3, <1>6, <2>2 DEF BrokerInv, Broker!BTypeOK
    <3>2. transport[d[1]] = d
      BY <3>1 DEF LocalInv
    <3>3. d # NoConn
      BY ProtocolAssumptions
    <3>4. d[1] # c
      BY <1>3, <3>1, <3>2, <3>3 DEF Online
    <3>. QED BY <1>3, <3>2, <3>4 DEF LocalInv, Conns
  <2>. QED BY <2>1, <2>2
<1>7. \A d \in Conns : toClient'[d] # <<>> => sock'[d] = "open"
  BY <1>3 DEF LocalInv, BrokerInv, Broker!BTypeOK
<1>. QED BY <1>3, <1>4, <1>5, <1>6, <1>7 DEF LocalInv

\* A connection that is lost is not open any more, and nothing is sent to it.
LEMMA LoseLocal ==
  ASSUME BrokerInv, LocalInv, NEW c \in Conns, Broker!Lose(c)
  PROVE  /\ \A d \in Conns : sock'[d] = "open" <=> d # c /\ sock[d] = "open"
         /\ \A d \in Conns : toClient'[d] # <<>> => d # c /\ toClient[d] # <<>>
BY DEF Broker!Lose, BrokerInv, Broker!BTypeOK

\* A VM goes down, and its connection with it.
LEMMA VMCrashLocal ==
  ASSUME BrokerInv, LocalInv, NEW v \in VMs, VMCrash(v)
  PROVE  LocalInv'
<1>1. /\ transport' = [transport EXCEPT ![v] = NoConn] /\ v \in Clients
      /\ running' = [running EXCEPT ![v] = {}] /\ up' \subseteq VMs
      /\ UNCHANGED <<issued, vms, executed>>
  BY DEF VMCrash, registryVars, Clients, LocalInv
<1>2. \A d \in Conns : sock'[d] = "open" => sock[d] = "open" /\ d # transport[v]
  <2>1. CASE Online(v)
    BY <1>1, <2>1, LoseLocal DEF VMCrash, LocalInv, Online
  <2>2. CASE ~ Online(v)
    BY <2>2, ProtocolAssumptions DEF VMCrash, brokerVars, Online
  <2>. QED BY <2>1, <2>2
<1>3. \A d \in Conns : toClient'[d] # <<>> => sock'[d] = "open"
  <2>1. CASE Online(v)
    BY <1>1, <2>1, LoseLocal DEF VMCrash, LocalInv, Online
  <2>2. CASE ~ Online(v)
    BY <2>2 DEF VMCrash, brokerVars, LocalInv
  <2>. QED BY <2>1, <2>2
<1>4. ASSUME NEW d \in Conns, sock'[d] = "open"
      PROVE  transport'[d[1]] = d
  <2>1. transport[d[1]] = d /\ d # transport[v]
    BY <1>2, <1>4 DEF LocalInv
  <2>. QED BY <1>1, <2>1 DEF LocalInv, Conns
<1>. QED BY <1>1, <1>3, <1>4 DEF LocalInv

\* A VM executes only what it is told to, and was sent to it.
LEMMA VMHearsCmdRunLocal ==
  ASSUME BrokerInv, LocalInv, WordsInv, NEW v \in VMs, VMHearsCmdRun(v)
  PROVE  LocalInv'
<1>1. /\ v \in Clients /\ ReadsWord(v, "CMD_RUN")
  BY DEF VMHearsCmdRun, Clients
<1>2. PICK id \in CmdIds : /\ id = NextMsg(v).id /\ NextMsg(v).to = Target[id]
                           /\ Told(transport[v], 1, CmdRun(id))
                           /\ transport[v] \in Conns /\ 1 \in DOMAIN toClient[transport[v]]
  BY <1>1, Heard, Words DEF Told
<1>3. id \in issued
  BY <1>2, TripWords DEF WordsInv, TripInv, TripOf
<1>4. PICK starts \in SUBSET {id} : /\ Target[id] # v => starts = {}
                                    /\ running' = [running EXCEPT ![v] = @ \cup starts]
                                    /\ executed' = executed \cup starts
  BY <1>2 DEF VMHearsCmdRun
<1>5. /\ \A d \in Conns : sock'[d] = "open" <=> sock[d] = "open"
      /\ \A d \in Conns : toClient'[d] # <<>> => toClient[d] # <<>> \/ sock[d] = "open"
  BY <1>2, ClientSockets DEF VMHearsCmdRun
<1>6. transport' = transport /\ vms' = vms /\ up' = up /\ issued' = issued
  BY DEF VMHearsCmdRun, registryVars
<1>7. running' \in [VMs -> SUBSET CmdIds] /\ executed' \subseteq issued'
  BY <1>3, <1>4, <1>6 DEF LocalInv
<1>8. \A w \in VMs : \A k \in running'[w] : k \in executed' /\ Target[k] = w
  BY <1>4 DEF LocalInv
<1>. QED BY <1>5, <1>6, <1>7, <1>8 DEF LocalInv

\* The agents keep what they know.
LEMMA LocalKept ==
  ASSUME ProtocolInv, [Next]_vars
  PROVE  LocalInv'
<1>. USE DEF ProtocolInv
<1>1. ASSUME NEW c \in Clients, Online(c)
      PROVE  transport[c] \in Conns
  BY <1>1 DEF LocalInv, Online
<1>2. Host \in Clients /\ VMs \subseteq Clients /\ KnownVMs \subseteq VMs
  BY ProtocolAssumptions DEF Clients
<1>3. ASSUME UNCHANGED <<transport, vms, up, running, executed>>, issued \subseteq issued',
             /\ \A d \in Conns : sock'[d] = "open" <=> sock[d] = "open"
             /\ \A d \in Conns : toClient'[d] # <<>> => toClient[d] # <<>> \/ sock[d] = "open"
      PROVE  LocalInv'
  BY <1>3 DEF LocalInv
<1>4. ASSUME NEW id \in CmdIds, RunCmd(id)
      PROVE  LocalInv'
  BY <1>3, <1>4 DEF RunCmd, Broker!Write, Registry!AddCmdRequest, localVars
<1>5. ASSUME NEW v \in VMs, NEW id \in CmdIds, ExecutionEnds(v, id)
      PROVE  LocalInv'
  <2>1. sock' = sock /\ toClient' = toClient
    BY <1>5 DEF ExecutionEnds, Broker!Write, brokerVars
  <2>2. running' \in [VMs -> SUBSET CmdIds] /\ \A w \in VMs : running'[w] \subseteq running[w]
    BY <1>5 DEF ExecutionEnds, LocalInv
  <2>. QED BY <1>5, <2>1, <2>2 DEF ExecutionEnds, registryVars, LocalInv
<1>6. CASE HostConnected \/ (\E c \in Clients : HearsError(c)) \/ (\E v \in VMs : VMConnected(v))
  BY <1>1, <1>2, <1>3, <1>6, ClientSockets
     DEF HostConnected, HearsError, VMConnected, Reads, localVars, registryVars
<1>7. CASE HostHearsHello
  <2>1. /\ \A d \in Conns : sock'[d] = "open" <=> sock[d] = "open"
        /\ \A d \in Conns : toClient'[d] # <<>> => toClient[d] # <<>> \/ sock[d] = "open"
    BY <1>1, <1>2, <1>7, ClientSockets DEF HostHearsHello, ReadsWord
  <2>. QED BY <1>2, <1>7, <2>1 DEF HostHearsHello, registryVars, LocalInv
<1>8. CASE HostHearsCmdResult
  <2>1. /\ \A d \in Conns : sock'[d] = "open" <=> sock[d] = "open"
        /\ \A d \in Conns : toClient'[d] # <<>> => toClient[d] # <<>> \/ sock[d] = "open"
    BY <1>1, <1>2, <1>8, ClientSockets DEF HostHearsCmdResult, ReadsWord
  <2>2. issued' = issued
    BY <1>8, ResultHeard DEF Registry!AcceptResult, Registry!RejectResult, Registry!vars
  <2>. QED BY <1>3, <1>8, <2>1, <2>2 DEF HostHearsCmdResult, localVars
<1>9. ASSUME NEW c \in Clients, Misread(c)
      PROVE  LocalInv'
  BY <1>1, <1>3, <1>9, ClientSockets DEF Misread, localVars, registryVars
<1>10. ASSUME NEW c \in Clients, Break(c)
       PROVE  LocalInv'
  BY <1>1, <1>10, LoseLocal DEF Break, LocalInv, localVars, registryVars
<1>11. CASE BrokerStep
  BY <1>3, <1>11, BrokerStepSockets DEF BrokerStep, localVars, registryVars
<1>12. CASE HostRestart
  <2>1. \A d \in Conns : sock'[d] # "open" /\ toClient'[d] = <<>>
    BY <1>12 DEF HostRestart, Broker!BrokerRestart, Broker!Served
  <2>2. /\ transport' = [transport EXCEPT ![Host] = NoConn] /\ vms' = {}
        /\ UNCHANGED <<issued, up, running, executed>>
    BY <1>12 DEF HostRestart, Registry!Restart
  <2>. QED BY <2>1, <2>2 DEF LocalInv
<1>13. CASE UNCHANGED vars \/ (\E id \in CmdIds : GetCmdResults(id)) \/ (\E v \in VMs : VMBoot(v))
  BY <1>13 DEF GetCmdResults, Registry!PopCmdResults, VMBoot, LocalInv, vars, brokerVars,
               localVars, registryVars
<1>. QED BY <1>2, <1>4, <1>5, <1>6, <1>7, <1>8, <1>9, <1>10, <1>11, <1>12, <1>13,
            ReconnectLocal, VMCrashLocal, VMHearsCmdRunLocal
         DEF Next, HostReacts, VMReacts, WordsInv

-----------------------------------------------------------------------------
(* The invariant holds *)

\* Nothing is on its way at the start.
LEMMA InitInv == Init => ProtocolInv
<1>. SUFFICES ASSUME Init PROVE ProtocolInv
  OBVIOUS
<1>1. BrokerInv
  BY BrokerProofs!InitInv, SameBroker, ProtocolAssumptions DEF Init
<1>2. Registry!RegistryInv
  BY RegistryProofs!InitInv, SameRegistry, ProtocolAssumptions DEF Init
<1>3. \A c \in Conns : /\ sock[c] = "new" /\ toBroker[c] = <<>> /\ toClient[c] = <<>>
                       /\ DOMAIN toBroker[c] = {} /\ DOMAIN toClient[c] = {}
  BY DEF Init, Broker!BInit
<1>4. LocalInv
  BY <1>3 DEF Init, LocalInv
<1>5. issued = {} /\ DOMAIN cmdReqsRetired = {}
  BY DEF Init, Registry!Init, Registry!EmptyDict
<1>6. HelloInv /\ TripInv /\ ResultInv /\ KnownInv
  BY <1>3, <1>5 DEF HelloInv, TripInv, TripOf, ResultInv, KnownInv
<1>. QED BY <1>1, <1>2, <1>4, <1>6 DEF ProtocolInv

\* The words keep their order and number.
LEMMA WordsKept ==
  ASSUME ProtocolInv, BrokerInv', [Next]_vars
  PROVE  WordsInv'
<1>. USE DEF ProtocolInv
<1>1. WordsInv /\ RetiredIds
  <2>1. Registry!TypeOK
    BY DEF Registry!RegistryInv
  <2>. QED BY <2>1 DEF WordsInv, RetiredIds, Registry!TypeOK, Registry!Dicts
<1>2. Host \in Clients /\ VMs \subseteq Clients
  BY DEF Clients
<1>3. ASSUME NEW c \in Clients, Online(c)
      PROVE  transport[c] \in Conns
  BY <1>3 DEF LocalInv, Online
<1>4. ASSUME NEW c \in Clients, Online(c), Broker!Receive(transport[c], <<>>),
             executed' = executed, running' = running, UNCHANGED registryVars
      PROVE  WordsInv'
  <2>1. PICK none : none = <<>>
    OBVIOUS
  <2>2. none \in Seq(Broker!ClientFrames) /\ Quiet({none[i] : i \in 1 .. Len(none)})
    BY <2>1 DEF Quiet
  <2>3. NothingTaken
    BY <1>4 DEF NothingTaken, registryVars
  <2>. QED BY <1>1, <1>3, <1>4, <2>1, <2>2, <2>3, QuietReceiveWords
<1>5. CASE HostConnected
  <2>1. PICK fs : fs = <<Broker!Subscribe(CONN), Broker!Subscribe(CMD_RES)>>
    OBVIOUS
  <2>2. fs \in Seq(Broker!ClientFrames) /\ Len(fs) = 2
    <3>1. /\ Broker!Subscribe(CONN) \in Broker!ClientFrames
          /\ Broker!Subscribe(CMD_RES) \in Broker!ClientFrames
      BY Frames
    <3>. QED BY <2>1, <3>1
  <2>3. Quiet({fs[i] : i \in 1 .. Len(fs)})
    <3>1. \A i \in 1 .. 2 : fs[i] = Broker!Subscribe(CONN) \/ fs[i] = Broker!Subscribe(CMD_RES)
      BY <2>1
    <3>. QED BY <2>2, <3>1 DEF Quiet, Broker!Subscribe
  <2>4. NothingTaken
    BY <1>5 DEF HostConnected, NothingTaken, registryVars, localVars
  <2>. QED BY <1>1, <1>2, <1>3, <1>5, <2>1, <2>2, <2>3, <2>4, QuietReceiveWords
           DEF HostConnected, Reads
<1>6. CASE HostHearsHello
  BY <1>2, <1>4, <1>6 DEF HostHearsHello, ReadsWord
<1>7. CASE HostHearsCmdResult
  BY <1>1, <1>7, HostHearsCmdResultWords
<1>8. ASSUME NEW c \in Clients, HearsError(c)
      PROVE  WordsInv'
  BY <1>4, <1>8 DEF HearsError, Reads, localVars
<1>9. CASE HostRestart
  BY <1>1, <1>9, RestartWords DEF HostRestart
<1>10. ASSUME NEW c \in Clients, Reconnect(c)
       PROVE  WordsInv'
  <2>1. PICK n \in 1 .. MaxConns : Broker!Open(<<c, n>>)
    BY <1>10 DEF Reconnect, Unused
  <2>2. <<c, n>> \in Conns
    BY DEF Conns
  <2>3. NothingTaken
    BY <1>10 DEF Reconnect, NothingTaken, registryVars
  <2>. QED BY <1>1, <2>1, <2>2, <2>3, ConnectionWords
<1>11. ASSUME NEW c \in Clients, Break(c) \/ Misread(c)
       PROVE  WordsInv'
  <2>1. NothingTaken
    BY <1>11 DEF Break, Misread, NothingTaken, registryVars, localVars
  <2>. QED BY <1>1, <1>3, <1>11, <2>1, ConnectionWords DEF Break, Misread
<1>12. ASSUME NEW v \in VMs, VMCrash(v)
       PROVE  WordsInv'
  <2>1. NothingTaken
    BY <1>12 DEF VMCrash, NothingTaken, registryVars, LocalInv
  <2>2. CASE Online(v)
    BY <1>1, <1>2, <1>3, <1>12, <2>1, <2>2, ConnectionWords DEF VMCrash
  <2>3. CASE ~ Online(v)
    BY <1>1, <1>12, <2>1, <2>3, StutterWords DEF VMCrash
  <2>. QED BY <2>2, <2>3
<1>13. CASE BrokerStep
  <2>1. NothingTaken
    BY <1>13 DEF BrokerStep, NothingTaken, registryVars, localVars
  <2>. QED BY <1>1, <1>13, <2>1, BrokerStepWords DEF BrokerStep
<1>14. CASE UNCHANGED vars \/ (\E id \in CmdIds : GetCmdResults(id)) \/ (\E v \in VMs : VMBoot(v))
  <2>1. UNCHANGED brokerVars /\ NothingTaken
    BY <1>14 DEF vars, NothingTaken, registryVars, localVars, GetCmdResults,
                 Registry!PopCmdResults, VMBoot
  <2>. QED BY <1>1, <2>1, StutterWords
<1>. QED BY <1>1, <1>2, <1>5, <1>6, <1>7, <1>8, <1>9, <1>10, <1>11, <1>12, <1>13, <1>14,
            RunCmdWords, VMConnectedWords, VMHearsCmdRunWords, ExecutionEndsWords
         DEF Next, HostReacts, VMReacts

\* No step of the agents or of the broker, and no fault, breaks the invariant.
THEOREM NextInv == ProtocolInv /\ [Next]_vars => ProtocolInv'
BY BrokerInvKept, RegistryKept, KnownKept, LocalKept, WordsKept DEF ProtocolInv, WordsInv

\* ProtocolInv holds in every state of the exchange.
THEOREM Invariance == Spec => []ProtocolInv
BY InitInv, NextInv, PTL DEF Spec

\* The variables of broker, registry and agents keep their types.
THEOREM TypeCorrect == Spec => []TypeOK
<1>1. ProtocolInv => TypeOK
  <2>. SUFFICES ASSUME ProtocolInv PROVE TypeOK
    OBVIOUS
  <2>1. Registry!TypeOK
    BY DEF ProtocolInv, Registry!RegistryInv
  <2>2. issued \subseteq CmdIds
    BY <2>1 DEF Registry!TypeOK
  <2>. QED BY <2>1, <2>2 DEF ProtocolInv, BrokerInv, LocalInv, TypeOK
<1>. QED BY <1>1, Invariance, PTL

\* However frames are cut off, misread, or overtaken by a new connection, a HELLO on its way
\* to any client means that the VM who said it is subscribed, or the connection it said it on
\* is over.
THEOREM HelloSafe == Spec => []HelloMeansListening
<1>1. ProtocolInv => HelloMeansListening
  <2>. SUFFICES ASSUME ProtocolInv, NEW m \in Hellos
                PROVE  m.conn \in topics[CMD_REQ] \/ sock[m.conn] = "closed"
    BY DEF HelloMeansListening
  <2>1. PICK d \in Conns : \E i \in DOMAIN toClient[d] : toClient[d][i] = Broker!Message(m)
    BY DEF Hellos
  <2>2. PICK i \in DOMAIN toClient[d] : toClient[d][i] = Broker!Message(m)
    BY <2>1
  <2>3. m.word = "HELLO" /\ toClient[d][i].msg = m /\ toClient[d][i].cmd = "MESSAGE"
    BY <2>2 DEF Hellos, Broker!Message
  <2>. QED BY <2>3 DEF ProtocolInv, HelloInv, TellsHello
<1>. QED BY <1>1, Invariance, PTL

\* A result the host hears is of a command that was issued, and that this host process has not
\* retired: it is the first.
LEMMA HeardResult ==
  ASSUME ProtocolInv, ReadsWord(Host, "CMD_RESULT")
  PROVE  NextMsg(Host).id \in issued /\ NextMsg(Host).id \notin DOMAIN cmdReqsRetired
<1>. DEFINE id == NextMsg(Host).id
<1>1. PICK c \in Conns : /\ c = transport[Host] /\ c[1] = Host /\ 1 \in DOMAIN toClient[c]
                         /\ Told(c, 1, NextMsg(Host)) /\ IsResult(NextMsg(Host))
                         /\ id \in CmdIds /\ NextMsg(Host) = CmdResult(id, NextMsg(Host).from)
  <2>1. Host \in Clients
    BY DEF Clients
  <2>. QED BY <2>1, Heard, Words DEF ProtocolInv, ResultInv, Told
<1>2. IsOver(id) /\ NextMsg(Host) = Answer(id)
  BY <1>1 DEF IsResult, CmdResult, Answer
<1>3. id \notin DOMAIN cmdReqsRetired
  BY <1>1, <1>2, TripWords DEF ProtocolInv, TripInv, TripOf
<1>. QED BY <1>2, <1>3 DEF ProtocolInv, LocalInv, IsOver

\* Whatever fails, also when the host process is restarted, a result that processCmdResult
\* rejects is one of a command forgotten in a restart, never a second one.
THEOREM HeardOnce ==
  Spec => [](ReadsWord(Host, "CMD_RESULT") => NextMsg(Host).id \notin DOMAIN cmdReqsRetired)
BY HeardResult, Invariance, PTL

\* Unless the host process is restarted, the assertion of processCmdResult holds of every result
\* the host hears: no command is answered before it was recorded, or after it was retired.
THEOREM Asserted ==
  ASSUME "restart" \notin Faults
  PROVE  Spec => []AssertedResultIsKnown
<1>1. ProtocolInv => AssertedResultIsKnown
  BY HeardResult DEF AssertedResultIsKnown, ProtocolInv, KnownInv
<1>. QED BY <1>1, Invariance, PTL

-----------------------------------------------------------------------------
(* Refinement of CommandService *)

clientView == <<Registry!ClientStatus, Registry!ClientAnswer>>

\* What the registry's operations are in the life of a command.
LEMMA LifeSteps ==
  ASSUME Registry!RegistryInv, Registry!RegistryInv'
  PROVE  /\ \A id \in CmdIds :
              /\ Registry!PopCmdResults(id) => Service!Life!Collect(id) \/ UNCHANGED clientView
              /\ \A vm \in VMs :
                   /\ Registry!AddCmdRequest(id, vm) => Service!Life!Issue(id)
                   /\ Registry!AcceptResult(id, vm) => Service!Life!Complete(id, vm)
         /\ Registry!Restart => Service!Life!Forget
         /\ UNCHANGED registryVars => UNCHANGED clientView
<1>. USE ProtocolAssumptions
<1>1. RegistryProofs!RegistryInv /\ RegistryProofs!RegistryInv'
  BY SameRegistry
<1>2. /\ Registry!ClientStatus = RegistryProofs!ClientStatus
      /\ Registry!ClientStatus' = RegistryProofs!ClientStatus'
      /\ Registry!ClientAnswer = RegistryProofs!ClientAnswer
      /\ Registry!ClientAnswer' = RegistryProofs!ClientAnswer'
  BY DEF Registry!ClientStatus, RegistryProofs!ClientStatus, Registry!ClientAnswer,
     RegistryProofs!ClientAnswer, Registry!HandedOutIds, RegistryProofs!HandedOutIds
<1>3. ASSUME NEW id \in CmdIds, Registry!PopCmdResults(id)
      PROVE  Service!Life!Collect(id) \/ UNCHANGED clientView
  <2>1. \/ RegistryProofs!Lifecycle!Collect(id)
        \/ UNCHANGED <<RegistryProofs!ClientStatus, RegistryProofs!ClientAnswer>>
    BY <1>1, <1>3, SameRegistry, RegistryProofs!PopRefines
  <2>. QED BY <1>2, <2>1 DEF Service!Life!Collect, RegistryProofs!Lifecycle!Collect, clientView
<1>4. ASSUME NEW id \in CmdIds, NEW vm \in VMs, Registry!AddCmdRequest(id, vm)
      PROVE  Service!Life!Issue(id)
  <2>1. RegistryProofs!Lifecycle!Issue(id)
    BY <1>1, <1>4, SameRegistry, RegistryProofs!AddRefines
  <2>. QED BY <1>2, <2>1 DEF Service!Life!Issue, RegistryProofs!Lifecycle!Issue
<1>5. ASSUME NEW id \in CmdIds, NEW vm \in VMs, Registry!AcceptResult(id, vm)
      PROVE  Service!Life!Complete(id, vm)
  <2>1. RegistryProofs!Lifecycle!Complete(id, vm)
    BY <1>1, <1>5, SameRegistry, RegistryProofs!AcceptRefines
  <2>. QED BY <1>2, <2>1 DEF Service!Life!Complete, RegistryProofs!Lifecycle!Complete
<1>6. ASSUME Registry!Restart
      PROVE  Service!Life!Forget
  <2>1. RegistryProofs!Lifecycle!Forget
    BY <1>1, <1>6, SameRegistry, RegistryProofs!RestartRefines
  <2>. QED BY <1>2, <2>1 DEF Service!Life!Forget, RegistryProofs!Lifecycle!Forget
<1>7. ASSUME UNCHANGED registryVars
      PROVE  UNCHANGED clientView
  BY <1>7 DEF registryVars, clientView, Registry!ClientStatus, Registry!ClientAnswer,
     Registry!HandedOutIds
<1>. QED BY <1>3, <1>4, <1>5, <1>6, <1>7

\* What is running has begun, on the VM it was sent to.
LEMMA ExecutionOf ==
  ASSUME LocalInv, NEW id \in CmdIds
  PROVE  /\ \A v \in VMs : id \in running[v] => /\ v = Target[id] /\ id \in executed
                                               /\ Execution[id] = "running"
         /\ id \notin executed => Execution[id] = "none"
         /\ IsOver(id) => Execution[id] = "over"
BY DEF LocalInv, Execution, IsOver

\* A VM that begins to execute a command executes it for the first time.
LEMMA ExecuteRefines ==
  ASSUME ProtocolInv, ProtocolInv', NEW v \in VMs, VMHearsCmdRun(v)
  PROVE  (\E id \in CmdIds : Service!Execute(id)) \/ UNCHANGED Service!svars
<1>. USE DEF ProtocolInv
<1>1. /\ v \in Clients /\ ReadsWord(v, "CMD_RUN")
  BY DEF VMHearsCmdRun, Clients
<1>2. PICK id \in CmdIds : /\ id = NextMsg(v).id /\ NextMsg(v).to = Target[id]
                           /\ Told(transport[v], 1, CmdRun(id))
                           /\ transport[v] \in Conns /\ transport[v][1] = v
                           /\ 1 \in DOMAIN toClient[transport[v]]
  BY <1>1, Heard, Words DEF Told
<1>3. PICK starts \in SUBSET {id} : /\ Target[id] # v => starts = {}
                                    /\ running' = [running EXCEPT ![v] = @ \cup starts]
                                    /\ executed' = executed \cup starts
  BY <1>2 DEF VMHearsCmdRun
<1>4. UNCHANGED clientView
  BY LifeSteps DEF VMHearsCmdRun
<1>5. CASE starts = {}
  <2>1. running' = running /\ executed' = executed
    BY <1>3, <1>5 DEF LocalInv
  <2>. QED BY <1>4, <2>1 DEF Service!svars, clientView, Execution
<1>6. CASE starts = {id} /\ Target[id] = v
  <2>1. id \in issued /\ id \notin executed
    BY <1>2, <1>6, TripWords DEF TripInv, TripOf
  <2>2. Registry!ClientStatus[id] # "unissued"
    BY <2>1 DEF Registry!ClientStatus
  <2>3. Execution[id] = "none"
    BY <2>1, ExecutionOf
  <2>4. Execution' = [Execution EXCEPT ![id] = "running"]
    <3>1. \A k \in CmdIds : Execution'[k] = IF k = id THEN "running" ELSE Execution[k]
      BY <1>3, <1>6 DEF Execution, LocalInv
    <3>2. Execution' = [k \in CmdIds |-> Execution'[k]] /\ Execution = [k \in CmdIds |-> Execution[k]]
      BY DEF Execution
    <3>. QED BY <3>1, <3>2
  <2>. QED BY <1>4, <2>2, <2>3, <2>4 DEF Service!Execute, clientView
<1>. QED BY <1>3, <1>5, <1>6

\* Commands that are not executed any more are over.
LEMMA EndRefines ==
  ASSUME ProtocolInv, NEW v \in VMs, NEW ids \in SUBSET running[v],
         running' = [running EXCEPT ![v] = @ \ ids], executed' = executed, UNCHANGED clientView
  PROVE  (\E k \in SUBSET CmdIds : Service!End(k)) \/ UNCHANGED Service!svars
<1>. USE DEF ProtocolInv
<1>1. CASE ids = {}
  <2>1. running' = running
    BY <1>1 DEF LocalInv
  <2>. QED BY <2>1 DEF Service!svars, clientView, Execution
<1>2. CASE ids # {}
  <2>1. ids \in SUBSET CmdIds
    BY DEF LocalInv
  <2>2. \A id \in ids : Execution[id] = "running"
    BY <2>1, ExecutionOf
  <2>3. \A id \in CmdIds : Execution'[id] = IF id \in ids THEN "over" ELSE Execution[id]
    <3>1. ASSUME NEW id \in ids
          PROVE  Execution'[id] = "over"
      <4>1. id \in CmdIds /\ id \in executed' /\ \A w \in VMs : id \notin running'[w]
        BY <2>1, <3>1, ExecutionOf DEF LocalInv
      <4>. QED BY <4>1 DEF Execution
    <3>2. ASSUME NEW id \in CmdIds \ ids
          PROVE  Execution'[id] = Execution[id]
      <4>1. \A w \in VMs : id \in running'[w] <=> id \in running[w]
        BY <3>2 DEF LocalInv
      <4>. QED BY <4>1 DEF Execution
    <3>. QED BY <3>1, <3>2
  <2>4. Execution' = [id \in CmdIds |-> Execution'[id]]
    BY DEF Execution
  <2>5. Execution' = [id \in CmdIds |-> IF id \in ids THEN "over" ELSE Execution[id]]
    BY <2>3, <2>4
  <2>. QED BY <1>2, <2>1, <2>2, <2>5 DEF Service!End, clientView
<1>. QED BY <1>1, <1>2

\* A result the host takes is the answer of a command that is over, by its target.
LEMMA AnswerRefines ==
  ASSUME ProtocolInv, ProtocolInv', HostHearsCmdResult
  PROVE  (\E id \in CmdIds : Service!Answer(id)) \/ UNCHANGED Service!svars
<1>. USE DEF ProtocolInv
<1>1. Host \in Clients /\ ReadsWord(Host, "CMD_RESULT")
  BY DEF HostHearsCmdResult, Clients
<1>2. UNCHANGED <<running, executed>> /\ Execution' = Execution
  BY DEF HostHearsCmdResult, localVars, Execution
<1>3. PICK id \in CmdIds, vm \in VMs :
        /\ id = NextMsg(Host).id /\ vm = NextMsg(Host).from
        /\ Registry!AcceptResult(id, vm) \/ Registry!RejectResult(id)
  BY ResultHeard
<1>4. IsOver(id) /\ vm = Target[id]
  BY <1>1, <1>3, Heard DEF ResultInv, IsResult
<1>5. CASE Registry!AcceptResult(id, vm)
  BY <1>2, <1>4, <1>5, LifeSteps, ExecutionOf DEF Service!Answer
<1>6. CASE Registry!RejectResult(id)
  BY <1>2, <1>6, LifeSteps
     DEF Registry!RejectResult, Registry!vars, registryVars, Service!svars, clientView
<1>. QED BY <1>3, <1>5, <1>6

\* Every step of the exchange is a step of the service, or invisible to its user.
LEMMA StepRefines ==
  ASSUME ProtocolInv, ProtocolInv', [Next]_vars
  PROVE  [Service!SNext]_(Service!svars)
<1>. USE DEF ProtocolInv
<1>1. ASSUME NEW id \in CmdIds, RunCmd(id)
      PROVE  Service!Issue(id)
  <2>1. Target[id] \in VMs /\ Registry!AddCmdRequest(id, Target[id])
    BY <1>1, ProtocolAssumptions DEF RunCmd
  <2>2. Execution' = Execution
    BY <1>1 DEF RunCmd, localVars, Execution
  <2>. QED BY <2>1, <2>2, LifeSteps DEF Service!Issue
<1>2. ASSUME NEW id \in CmdIds, GetCmdResults(id)
      PROVE  Service!Collect(id) \/ UNCHANGED Service!svars
  <2>1. Registry!PopCmdResults(id) /\ Execution' = Execution
    BY <1>2 DEF GetCmdResults, localVars, Execution
  <2>. QED BY <2>1, LifeSteps DEF Service!Collect, Service!svars, clientView
<1>3. ASSUME HostRestart
      PROVE  Service!Forget
  <2>1. Registry!Restart /\ Execution' = Execution
    BY <1>3 DEF HostRestart, Execution
  <2>. QED BY <2>1, LifeSteps DEF Service!Forget
<1>4. ASSUME NEW v \in VMs, NEW id \in CmdIds, ExecutionEnds(v, id)
      PROVE  (\E k \in SUBSET CmdIds : Service!End(k)) \/ UNCHANGED Service!svars
  <2>1. /\ {id} \in SUBSET running[v] /\ running' = [running EXCEPT ![v] = @ \ {id}]
        /\ executed' = executed /\ UNCHANGED registryVars
    BY <1>4 DEF ExecutionEnds
  <2>. QED BY <2>1, LifeSteps, EndRefines
<1>5. ASSUME NEW v \in VMs, VMCrash(v)
      PROVE  (\E k \in SUBSET CmdIds : Service!End(k)) \/ UNCHANGED Service!svars
  <2>1. /\ running' = [running EXCEPT ![v] = @ \ running[v]]
        /\ executed' = executed /\ UNCHANGED registryVars
    BY <1>5 DEF VMCrash, LocalInv
  <2>. QED BY <2>1, LifeSteps, EndRefines
<1>6. ASSUME UNCHANGED registryVars, running' = running, executed' = executed
      PROVE  UNCHANGED Service!svars
  BY <1>6, LifeSteps DEF Service!svars, clientView, Execution
<1>7. CASE \/ HostConnected \/ HostHearsHello \/ BrokerStep \/ UNCHANGED vars
           \/ \E c \in Clients : Reconnect(c) \/ Break(c) \/ Misread(c) \/ HearsError(c)
           \/ \E v \in VMs : VMConnected(v) \/ VMBoot(v)
  BY <1>6, <1>7 DEF HostConnected, HostHearsHello, BrokerStep, Reconnect, Break, Misread,
     HearsError, VMConnected, VMBoot, vars, localVars
<1>8. Host \in Clients /\ VMs \subseteq Clients
  BY DEF Clients
<1>. QED BY <1>1, <1>2, <1>3, <1>4, <1>5, <1>7, <1>8, AnswerRefines, ExecuteRefines
         DEF Next, HostReacts, VMReacts, Service!SNext

\* Before anything happens no command was issued or executed.
LEMMA InitRefines == Init => Service!SInit
<1>. SUFFICES ASSUME Init PROVE Service!SInit
  OBVIOUS
<1>1. RegistryProofs!Lifecycle!LInit
  BY SameRegistry, RegistryProofs!InitRefines, ProtocolAssumptions DEF Init
<1>2. /\ Registry!ClientStatus = RegistryProofs!ClientStatus
      /\ Registry!ClientAnswer = RegistryProofs!ClientAnswer
  BY DEF Registry!ClientStatus, RegistryProofs!ClientStatus, Registry!ClientAnswer,
     RegistryProofs!ClientAnswer, Registry!HandedOutIds, RegistryProofs!HandedOutIds
<1>3. Service!Life!LInit
  BY <1>1, <1>2 DEF Service!Life!LInit, RegistryProofs!Lifecycle!LInit
<1>4. Execution = [id \in CmdIds |-> "none"]
  BY DEF Init, Execution
<1>. QED BY <1>3, <1>4 DEF Service!SInit

\* Under any interleaving of the agents and the broker's threads, and any faults, the exchange
\* does what CommandService promises.
THEOREM Refinement == Spec => ImplementsService
<1>1. Spec => [][Service!SNext]_(Service!svars)
  BY Invariance, StepRefines, PTL DEF Spec
<1>. QED BY <1>1, InitRefines DEF Spec, ImplementsService, Service!SSpec
=============================================================================
