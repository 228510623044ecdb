------------------------- MODULE TopicBrokerProofs --------------------------
(***************************************************************************)
(* Proofs about the broker, for any number of connections and topics, any  *)
(* room in the sockets, and clients that write what they like after their  *)
(* CONNECT: no connection stays subscribed after its thread has ended, and *)
(* whoever holds the lock of the topic manager is in the middle of a SEND. *)
(***************************************************************************)
EXTENDS TopicBroker, TLAPS

\* What is in force between any two steps of the broker.
BrokerInv == BTypeOK /\ NoLeakedSubscriber /\ LockDiscipline

\* A free lock is told from every connection.
LEMMA NoConnFact == NoConn \notin Conns
  BY BrokerAssumptions

\* What is appended to a queue leaves its first frame where it is.
LEMMA AppendKeepsHead ==
  ASSUME NEW S, NEW s \in Seq(S), NEW t \in Seq(S)
  PROVE  /\ s \o t \in Seq(S)
         /\ s # <<>> => s \o t # <<>> /\ Head(s \o t) = Head(s)
  OBVIOUS

\* So does what is cut off at its end.
LEMMA PrefixKeepsHead ==
  ASSUME NEW S, NEW s \in Seq(S), NEW n \in 0 .. Len(s)
  PROVE  /\ SubSeq(s, 1, n) \in Seq(S)
         /\ n > 0 => SubSeq(s, 1, n) # <<>> /\ Head(SubSeq(s, 1, n)) = Head(s)
  OBVIOUS

\* The frames of the clients are well formed.
LEMMA Frames ==
  ASSUME NEW f \in ClientFrames
  PROVE  /\ f.cmd = "SUBSCRIBE" => f.dest \in Topics
         /\ f.cmd = "SEND" => f.dest \in Topics /\ f.msg \in Msgs
         /\ Connect \in ClientFrames
         /\ <<f>> \in Seq(ClientFrames)
  BY DEF ClientFrames, Connect, Subscribe, Send

\* What the broker says is well formed.
LEMMA Replies ==
  ASSUME BTypeOK, NEW c \in Conns, NEW f \in BrokerFrames
  PROVE  Reply(c, f) \in [Conns -> Seq(BrokerFrames)]
  BY DEF BTypeOK, Reply

\* CONNECTED and ERROR are frames of the broker, and so is every MESSAGE.
LEMMA BrokerSays ==
  /\ Connected \in BrokerFrames
  /\ Error \in BrokerFrames
  /\ \A m \in Msgs : Message(m) \in BrokerFrames
  BY DEF BrokerFrames, Connected, Error, Message

-----------------------------------------------------------------------------
\* Before any connection there is nothing to be subscribed.
THEOREM InitInv == BInit => BrokerInv
  BY NoConnFact DEF BInit, BrokerInv, BTypeOK, NoLeakedSubscriber, LockDiscipline

\* A client may write any frames at any time, as a reaction to what it reads too: its queue
\* to the broker only grows.
LEMMA ClientInv ==
  ASSUME BrokerInv, NEW c,
         \/ c \in Conns /\ Open(c)
         \/ \E frames \in Seq(ClientFrames) : Write(c, frames)
         \/ c \in Conns /\ \E reaction \in Seq(ClientFrames) : Receive(c, reaction)
         \/ c \in Conns /\ \E n \in 1 .. Len(toClient[c]) : Misread(c, n)
  PROVE  BrokerInv'
<1>1. CASE c \in Conns /\ Open(c)
  <2>1. <<Connect>> \in Seq(ClientFrames)
    BY DEF ClientFrames
  <2>2. BTypeOK'
    BY <1>1, <2>1 DEF Open, BrokerInv, BTypeOK
  <2>3. NoLeakedSubscriber'
    BY <1>1 DEF Open, BrokerInv, BTypeOK, NoLeakedSubscriber, Served
  <2>4. lock # c
    BY <1>1, NoConnFact DEF Open, BrokerInv, LockDiscipline, NextFrame, Served
  <2>5. LockDiscipline'
    BY <1>1, <2>4 DEF Open, BrokerInv, BTypeOK, LockDiscipline, NextFrame, Served
  <2>. QED BY <2>2, <2>3, <2>5 DEF BrokerInv
<1>2. ASSUME NEW frames \in Seq(ClientFrames),
             /\ \/ toBroker' = toBroker
                \/ c \in Conns /\ toBroker' = [toBroker EXCEPT ![c] = @ \o frames]
             /\ toClient' \in [Conns -> Seq(BrokerFrames)]
             /\ UNCHANGED <<sock, engines, topics, lock, unserved>>
      PROVE  BrokerInv'
  <2>1. /\ toBroker' \in [Conns -> Seq(ClientFrames)]
        /\ \A d \in Conns : toBroker[d] # <<>> =>
             toBroker'[d] # <<>> /\ Head(toBroker'[d]) = Head(toBroker[d])
    <3>1. CASE toBroker' = toBroker
      BY <3>1 DEF BrokerInv, BTypeOK
    <3>2. CASE c \in Conns /\ toBroker' = [toBroker EXCEPT ![c] = @ \o frames]
      <4>1. toBroker \in [Conns -> Seq(ClientFrames)] /\ toBroker[c] \in Seq(ClientFrames)
        BY <3>2 DEF BrokerInv, BTypeOK
      <4>2. /\ toBroker[c] \o frames \in Seq(ClientFrames)
            /\ toBroker[c] # <<>> => /\ toBroker[c] \o frames # <<>>
                                    /\ Head(toBroker[c] \o frames) = Head(toBroker[c])
        BY <4>1, AppendKeepsHead
      <4>. QED BY <3>2, <4>1, <4>2
    <3>. QED BY <1>2, <3>1, <3>2
  <2>. QED BY <1>2, <2>1
           DEF BrokerInv, BTypeOK, NoLeakedSubscriber, LockDiscipline, NextFrame, Served
<1>3. ASSUME NEW frames \in Seq(ClientFrames), Write(c, frames)
      PROVE  BrokerInv'
  <2>1. toClient' \in [Conns -> Seq(BrokerFrames)]
    BY <1>3 DEF Write, BrokerInv, BTypeOK
  <2>. QED BY <1>2, <1>3, <2>1 DEF Write
<1>4. ASSUME c \in Conns, NEW reaction \in Seq(ClientFrames), Receive(c, reaction)
      PROVE  BrokerInv'
  <2>1. toClient' \in [Conns -> Seq(BrokerFrames)]
    BY <1>4 DEF Receive, BrokerInv, BTypeOK
  <2>. QED BY <1>2, <1>4, <2>1 DEF Receive
<1>5. ASSUME c \in Conns, NEW n \in 1 .. Len(toClient[c]), Misread(c, n)
      PROVE  BrokerInv'
  <2>1. toClient' \in [Conns -> Seq(BrokerFrames)]
    BY <1>5 DEF Misread, BrokerInv, BTypeOK
  <2>2. UNCHANGED <<sock, engines, topics, lock, unserved, toBroker>>
    BY <1>5 DEF Misread
  <2>. QED BY <2>1, <2>2
           DEF BrokerInv, BTypeOK, NoLeakedSubscriber, LockDiscipline, NextFrame, Served
<1>. QED BY <1>1, <1>3, <1>4, <1>5

\* A connection that breaks under a broadcast keeps the SEND it is busy with.
LEMMA LoseInv ==
  ASSUME BrokerInv, NEW c \in Conns, Lose(c)
  PROVE  BrokerInv'
<1>1. PICK n \in 0 .. Len(toBroker[c]) :
        /\ lock = c => n > 0
        /\ toBroker' = [toBroker EXCEPT ![c] = SubSeq(@, 1, n)]
  BY DEF Lose
<1>2. /\ sock[c] = "open"
      /\ sock' = [sock EXCEPT ![c] = "dead"]
      /\ toClient' = [toClient EXCEPT ![c] = <<>>]
      /\ UNCHANGED <<engines, topics, lock, unserved>>
  BY DEF Lose
<1>3. toBroker[c] \in Seq(ClientFrames)
  BY DEF BrokerInv, BTypeOK
<1>4. SubSeq(toBroker[c], 1, n) \in Seq(ClientFrames)
  BY <1>3, PrefixKeepsHead
<1>5. BTypeOK'
  BY <1>1, <1>2, <1>4 DEF BrokerInv, BTypeOK
<1>6. NoLeakedSubscriber'
  BY <1>2 DEF BrokerInv, BTypeOK, NoLeakedSubscriber, Served
<1>7. ASSUME lock # NoConn
      PROVE  /\ toBroker'[lock] # <<>>
             /\ Head(toBroker'[lock]) = Head(toBroker[lock])
             /\ Served(lock)'
  <2>1. NextFrame(lock, "SEND") /\ lock \in Conns
    BY <1>7 DEF BrokerInv, BTypeOK, LockDiscipline
  <2>2. CASE lock = c
    <3>1. SubSeq(toBroker[c], 1, n) # <<>> /\ Head(SubSeq(toBroker[c], 1, n)) = Head(toBroker[c])
      BY <1>1, <1>3, <2>2, PrefixKeepsHead
    <3>. QED BY <1>1, <1>2, <2>2, <3>1 DEF BrokerInv, BTypeOK, Served
  <2>3. CASE lock # c
    BY <1>1, <1>2, <2>1, <2>3 DEF BrokerInv, BTypeOK, Served, NextFrame
  <2>. QED BY <2>2, <2>3
<1>8. LockDiscipline'
  BY <1>2, <1>7 DEF BrokerInv, LockDiscipline, NextFrame
<1>. QED BY <1>5, <1>6, <1>8 DEF BrokerInv

\* The head of a queue is taken only by its own thread.
LEMMA DoneType ==
  ASSUME BTypeOK, NEW c \in Conns, toBroker[c] # <<>>, Done(c)
  PROVE  /\ toBroker' \in [Conns -> Seq(ClientFrames)]
         /\ \A d \in Conns \ {c} : toBroker'[d] = toBroker[d]
  BY DEF BTypeOK, Done

\* CONNECT and SUBSCRIBE are handled by a thread that does not hold the lock.
LEMMA HandleInv ==
  ASSUME BrokerInv, NEW c \in Conns, EngineConnect(c) \/ EngineSubscribe(c)
  PROVE  BrokerInv'
<1>1. /\ Served(c) /\ toBroker[c] # <<>> /\ Done(c)
      /\ Head(toBroker[c]) \in ClientFrames
  BY DEF EngineConnect, EngineSubscribe, NextFrame, BrokerInv, BTypeOK
<1>2. /\ toBroker' \in [Conns -> Seq(ClientFrames)]
      /\ \A d \in Conns \ {c} : toBroker'[d] = toBroker[d]
  BY <1>1, DoneType DEF BrokerInv
<1>3. CASE EngineConnect(c)
  <2>1. /\ engines' = engines \cup {c}
        /\ toClient' = Reply(c, Connected)
        /\ UNCHANGED <<sock, topics, lock, unserved>>
    BY <1>3 DEF EngineConnect
  <2>2. toClient' \in [Conns -> Seq(BrokerFrames)]
    BY <2>1, Replies, BrokerSays DEF BrokerInv
  <2>3. BTypeOK'
    BY <1>2, <2>1, <2>2 DEF BrokerInv, BTypeOK
  <2>4. NoLeakedSubscriber'
    BY <1>1, <2>1 DEF BrokerInv, NoLeakedSubscriber, Served
  <2>5. lock # NoConn => lock \in Conns \ {c}
    BY <1>3 DEF EngineConnect, BrokerInv, BTypeOK, LockDiscipline, NextFrame
  <2>6. LockDiscipline'
    BY <1>2, <2>1, <2>5 DEF BrokerInv, LockDiscipline, NextFrame, Served
  <2>. QED BY <2>3, <2>4, <2>6 DEF BrokerInv
<1>4. CASE EngineSubscribe(c)
  <2>1. /\ lock = NoConn
        /\ topics' = [topics EXCEPT ![Head(toBroker[c]).dest] = @ \cup {c}]
        /\ UNCHANGED <<sock, engines, lock, unserved, toClient>>
    BY <1>4 DEF EngineSubscribe
  <2>2. Head(toBroker[c]).dest \in Topics
    BY <1>1, <1>4, Frames DEF EngineSubscribe, NextFrame
  <2>3. BTypeOK'
    BY <1>2, <2>1, <2>2 DEF BrokerInv, BTypeOK
  <2>4. NoLeakedSubscriber'
    BY <1>1, <2>1, <2>2 DEF BrokerInv, BTypeOK, NoLeakedSubscriber, Served
  <2>5. LockDiscipline'
    BY <2>1 DEF BrokerInv, LockDiscipline
  <2>. QED BY <2>3, <2>4, <2>5 DEF BrokerInv
<1>. QED BY <1>3, <1>4

\* A broadcast begins under the lock, writes to one subscriber after the other,
\* and leaves the lock free when it ends or fails.
LEMMA BroadcastInv ==
  ASSUME BrokerInv,
         \/ \E c \in Conns : BeginSend(c) \/ ServeSubscriber(c) \/ ServeFails(c)
         \/ EndSend
  PROVE  BrokerInv'
<1>1. ASSUME NEW c \in Conns, BeginSend(c)
      PROVE  BrokerInv'
  <2>1. /\ NextFrame(c, "SEND")
        /\ lock' = c
        /\ unserved' = topics[Head(toBroker[c]).dest]
        /\ UNCHANGED <<sock, engines, topics, toBroker, toClient>>
    BY <1>1 DEF BeginSend
  <2>2. Head(toBroker[c]) \in ClientFrames
    BY <2>1 DEF NextFrame, BrokerInv, BTypeOK
  <2>3. Head(toBroker[c]).dest \in Topics
    BY <2>1, <2>2, Frames DEF NextFrame
  <2>4. BTypeOK'
    BY <2>1, <2>3 DEF BrokerInv, BTypeOK
  <2>5. NoLeakedSubscriber'
    BY <2>1 DEF BrokerInv, NoLeakedSubscriber, Served
  <2>6. LockDiscipline'
    BY <2>1, NoConnFact DEF LockDiscipline, NextFrame, Served
  <2>. QED BY <2>4, <2>5, <2>6 DEF BrokerInv
<1>2. ASSUME NEW d \in Conns, ServeSubscriber(d)
      PROVE  BrokerInv'
  <2>1. /\ lock # NoConn
        /\ unserved' = unserved \ {d}
        /\ toClient' = Reply(d, Message(Head(toBroker[lock]).msg))
        /\ UNCHANGED <<sock, engines, topics, lock, toBroker>>
    BY <1>2 DEF ServeSubscriber
  <2>2. lock \in Conns /\ NextFrame(lock, "SEND")
    BY <2>1 DEF BrokerInv, BTypeOK, LockDiscipline
  <2>3. Head(toBroker[lock]) \in ClientFrames
    BY <2>2 DEF NextFrame, BrokerInv, BTypeOK
  <2>4. Head(toBroker[lock]).msg \in Msgs
    BY <2>2, <2>3, Frames DEF NextFrame
  <2>5. toClient' \in [Conns -> Seq(BrokerFrames)]
    BY <2>1, <2>4, Replies, BrokerSays DEF BrokerInv
  <2>. QED BY <2>1, <2>5
           DEF BrokerInv, BTypeOK, NoLeakedSubscriber, LockDiscipline, NextFrame, Served
<1>3. ASSUME lock # NoConn, Done(lock), lock' = NoConn, unserved' = {},
             UNCHANGED <<sock, engines, topics>>,
             toClient' \in [Conns -> Seq(BrokerFrames)]
      PROVE  BrokerInv'
  <2>1. lock \in Conns /\ toBroker[lock] # <<>>
    BY <1>3 DEF BrokerInv, BTypeOK, LockDiscipline, NextFrame
  <2>2. toBroker' \in [Conns -> Seq(ClientFrames)]
    BY <1>3, <2>1, DoneType DEF BrokerInv
  <2>. QED BY <1>3, <2>2
           DEF BrokerInv, BTypeOK, NoLeakedSubscriber, LockDiscipline, Served
<1>4. ASSUME NEW d \in Conns, ServeFails(d)
      PROVE  BrokerInv'
  <2>1. lock # NoConn /\ toClient' = Reply(lock, Error)
    BY <1>4 DEF ServeFails
  <2>2. toClient' \in [Conns -> Seq(BrokerFrames)]
    BY <2>1, Replies, BrokerSays DEF BrokerInv, BTypeOK
  <2>. QED BY <1>3, <1>4, <2>2 DEF ServeFails
<1>5. CASE EndSend
  BY <1>3, <1>5 DEF EndSend, BrokerInv, BTypeOK
<1>. QED BY <1>1, <1>2, <1>4, <1>5

\* The end of a thread unsubscribes its connection everywhere.
LEMMA FinishInv ==
  ASSUME BrokerInv, NEW c \in Conns, Finish(c)
  PROVE  BrokerInv'
<1>1. BTypeOK'
  BY DEF Finish, BrokerInv, BTypeOK
<1>2. NoLeakedSubscriber'
  BY DEF Finish, BrokerInv, BTypeOK, NoLeakedSubscriber, Served
<1>3. LockDiscipline'
  BY DEF Finish, BrokerInv, LockDiscipline
<1>. QED BY <1>1, <1>2, <1>3 DEF BrokerInv

\* A broker that is started again knows nothing of the earlier connections.
LEMMA RestartInv ==
  ASSUME BrokerInv, BrokerRestart
  PROVE  BrokerInv'
  BY NoConnFact DEF BrokerRestart, BrokerInv, BTypeOK, NoLeakedSubscriber, LockDiscipline, Served

\* No step of the broker and nothing the clients do breaks the invariant.
THEOREM NextInv == BrokerInv /\ [BNext]_bvars => BrokerInv'
<1>. SUFFICES ASSUME BrokerInv, [BNext]_bvars
              PROVE  BrokerInv'
  OBVIOUS
<1>1. CASE UNCHANGED bvars
  BY <1>1 DEF bvars, BrokerInv, BTypeOK, NoLeakedSubscriber, LockDiscipline, NextFrame, Served
<1>2. CASE BrokerRestart
  BY <1>2, RestartInv
<1>3. CASE BrokerStep
  BY <1>3, HandleInv, BroadcastInv, FinishInv DEF BrokerStep, HandlerStep
<1>4. ASSUME NEW c \in Conns,
             \/ Open(c)
             \/ \E f \in ClientFrames : Write(c, <<f>>)
             \/ Receive(c, <<>>)
             \/ \E n \in 1 .. Len(toClient[c]) : Misread(c, n)
      PROVE  BrokerInv'
  <2>1. \A f \in ClientFrames : <<f>> \in Seq(ClientFrames)
    OBVIOUS
  <2>2. CASE \E f \in ClientFrames : Write(c, <<f>>)
    BY <2>1, <2>2, ClientInv
  <2>3. <<>> \in Seq(ClientFrames)
    OBVIOUS
  <2>4. CASE Receive(c, <<>>)
    BY <2>3, <2>4, ClientInv
  <2>5. CASE Open(c) \/ \E n \in 1 .. Len(toClient[c]) : Misread(c, n)
    BY <2>5, ClientInv
  <2>. QED BY <1>4, <2>2, <2>4, <2>5
<1>5. ASSUME NEW c \in Conns, Lose(c)
      PROVE  BrokerInv'
  BY <1>5, LoseInv
<1>. QED BY <1>1, <1>2, <1>3, <1>4, <1>5 DEF BNext

\* BrokerInv holds in every state of the broker.
THEOREM Invariance == BSpec => []BrokerInv
  BY InitInv, NextInv, PTL DEF BSpec

\* The broker's tables and queues hold connections and well-formed frames.
THEOREM TypeCorrect == BSpec => []BTypeOK
<1>1. BrokerInv => BTypeOK
  BY DEF BrokerInv
<1>. QED BY <1>1, Invariance, PTL

\* No connection is subscribed, or has an engine, after its thread has ended.
THEOREM NothingLeaks == BSpec => []NoLeakedSubscriber
<1>1. BrokerInv => NoLeakedSubscriber
  BY DEF BrokerInv
<1>. QED BY <1>1, Invariance, PTL

\* The lock is held only in the middle of a SEND, which writes to connections
\* that are still subscribed.
THEOREM LockIsDisciplined == BSpec => []LockDiscipline
<1>1. BrokerInv => LockDiscipline
  BY DEF BrokerInv
<1>. QED BY <1>1, Invariance, PTL
=============================================================================
