---------------------------- MODULE TopicBroker -----------------------------
(***************************************************************************)
(* The coilmq broker the host agent starts, and the TCP connections of its *)
(* clients (the StompProtocol of the host and of the VMs).                 *)
(*                                                                         *)
(* One handler thread per connection reads frames and gives them to its    *)
(* StompEngine.  The TopicManager, shared by the threads, does everything  *)
(* under one lock: a broadcast writes to the subscribers one after the     *)
(* other, in no particular order, and holds the lock until it has written  *)
(* to all of them or a write has raised.  A write to a connection whose    *)
(* peer is gone may pass unnoticed or raise; a write to a connection that  *)
(* nobody reads blocks once the socket buffers are full.                   *)
(*                                                                         *)
(* Every connection is an object of its own: a client that connects again  *)
(* has a new one, while the old one may still be subscribed.               *)
(***************************************************************************)
EXTENDS Naturals, Sequences

CONSTANTS Conns,      \* connections, each used once
          Topics,     \* destinations
          Msgs,       \* what the clients send
          NoConn,     \* the lock of the topic manager is free
          Room        \* frames that fit between the broker and a client

ASSUME BrokerAssumptions == NoConn \notin Conns /\ Room \in Nat

VARIABLES sock,       \* the TCP connection, as the client sees it
          engines,    \* connections whose StompEngine is connected
          topics,     \* TopicManager._topics
          lock,       \* the connection whose thread holds the lock in send()
          unserved,   \* subscribers that send() has not yet written to
          toBroker, toClient

bvars == <<sock, engines, topics, lock, unserved, toBroker, toClient>>

Connect      == [cmd |-> "CONNECT"]
Subscribe(t) == [cmd |-> "SUBSCRIBE", dest |-> t]
Send(t, m)   == [cmd |-> "SEND", dest |-> t, msg |-> m]
Connected    == [cmd |-> "CONNECTED"]
Error        == [cmd |-> "ERROR"]

\* The frame is sent on as it came, still a SEND.
Message_NotConverted(m) == [cmd |-> "SEND", msg |-> m]

Message(m)   == [cmd |-> "MESSAGE", msg |-> m]

ClientFrames == {Connect} \cup {Subscribe(t) : t \in Topics}
                  \cup {Send(t, m) : t \in Topics, m \in Msgs}
BrokerFrames == [cmd : {"CONNECTED", "ERROR"}] \cup [cmd : {"MESSAGE"}, msg : Msgs]

BTypeOK == /\ sock \in [Conns -> {"new", "open", "dead", "closed"}]
           /\ engines \subseteq Conns
           /\ topics \in [Topics -> SUBSET Conns]
           /\ lock \in Conns \cup {NoConn}
           /\ unserved \subseteq Conns
           /\ toBroker \in [Conns -> Seq(ClientFrames)]
           /\ toClient \in [Conns -> Seq(BrokerFrames)]

BInit == /\ sock = [c \in Conns |-> "new"]
         /\ engines = {}
         /\ topics = [t \in Topics |-> {}]
         /\ lock = NoConn
         /\ unserved = {}
         /\ toBroker = [c \in Conns |-> <<>>]
         /\ toClient = [c \in Conns |-> <<>>]

-----------------------------------------------------------------------------
(* The clients' end of the connections *)

\* connectionMade sends CONNECT.
Open(c) == /\ sock[c] = "new"
           /\ sock' = [sock EXCEPT ![c] = "open"]
           /\ toBroker' = [toBroker EXCEPT ![c] = <<Connect>>]
           /\ UNCHANGED <<engines, topics, lock, unserved, toClient>>

\* A write without a connection is dropped by the transport.
Write(c, frames) ==
  /\ toBroker' = IF c \in Conns /\ sock[c] = "open"
                 THEN [toBroker EXCEPT ![c] = @ \o frames] ELSE toBroker
  /\ UNCHANGED <<sock, engines, topics, lock, unserved, toClient>>

\* The client reads a chunk that holds the next frame and writes its reaction.
Receive(c, reaction) ==
  /\ sock[c] = "open"
  /\ toClient[c] # <<>>
  /\ toClient' = [toClient EXCEPT ![c] = Tail(@)]
  /\ toBroker' = [toBroker EXCEPT ![c] = @ \o reaction]
  /\ UNCHANGED <<sock, engines, topics, lock, unserved>>

\* dataReceived keeps no buffer between chunks: the frames of a chunk that does
\* not hold exactly one of them are not understood and are lost.
Misread(c, n) ==
  /\ sock[c] = "open"
  /\ n \in 1 .. Len(toClient[c])
  /\ toClient' = [toClient EXCEPT ![c] = SubSeq(@, n + 1, Len(@))]
  /\ UNCHANGED <<sock, engines, topics, lock, unserved, toBroker>>

\* The connection breaks: nothing more reaches the client, and the broker still
\* has to read some of what the client wrote.
Lose(c) ==
  /\ sock[c] = "open"
  /\ sock' = [sock EXCEPT ![c] = "dead"]
  /\ \E n \in 0 .. Len(toBroker[c]) :
       /\ lock = c => n > 0
       /\ toBroker' = [toBroker EXCEPT ![c] = SubSeq(@, 1, n)]
  /\ toClient' = [toClient EXCEPT ![c] = <<>>]
  /\ UNCHANGED <<engines, topics, lock, unserved>>

-----------------------------------------------------------------------------
(* The handler thread of a connection *)

Served(c) == sock[c] \in {"open", "dead"}

NextFrame(c, cmd) == /\ Served(c)
                     /\ toBroker[c] # <<>>
                     /\ Head(toBroker[c]).cmd = cmd

Reply(client, frame) == IF sock[client] = "open"
                        THEN [toClient EXCEPT ![client] = Append(@, frame)]
                        ELSE toClient

Done(c) == toBroker' = [toBroker EXCEPT ![c] = Tail(@)]

EngineConnect(c) ==
  /\ NextFrame(c, "CONNECT")
  /\ engines' = engines \cup {c}
  /\ toClient' = Reply(c, Connected)
  /\ Done(c)
  /\ UNCHANGED <<sock, topics, lock, unserved>>

EngineSubscribe(c) ==
  /\ NextFrame(c, "SUBSCRIBE")
  /\ lock = NoConn
  /\ topics' = [topics EXCEPT ![Head(toBroker[c]).dest] = @ \cup {c}]
  /\ Done(c)
  /\ UNCHANGED <<sock, engines, lock, unserved, toClient>>

\* TopicManager.send takes the lock and begins to go through the subscribers.
BeginSend(c) ==
  /\ NextFrame(c, "SEND")
  /\ lock = NoConn
  /\ lock' = c
  /\ unserved' = topics[Head(toBroker[c]).dest]
  /\ UNCHANGED <<sock, engines, topics, toBroker, toClient>>

\* Without the lock two broadcasts overtake each other on the way to a subscriber.
ServeSubscriber_Unlocked(d) ==
  /\ lock # NoConn
  /\ d \in unserved
  /\ Len(toClient[d]) < Room
  /\ unserved' = unserved \ {d}
  /\ toClient' = IF sock[d] = "open"
                 THEN [toClient EXCEPT ![d] = <<Message(Head(toBroker[lock]).msg)>> \o @]
                 ELSE toClient
  /\ UNCHANGED <<sock, engines, topics, lock, toBroker>>

\* A write to a subscriber returns.
ServeSubscriber(d) ==
  /\ lock # NoConn
  /\ d \in unserved
  /\ Len(toClient[d]) < Room
  /\ unserved' = unserved \ {d}
  /\ toClient' = Reply(d, Message(Head(toBroker[lock]).msg))
  /\ UNCHANGED <<sock, engines, topics, lock, toBroker>>

\* The SEND whose broadcast failed is handled again.
ServeFails_Retried(d) ==
  /\ lock # NoConn
  /\ d \in unserved
  /\ sock[d] = "dead"
  /\ toClient' = Reply(lock, Error)
  /\ lock' = NoConn
  /\ unserved' = {}
  /\ UNCHANGED <<sock, engines, topics, toBroker>>

\* A write to a subscriber that is gone raises: the iteration ends there, and the
\* engine answers the sender with an ERROR frame.
ServeFails(d) ==
  /\ lock # NoConn
  /\ d \in unserved
  /\ sock[d] = "dead"
  /\ toClient' = Reply(lock, Error)
  /\ Done(lock)
  /\ lock' = NoConn
  /\ unserved' = {}
  /\ UNCHANGED <<sock, engines, topics>>

\* The lock is released once a receipt was written to the sender, and not when
\* that write raises.
EndSend_Receipt ==
  /\ lock # NoConn
  /\ unserved = {}
  /\ sock[lock] = "open"
  /\ Done(lock)
  /\ lock' = NoConn
  /\ UNCHANGED <<sock, engines, topics, unserved, toClient>>

EndSend ==
  /\ lock # NoConn
  /\ unserved = {}
  /\ Done(lock)
  /\ lock' = NoConn
  /\ UNCHANGED <<sock, engines, topics, unserved, toClient>>

\* The engine is not unbound from the topics.
Finish_TopicsKept(c) ==
  /\ sock[c] = "dead"
  /\ toBroker[c] = <<>>
  /\ lock = NoConn
  /\ sock' = [sock EXCEPT ![c] = "closed"]
  /\ engines' = engines \ {c}
  /\ UNCHANGED <<topics, lock, unserved, toBroker, toClient>>

\* The engine is unbound in the middle of another thread's broadcast.
Finish_Unlocked(c) ==
  /\ sock[c] = "dead"
  /\ toBroker[c] = <<>>
  /\ sock' = [sock EXCEPT ![c] = "closed"]
  /\ engines' = engines \ {c}
  /\ topics' = [t \in Topics |-> topics[t] \ {c}]
  /\ UNCHANGED <<lock, unserved, toBroker, toClient>>

\* The thread reads the end of the stream: finish() unbinds the engine.
Finish(c) ==
  /\ sock[c] = "dead"
  /\ toBroker[c] = <<>>
  /\ lock = NoConn
  /\ sock' = [sock EXCEPT ![c] = "closed"]
  /\ engines' = engines \ {c}
  /\ topics' = [t \in Topics |-> topics[t] \ {c}]
  /\ UNCHANGED <<lock, unserved, toBroker, toClient>>

\* The broker process ends with the host's and is started again with it.
BrokerRestart ==
  /\ sock' = [c \in Conns |-> IF Served(c) THEN "closed" ELSE sock[c]]
  /\ engines' = {}
  /\ topics' = [t \in Topics |-> {}]
  /\ lock' = NoConn
  /\ unserved' = {}
  /\ toBroker' = [c \in Conns |-> <<>>]
  /\ toClient' = [c \in Conns |-> <<>>]

HandlerStep(c) == \/ EngineConnect(c)
                  \/ EngineSubscribe(c)
                  \/ BeginSend(c)
                  \/ ServeSubscriber(c)
                  \/ ServeFails(c)
                  \/ Finish(c)

BrokerStep == EndSend \/ \E c \in Conns : HandlerStep(c)

-----------------------------------------------------------------------------
(* Any clients that say CONNECT first *)

BNext == \/ \E c \in Conns : \/ Open(c)
                             \/ \E f \in ClientFrames : Write(c, <<f>>)
                             \/ Receive(c, <<>>)
                             \/ \E n \in 1 .. Len(toClient[c]) : Misread(c, n)
                             \/ Lose(c)
         \/ BrokerStep
         \/ BrokerRestart

BSpec == BInit /\ [][BNext]_bvars

\* A connection whose thread has ended is subscribed nowhere and has no engine,
\* in whatever order it broke, its last frames were read and others broadcast:
\* the broker keeps no subscriber it would write to for ever.
NoLeakedSubscriber ==
  \A c \in Conns : ~ Served(c) =>
     c \notin engines /\ \A t \in Topics : c \notin topics[t]

\* Who holds the lock is a thread in the middle of a SEND, and it only writes to
\* connections it found subscribed: none of them is unbound under it.
LockDiscipline ==
  /\ lock = NoConn => unserved = {}
  /\ lock # NoConn => /\ NextFrame(lock, "SEND")
                      /\ unserved \subseteq topics[Head(toBroker[lock]).dest]
=============================================================================
