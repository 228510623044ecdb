---------------------------- MODULE TopicClients -----------------------------
(***************************************************************************)
(* The broker with its clients: each subscribes to its topics when it is   *)
(* told that it is connected, as HostStompEngine and VMStompEngine do, and *)
(* publishes numbered messages on topics it chooses, from the moment its   *)
(* connection is made.  Connections break, chunks are misread, the broker  *)
(* is started again.  The history variables number the messages and record *)
(* the order of the broadcasts and what each client has read.              *)
(***************************************************************************)
EXTENDS TopicBroker

CONSTANTS Interests,    \* the topics each client subscribes to, in its order
          MaxMsgs,      \* bound: messages each client publishes
          Breakable,    \* bound: connections that may break or be misread
          BrokerEnds    \* bound: the broker may be started again

ASSUME ClientAssumptions ==
  /\ Interests \in [Conns -> Seq(Topics)]
  /\ MaxMsgs \in [Conns -> Nat]
  /\ \A c \in Conns : \A n \in 1 .. MaxMsgs[c] : <<c, n>> \in Msgs
  /\ Breakable \subseteq Conns

VARIABLES published,    \* history: how many messages each client has published
          begun,        \* history: the messages whose broadcast began, in order
          received      \* history: the messages each client has read, in order

cvars == <<bvars, published, begun, received>>

CTypeOK == /\ BTypeOK
           /\ published \in [Conns -> Nat]
           /\ begun \in Seq(Msgs)
           /\ received \in [Conns -> Seq(Msgs)]

CInit == /\ BInit
         /\ published = [c \in Conns |-> 0]
         /\ begun = <<>>
         /\ received = [c \in Conns |-> <<>>]

\* What is written while the connection is gone is dropped.
Publish(c, t) == /\ sock[c] # "new"
                 /\ published[c] < MaxMsgs[c]
                 /\ published' = [published EXCEPT ![c] = @ + 1]
                 /\ Write(c, <<Send(t, <<c, published'[c]>>)>>)
                 /\ UNCHANGED <<begun, received>>

\* The reaction to CONNECTED.
Subscriptions(c) == [i \in DOMAIN Interests[c] |-> Subscribe(Interests[c][i])]

Read(c) == LET frame == Head(toClient[c])
           IN  /\ Receive(c, IF frame = Connected THEN Subscriptions(c) ELSE <<>>)
               /\ received' = IF frame.cmd = "MESSAGE"
                              THEN [received EXCEPT ![c] = Append(@, frame.msg)]
                              ELSE received
               /\ UNCHANGED <<published, begun>>

Break(c) == /\ c \in Breakable
            /\ \/ Lose(c)
               \/ \E n \in 1 .. Len(toClient[c]) : Misread(c, n)
            /\ UNCHANGED <<published, begun, received>>

Handle == /\ BrokerStep
          /\ begun' = IF lock = NoConn /\ lock' # NoConn
                      THEN Append(begun, Head(toBroker[lock']).msg)
                      ELSE begun
          /\ UNCHANGED <<published, received>>

CNext == \/ \E c \in Conns : \/ Open(c) /\ UNCHANGED <<published, begun, received>>
                             \/ \E t \in Topics : Publish(c, t)
                             \/ Read(c)
                             \/ Break(c)
         \/ Handle
         \/ BrokerEnds /\ BrokerRestart /\ UNCHANGED <<published, begun, received>>

CSpec == CInit /\ [][CNext]_cvars

FairSpec == CSpec /\ WF_cvars(Handle) /\ \A c \in Conns : WF_cvars(Read(c))

-----------------------------------------------------------------------------
\* The lock of the topic manager orders the broadcasts, on all topics: two clients that
\* read the same two messages read them in the same order, and none reads a message twice,
\* whatever connections broke in the middle of a broadcast.
SameOrderEverywhere ==
  \A c, d \in Conns : \A i, j \in DOMAIN received[c], k, l \in DOMAIN received[d] :
    i < j /\ k < l => <<received[c][i], received[c][j]>> # <<received[d][l], received[d][k]>>

\* The broker promises one order of the messages, in which those of a publisher come as it
\* wrote them and without a gap, and everyone hears some of them in that order.
Order == INSTANCE TopicOrder WITH Clients <- Conns, order <- begun, heard <- received
ImplementsOrder == Order!Spec

\* As long as the clients keep reading, every broadcast ends and lets the other
\* threads go on, whoever disconnects while it holds the lock.
BroadcastEnds == lock # NoConn ~> lock = NoConn

\* The docstring of TopicManager.send: it sends a message to all subscribers of
\* the destination.  It is not over while one that can be written to is left out.
SentToAllSubscribers ==
  [][ lock # NoConn /\ lock' = NoConn => \A c \in unserved : sock[c] # "open" ]_cvars
=============================================================================
