------------------------- MODULE TopicClientsProofs --------------------------
(***************************************************************************)
(* Proofs about the order in which clients hear messages, for any number   *)
(* of them, any topics they subscribe to and publish on, any number of     *)
(* messages, and connections that break, chunks that are misread and a     *)
(* broker that is started again at any time.                               *)
(***************************************************************************)
EXTENDS TopicClients, TopicBrokerProofs

\* m came before n in the order s.
Before(s, m, n) == \E k, l \in DOMAIN s : k < l /\ s[k] = m /\ s[l] = n

\* No message came twice.
Once(s) == \A k, l \in DOMAIN s : s[k] = s[l] => k = l

\* The messages among the frames q that c wrote and the broker still has to handle: they are
\* c's, of the first count of them, each once, in order and without a gap behind those that
\* were broadcast; and only the first may be one whose broadcast has begun, when c holds the
\* lock.
WaitsAt(c, q, i, count, past, busy) ==
  /\ \E n \in 1 .. count :
       /\ q[i].msg = <<c, n>>
       /\ \A k \in 1 .. (n - 1) :
            \/ <<c, k>> \in past
            \/ \E j \in DOMAIN q : j < i /\ q[j].cmd = "SEND" /\ q[j].msg = <<c, k>>
  /\ q[i].msg \in past => i = 1 /\ busy
  /\ \A j \in DOMAIN q : j < i /\ q[j].cmd = "SEND" => q[j].msg # q[i].msg

Waiting(c, q, count, past, busy) ==
  \A i \in DOMAIN q : q[i].cmd = "SEND" => WaitsAt(c, q, i, count, past, busy)

\* Nothing of what c published is missing, as long as its connection is open.
NoneMissing(c, q, count, past) ==
  \A n \in 1 .. count :
    \/ <<c, n>> \in past
    \/ \E j \in DOMAIN q : q[j].cmd = "SEND" /\ q[j].msg = <<c, n>>

PublishInv ==
  /\ \A m \in Order!Range(begun) : \E c \in Conns : \E n \in 1 .. published[c] : m = <<c, n>>
  /\ \A c \in Conns :
       /\ Waiting(c, toBroker[c], published[c], Order!Range(begun), lock = c)
       /\ sock[c] = "new" => published[c] = 0
       /\ sock[c] = "open" => NoneMissing(c, toBroker[c], published[c], Order!Range(begun))

\* What a client has read, rec, and what is on its way to it, q, is in the order s.
InOrder(s, rec, q) ==
  /\ \A i \in DOMAIN rec : rec[i] \in Order!Range(s)
  /\ \A i \in DOMAIN q : q[i].cmd = "MESSAGE" => q[i].msg \in Order!Range(s)
  /\ \A i, j \in DOMAIN rec : i < j => Before(s, rec[i], rec[j])
  /\ \A i, j \in DOMAIN q :
       i < j /\ q[i].cmd = "MESSAGE" /\ q[j].cmd = "MESSAGE" => Before(s, q[i].msg, q[j].msg)
  /\ \A i \in DOMAIN rec, j \in DOMAIN q : q[j].cmd = "MESSAGE" => Before(s, rec[i], q[j].msg)

\* It was not written the message m yet.
NotYet(m, rec, q) == /\ \A i \in DOMAIN rec : rec[i] # m
                     /\ \A i \in DOMAIN q : q[i].cmd = "MESSAGE" => q[i].msg # m

HearInv ==
  /\ Once(begun)
  /\ \A c \in Conns : InOrder(begun, received[c], toClient[c])
  /\ lock # NoConn =>
       /\ begun # <<>>
       /\ begun[Len(begun)] = Head(toBroker[lock]).msg
       /\ \A d \in unserved : NotYet(begun[Len(begun)], received[d], toClient[d])

OrderInv == CTypeOK /\ BrokerInv /\ PublishInv /\ HearInv

-----------------------------------------------------------------------------
(* Queues *)

\* A connection that is cut off leaves the first of the frames it wrote.
LEMMA WaitingPrefix ==
  ASSUME NEW c, NEW q \in Seq(ClientFrames), NEW count, NEW past, NEW busy, NEW n \in 0 .. Len(q),
         Waiting(c, q, count, past, busy)
  PROVE  Waiting(c, SubSeq(q, 1, n), count, past, busy)
<1>. DEFINE p == SubSeq(q, 1, n)
<1>1. DOMAIN p = 1 .. n /\ n \in Nat /\ \A i \in 1 .. n : i \in DOMAIN q /\ p[i] = q[i]
  OBVIOUS
<1>2. \A i \in 1 .. n, j \in DOMAIN q : j < i => j \in 1 .. n
  OBVIOUS
<1>. HIDE DEF p
<1>3. Waiting(c, p, count, past, busy)
  BY <1>1, <1>2 DEF Waiting, WaitsAt
<1>. QED BY <1>3 DEF p

\* A frame that has been handled is no message, or one whose broadcast has begun.
LEMMA WaitingTail ==
  ASSUME NEW c, NEW q \in Seq(ClientFrames), NEW count \in Nat, NEW past, NEW busy,
         q # <<>>, Head(q).cmd = "SEND" => Head(q).msg \in past,
         Waiting(c, q, count, past, busy)
  PROVE  Waiting(c, Tail(q), count, past, FALSE)
<1>. DEFINE p == Tail(q)
<1>1. /\ \A i \in DOMAIN p : i \in Nat /\ i + 1 \in DOMAIN q /\ i + 1 # 1 /\ p[i] = q[i + 1]
      /\ \A j \in DOMAIN q : j # 1 => j - 1 \in DOMAIN p /\ p[j - 1] = q[j]
      /\ q[1] = Head(q) /\ \A j \in DOMAIN q : j \in Nat
  OBVIOUS
<1>. HIDE DEF p
<1>2. ASSUME NEW i \in DOMAIN p, p[i].cmd = "SEND"
      PROVE  WaitsAt(c, p, i, count, past, FALSE)
  <2>1. i + 1 \in DOMAIN q /\ q[i + 1].cmd = "SEND" /\ p[i] = q[i + 1] /\ i + 1 # 1 /\ i \in Nat
    BY <1>1, <1>2
  <2>2. PICK n \in 1 .. count :
          /\ q[i + 1].msg = <<c, n>>
          /\ \A k \in 1 .. (n - 1) :
               \/ <<c, k>> \in past
               \/ \E j \in DOMAIN q : j < i + 1 /\ q[j].cmd = "SEND" /\ q[j].msg = <<c, k>>
    BY <2>1 DEF Waiting, WaitsAt
  <2>3. ASSUME NEW k \in 1 .. (n - 1), <<c, k>> \notin past
        PROVE  \E j \in DOMAIN p : j < i /\ p[j].cmd = "SEND" /\ p[j].msg = <<c, k>>
    <3>1. PICK j \in DOMAIN q : j < i + 1 /\ q[j].cmd = "SEND" /\ q[j].msg = <<c, k>>
      BY <2>2, <2>3
    <3>2. j # 1
      BY <1>1, <2>3, <3>1
    <3>3. j - 1 \in DOMAIN p /\ j - 1 < i /\ p[j - 1] = q[j]
      BY <1>1, <2>1, <3>1, <3>2
    <3>. QED BY <3>1, <3>3
  <2>4. p[i].msg \notin past
    BY <2>1 DEF Waiting, WaitsAt
  <2>5. ASSUME NEW j \in DOMAIN p, j < i, p[j].cmd = "SEND"
        PROVE  p[j].msg # p[i].msg
    <3>1. j + 1 \in DOMAIN q /\ j + 1 < i + 1 /\ p[j] = q[j + 1]
      BY <1>1, <2>1, <2>5
    <3>. QED BY <2>1, <2>5, <3>1 DEF Waiting, WaitsAt
  <2>. QED BY <2>1, <2>2, <2>3, <2>4, <2>5 DEF WaitsAt
<1>3. Waiting(c, p, count, past, FALSE)
  BY <1>2 DEF Waiting
<1>. QED BY <1>3 DEF p

\* What is handled is not missing, nor what stands behind it.
LEMMA MissingTail ==
  ASSUME NEW c, NEW q \in Seq(ClientFrames), NEW count, NEW past,
         q # <<>>, Head(q).cmd = "SEND" => Head(q).msg \in past,
         NoneMissing(c, q, count, past)
  PROVE  NoneMissing(c, Tail(q), count, past)
<1>. DEFINE p == Tail(q)
<1>1. /\ \A j \in DOMAIN q : j # 1 => j - 1 \in DOMAIN p /\ p[j - 1] = q[j]
      /\ q[1] = Head(q)
  OBVIOUS
<1>. HIDE DEF p
<1>2. NoneMissing(c, p, count, past)
  <2>. SUFFICES ASSUME NEW n \in 1 .. count, <<c, n>> \notin past
                PROVE  \E j \in DOMAIN p : p[j].cmd = "SEND" /\ p[j].msg = <<c, n>>
    BY DEF NoneMissing
  <2>1. PICK j \in DOMAIN q : q[j].cmd = "SEND" /\ q[j].msg = <<c, n>>
    BY DEF NoneMissing
  <2>. QED BY <1>1, <2>1
<1>. QED BY <1>2 DEF p

\* Frames that are no messages may be written behind the others.
LEMMA WaitingMore ==
  ASSUME NEW c, NEW q \in Seq(ClientFrames), NEW r \in Seq(ClientFrames),
         NEW count, NEW past, NEW busy, \A i \in DOMAIN r : r[i].cmd # "SEND"
  PROVE  /\ Waiting(c, q, count, past, busy) => Waiting(c, q \o r, count, past, busy)
         /\ NoneMissing(c, q, count, past) => NoneMissing(c, q \o r, count, past)
<1>. DEFINE p == q \o r
<1>1. /\ \A i \in DOMAIN q : i \in DOMAIN p /\ p[i] = q[i]
      /\ \A i \in DOMAIN p : i \notin DOMAIN q => i - Len(q) \in DOMAIN r /\ p[i] = r[i - Len(q)]
  OBVIOUS
<1>. HIDE DEF p
<1>2. \A i \in DOMAIN p : p[i].cmd = "SEND" => i \in DOMAIN q /\ p[i] = q[i]
  BY <1>1
<1>3. Waiting(c, q, count, past, busy) => Waiting(c, p, count, past, busy)
  BY <1>1, <1>2 DEF Waiting, WaitsAt
<1>4. NoneMissing(c, q, count, past) => NoneMissing(c, p, count, past)
  BY <1>1 DEF NoneMissing
<1>. QED BY <1>3, <1>4 DEF p

\* So may the next message of its publisher.
LEMMA WaitingNext ==
  ASSUME NEW c, NEW q \in Seq(ClientFrames), NEW count \in Nat, NEW past, NEW busy,
         NEW f, f.cmd = "SEND", f.msg = <<c, count + 1>>, f.msg \notin past,
         Waiting(c, q, count, past, busy), NoneMissing(c, q, count, past)
  PROVE  /\ Waiting(c, q \o <<f>>, count + 1, past, busy)
         /\ NoneMissing(c, q \o <<f>>, count + 1, past)
<1>. DEFINE p == q \o <<f>>
<1>1. /\ \A i \in DOMAIN q : i \in DOMAIN p /\ p[i] = q[i] /\ i < Len(q) + 1
      /\ Len(q) + 1 \in DOMAIN p /\ p[Len(q) + 1] = f
      /\ \A i \in DOMAIN p : i \in DOMAIN q \/ i = Len(q) + 1
      /\ Len(q) \in Nat /\ \A i \in DOMAIN q : i \in Nat
  OBVIOUS
<1>. HIDE DEF p
<1>2. \A n \in 1 .. count : n \in 1 .. (count + 1)
  OBVIOUS
<1>3. ASSUME NEW i \in DOMAIN q, q[i].cmd = "SEND"
      PROVE  WaitsAt(c, p, i, count + 1, past, busy) /\ p[i].msg # f.msg
  <2>1. PICK n \in 1 .. count :
          /\ q[i].msg = <<c, n>>
          /\ \A k \in 1 .. (n - 1) :
               \/ <<c, k>> \in past
               \/ \E j \in DOMAIN q : j < i /\ q[j].cmd = "SEND" /\ q[j].msg = <<c, k>>
    BY <1>3 DEF Waiting, WaitsAt
  <2>2. p[i].msg \in past => i = 1 /\ busy
    BY <1>1, <1>3 DEF Waiting, WaitsAt
  <2>3. \A j \in DOMAIN p : j < i => j \in DOMAIN q /\ p[j] = q[j]
    BY <1>1
  <2>4. \A j \in DOMAIN p : j < i /\ p[j].cmd = "SEND" => p[j].msg # p[i].msg
    BY <1>1, <1>3, <2>3 DEF Waiting, WaitsAt
  <2>5. p[i].msg = <<c, n>> /\ n # count + 1
    BY <1>1, <2>1
  <2>6. p[i].msg # f.msg
    BY <2>5
  <2>7. ASSUME NEW k \in 1 .. (n - 1), <<c, k>> \notin past
        PROVE  \E j \in DOMAIN p : j < i /\ p[j].cmd = "SEND" /\ p[j].msg = <<c, k>>
    BY <1>1, <2>1, <2>7
  <2>. QED BY <1>2, <2>2, <2>4, <2>5, <2>6, <2>7 DEF WaitsAt
<1>4. ASSUME NEW k \in 1 .. ((count + 1) - 1), <<c, k>> \notin past
      PROVE  \E j \in DOMAIN p : j < Len(q) + 1 /\ p[j].cmd = "SEND" /\ p[j].msg = <<c, k>>
  <2>1. k \in 1 .. count
    OBVIOUS
  <2>2. PICK j \in DOMAIN q : q[j].cmd = "SEND" /\ q[j].msg = <<c, k>>
    BY <1>4, <2>1 DEF NoneMissing
  <2>. QED BY <1>1, <2>2
<1>5. Waiting(c, p, count + 1, past, busy)
  <2>. SUFFICES ASSUME NEW i \in DOMAIN p, p[i].cmd = "SEND"
                PROVE  WaitsAt(c, p, i, count + 1, past, busy)
    BY DEF Waiting
  <2>1. CASE i \in DOMAIN q
    <3>1. q[i].cmd = "SEND"
      BY <1>1, <2>1
    <3>. QED BY <1>3, <2>1, <3>1
  <2>2. CASE i = Len(q) + 1
    <3>1. p[i].msg = <<c, count + 1>> /\ p[i].msg \notin past /\ count + 1 \in 1 .. (count + 1)
      BY <1>1, <2>2
    <3>2. ASSUME NEW j \in DOMAIN p, j < i, p[j].cmd = "SEND"
          PROVE  p[j].msg # p[i].msg
      <4>1. j \in DOMAIN q
        BY <1>1, <2>2, <3>2
      <4>. QED BY <1>1, <1>3, <2>2, <3>2, <4>1
    <3>. QED BY <1>4, <2>2, <3>1, <3>2 DEF WaitsAt
  <2>. QED BY <1>1, <2>1, <2>2
<1>6. NoneMissing(c, p, count + 1, past)
  <2>1. ASSUME NEW n \in 1 .. (count + 1), <<c, n>> \notin past
        PROVE  \E j \in DOMAIN p : p[j].cmd = "SEND" /\ p[j].msg = <<c, n>>
    <3>1. CASE n = count + 1
      BY <1>1, <3>1
    <3>2. CASE n # count + 1
      <4>1. n \in 1 .. ((count + 1) - 1)
        BY <3>2
      <4>. QED BY <1>4, <2>1, <4>1
    <3>. QED BY <3>1, <3>2
  <2>. QED BY <2>1 DEF NoneMissing
<1>. QED BY <1>5, <1>6 DEF p

\* The first message is the next one of its publisher; its broadcast may begin.
LEMMA WaitingFirst ==
  ASSUME NEW c, NEW q \in Seq(ClientFrames), NEW count, NEW past,
         q # <<>>, Head(q).cmd = "SEND", Waiting(c, q, count, past, FALSE)
  PROVE  /\ Head(q).msg \notin past
         /\ \E n \in 1 .. count : /\ Head(q).msg = <<c, n>>
                                  /\ \A k \in 1 .. (n - 1) : <<c, k>> \in past
         /\ Waiting(c, q, count, past \cup {Head(q).msg}, TRUE)
<1>1. /\ 1 \in DOMAIN q /\ q[1] = Head(q)
      /\ \A i \in DOMAIN q : i \in Nat /\ ~ i < 1 /\ (i # 1 => 1 < i)
  OBVIOUS
<1>2. WaitsAt(c, q, 1, count, past, FALSE)
  BY <1>1 DEF Waiting
<1>3. ASSUME NEW i \in DOMAIN q, q[i].cmd = "SEND"
      PROVE  WaitsAt(c, q, i, count, past \cup {Head(q).msg}, TRUE)
  BY <1>1, <1>3 DEF Waiting, WaitsAt
<1>. QED BY <1>1, <1>2, <1>3 DEF Waiting, WaitsAt

\* The broadcast of another client's message changes nothing.
LEMMA WaitingOthers ==
  ASSUME NEW c, NEW q, NEW count, NEW past, NEW busy, NEW d, NEW n, d # c
  PROVE  Waiting(c, q, count, past, busy) => Waiting(c, q, count, past \cup {<<d, n>>}, busy)
  BY DEF Waiting, WaitsAt

-----------------------------------------------------------------------------
(* What a client hears *)

\* What is read stays in order, and nothing else is heard for it.
LEMMA HearRead ==
  ASSUME NEW s, NEW rec \in Seq(Msgs), NEW q \in Seq(BrokerFrames), q # <<>>, NEW rec2,
         rec2 = IF Head(q).cmd = "MESSAGE" THEN Append(rec, Head(q).msg) ELSE rec
  PROVE  /\ InOrder(s, rec, q) => InOrder(s, rec2, Tail(q))
         /\ \A m : NotYet(m, rec, q) => NotYet(m, rec2, Tail(q))
<1>. DEFINE p == Tail(q)
<1>1. /\ \A i \in DOMAIN p : i + 1 \in DOMAIN q /\ p[i] = q[i + 1] /\ i \in Nat /\ 1 < i + 1
      /\ 1 \in DOMAIN q /\ q[1] = Head(q)
  OBVIOUS
<1>2. \A i \in DOMAIN rec2 :
        \/ i \in DOMAIN rec /\ rec2[i] = rec[i] /\ i \in Nat /\ i < Len(rec) + 1
        \/ /\ i = Len(rec) + 1 /\ Head(q).cmd = "MESSAGE"
           /\ rec2[i] = Head(q).msg
  <2>1. CASE Head(q).cmd = "MESSAGE"
    BY <2>1
  <2>2. CASE Head(q).cmd # "MESSAGE"
    BY <2>2
  <2>. QED BY <2>1, <2>2
<1>3. Len(rec) \in Nat
  OBVIOUS
<1>. HIDE DEF p
<1>4. ASSUME InOrder(s, rec, q)
      PROVE  InOrder(s, rec2, p)
  <2>1. \A i \in DOMAIN rec2 : rec2[i] \in Order!Range(s)
    BY <1>1, <1>2, <1>4 DEF InOrder
  <2>2. \A i \in DOMAIN p : p[i].cmd = "MESSAGE" => p[i].msg \in Order!Range(s)
    BY <1>1, <1>4 DEF InOrder
  <2>3. ASSUME NEW i \in DOMAIN rec2, NEW j \in DOMAIN rec2, i < j
        PROVE  Before(s, rec2[i], rec2[j])
    <3>1. i \in DOMAIN rec /\ rec2[i] = rec[i]
      BY <1>2, <1>3, <2>3
    <3>. QED BY <1>1, <1>2, <1>4, <2>3, <3>1 DEF InOrder
  <2>4. ASSUME NEW i \in DOMAIN p, NEW j \in DOMAIN p, i < j,
               p[i].cmd = "MESSAGE", p[j].cmd = "MESSAGE"
        PROVE  Before(s, p[i].msg, p[j].msg)
    BY <1>1, <1>4, <2>4 DEF InOrder
  <2>5. ASSUME NEW i \in DOMAIN rec2, NEW j \in DOMAIN p, p[j].cmd = "MESSAGE"
        PROVE  Before(s, rec2[i], p[j].msg)
    BY <1>1, <1>2, <1>4, <2>5 DEF InOrder
  <2>. QED BY <2>1, <2>2, <2>3, <2>4, <2>5 DEF InOrder
<1>5. ASSUME NEW m, NotYet(m, rec, q)
      PROVE  NotYet(m, rec2, p)
  BY <1>1, <1>2, <1>5 DEF NotYet
<1>. QED BY <1>4, <1>5 DEF p

\* So does what is left when frames were lost.
LEMMA HearLess ==
  ASSUME NEW s, NEW rec \in Seq(Msgs), NEW q \in Seq(BrokerFrames), NEW n \in 1 .. Len(q)
  PROVE  /\ InOrder(s, rec, q) => InOrder(s, rec, SubSeq(q, n + 1, Len(q)))
         /\ \A m : NotYet(m, rec, q) => NotYet(m, rec, SubSeq(q, n + 1, Len(q)))
<1>. DEFINE p == SubSeq(q, n + 1, Len(q))
<1>1. \A i \in DOMAIN p : i + n \in DOMAIN q /\ p[i] = q[i + n] /\ i \in Nat
  OBVIOUS
<1>. HIDE DEF p
<1>2. InOrder(s, rec, q) => InOrder(s, rec, p)
  <2>. SUFFICES ASSUME InOrder(s, rec, q) PROVE InOrder(s, rec, p)
    OBVIOUS
  <2>1. ASSUME NEW i \in DOMAIN p, NEW j \in DOMAIN p, i < j,
               p[i].cmd = "MESSAGE", p[j].cmd = "MESSAGE"
        PROVE  Before(s, p[i].msg, p[j].msg)
    <3>1. i + n < j + n
      BY <1>1, <2>1
    <3>. QED BY <1>1, <2>1, <3>1 DEF InOrder
  <2>. QED BY <1>1, <2>1 DEF InOrder
<1>3. \A m : NotYet(m, rec, q) => NotYet(m, rec, p)
  BY <1>1 DEF NotYet
<1>. QED BY <1>2, <1>3 DEF p

\* CONNECTED and ERROR are no messages.
LEMMA HearOther ==
  ASSUME NEW s, NEW rec, NEW q \in Seq(BrokerFrames), NEW f, f.cmd # "MESSAGE"
  PROVE  /\ InOrder(s, rec, q) => InOrder(s, rec, Append(q, f))
         /\ \A m : NotYet(m, rec, q) => NotYet(m, rec, Append(q, f))
<1>. DEFINE p == Append(q, f)
<1>1. \A i \in DOMAIN p : (i \in DOMAIN q /\ p[i] = q[i]) \/ p[i] = f
  OBVIOUS
<1>. HIDE DEF p
<1>2. \A i \in DOMAIN p : p[i].cmd = "MESSAGE" => i \in DOMAIN q /\ p[i] = q[i]
  BY <1>1
<1>3. /\ InOrder(s, rec, q) => InOrder(s, rec, p)
      /\ \A m : NotYet(m, rec, q) => NotYet(m, rec, p)
  BY <1>2 DEF InOrder, NotYet
<1>. QED BY <1>3 DEF p

\* The message that is broadcast comes behind all others, for who was not written it yet.
LEMMA HearMessage ==
  ASSUME NEW s \in Seq(Msgs), s # <<>>, NEW rec, NEW q \in Seq(BrokerFrames),
         InOrder(s, rec, q), NotYet(s[Len(s)], rec, q)
  PROVE  InOrder(s, rec, Append(q, Message(s[Len(s)])))
<1>. DEFINE last == s[Len(s)]
            f == Message(last)
            p == Append(q, f)
<1>1. f.cmd = "MESSAGE" /\ f.msg = last
  BY DEF Message
<1>2. \A i \in DOMAIN p : \/ i \in DOMAIN q /\ p[i] = q[i] /\ i < Len(q) + 1 /\ i \in Nat
                          \/ i = Len(q) + 1 /\ p[i] = f
  OBVIOUS
<1>3. last \in Order!Range(s)
  <2>1. Len(s) \in DOMAIN s
    OBVIOUS
  <2>. QED BY <2>1 DEF Order!Range
<1>4. ASSUME NEW m \in Order!Range(s), m # last
      PROVE  Before(s, m, last)
  <2>1. PICK k \in DOMAIN s : s[k] = m
    BY DEF Order!Range
  <2>2. k < Len(s) /\ Len(s) \in DOMAIN s
    BY <1>4, <2>1
  <2>. QED BY <2>1, <2>2 DEF Before
<1>5. Len(q) \in Nat
  OBVIOUS
<1>. HIDE DEF p, f, last
<1>6. NotYet(last, rec, q)
  BY DEF last
<1>7. ASSUME NEW i \in DOMAIN p, NEW j \in DOMAIN p, i < j,
             p[i].cmd = "MESSAGE", p[j].cmd = "MESSAGE"
      PROVE  Before(s, p[i].msg, p[j].msg)
  <2>1. i \in DOMAIN q /\ p[i] = q[i]
    BY <1>2, <1>5, <1>7
  <2>. QED BY <1>1, <1>2, <1>4, <1>6, <1>7, <2>1 DEF InOrder, NotYet
<1>8. ASSUME NEW i \in DOMAIN rec, NEW j \in DOMAIN p, p[j].cmd = "MESSAGE"
      PROVE  Before(s, rec[i], p[j].msg)
  BY <1>1, <1>2, <1>4, <1>6, <1>8 DEF InOrder, NotYet
<1>9. \A i \in DOMAIN p : p[i].cmd = "MESSAGE" => p[i].msg \in Order!Range(s)
  BY <1>1, <1>2, <1>3 DEF InOrder
<1>10. InOrder(s, rec, p)
  BY <1>7, <1>8, <1>9 DEF InOrder
<1>. QED BY <1>10 DEF p, f, last

\* A broadcast that begins leaves the earlier ones in order, and nobody has its message.
LEMMA HearLonger ==
  ASSUME NEW s \in Seq(Msgs), NEW m \in Msgs, m \notin Order!Range(s), Once(s)
  PROVE  /\ Once(Append(s, m))
         /\ Order!Range(Append(s, m)) = Order!Range(s) \cup {m}
         /\ \A rec, q : InOrder(s, rec, q) => InOrder(Append(s, m), rec, q) /\ NotYet(m, rec, q)
<1>. DEFINE t == Append(s, m)
<1>1. /\ \A k \in DOMAIN s : k \in DOMAIN t /\ t[k] = s[k]
      /\ \A k \in DOMAIN t : k \in DOMAIN s \/ k = Len(s) + 1
      /\ Len(s) + 1 \in DOMAIN t /\ t[Len(s) + 1] = m
  OBVIOUS
<1>. HIDE DEF t
<1>2. \A k \in DOMAIN s : s[k] # m
  BY DEF Order!Range
<1>3. Once(t)
  BY <1>1, <1>2 DEF Once
<1>4. Order!Range(t) = Order!Range(s) \cup {m}
  BY <1>1 DEF Order!Range
<1>5. \A a, b : Before(s, a, b) => Before(t, a, b)
  BY <1>1 DEF Before
<1>6. ASSUME NEW rec, NEW q, InOrder(s, rec, q)
      PROVE  InOrder(t, rec, q) /\ NotYet(m, rec, q)
  BY <1>4, <1>5, <1>6 DEF InOrder, NotYet
<1>. QED BY <1>3, <1>4, <1>6 DEF t

-----------------------------------------------------------------------------
(* The types, and what is known of the broker by itself *)

\* The reaction to CONNECTED is well formed and holds no message.
LEMMA Reactions ==
  ASSUME NEW c \in Conns
  PROVE  /\ Subscriptions(c) \in Seq(ClientFrames)
         /\ \A i \in DOMAIN Subscriptions(c) : Subscriptions(c)[i].cmd # "SEND"
<1>1. Interests[c] \in Seq(Topics)
  BY ClientAssumptions
<1>2. \A i \in DOMAIN Interests[c] : Subscribe(Interests[c][i]) \in ClientFrames
  BY <1>1 DEF ClientFrames
<1>3. \A t : Subscribe(t).cmd # "SEND"
  BY DEF Subscribe
<1>. QED BY <1>1, <1>2, <1>3 DEF Subscriptions

\* The frames a client reads are frames of the broker.
LEMMA FrameRead ==
  ASSUME BTypeOK, NEW c \in Conns, toClient[c] # <<>>
  PROVE  /\ toClient[c] \in Seq(BrokerFrames)
         /\ Head(toClient[c]) \in BrokerFrames
         /\ Head(toClient[c]).cmd = "MESSAGE" => Head(toClient[c]).msg \in Msgs
  BY DEF BTypeOK, BrokerFrames

\* A message that is published is a message.
LEMMA FramePublished ==
  ASSUME NEW c \in Conns, NEW t \in Topics, NEW n \in 1 .. MaxMsgs[c]
  PROVE  Send(t, <<c, n>>) \in ClientFrames
  BY ClientAssumptions DEF ClientFrames

\* So is the one whose broadcast begins.
LEMMA FrameSent ==
  ASSUME BTypeOK, NEW c \in Conns, NextFrame(c, "SEND")
  PROVE  /\ toBroker[c] \in Seq(ClientFrames) /\ toBroker[c] # <<>>
         /\ Head(toBroker[c]).cmd = "SEND" /\ Head(toBroker[c]).msg \in Msgs
<1>1. toBroker[c] \in Seq(ClientFrames) /\ toBroker[c] # <<>>
  BY DEF BTypeOK, NextFrame
<1>2. Head(toBroker[c]) \in ClientFrames
  BY <1>1
<1>. QED BY <1>1, <1>2, Frames DEF NextFrame

\* Clients that number their messages are clients of the broker.
LEMMA BrokerHolds ==
  ASSUME CTypeOK, BrokerInv, CNext
  PROVE  BrokerInv'
<1>1. ASSUME NEW c \in Conns, NEW t \in Topics, Publish(c, t)
      PROVE  BrokerInv'
  <2>1. /\ published'[c] = published[c] + 1 /\ published[c] < MaxMsgs[c]
        /\ published[c] \in Nat /\ MaxMsgs[c] \in Nat
    BY <1>1, ClientAssumptions DEF Publish, CTypeOK
  <2>2. published'[c] \in 1 .. MaxMsgs[c]
    BY <2>1
  <2>3. <<Send(t, <<c, published'[c]>>)>> \in Seq(ClientFrames)
    BY <2>2, FramePublished
  <2>. QED BY <1>1, <2>3, ClientInv DEF Publish
<1>2. ASSUME NEW c \in Conns, Read(c)
      PROVE  BrokerInv'
  <2>1. (IF Head(toClient[c]) = Connected THEN Subscriptions(c) ELSE <<>>) \in Seq(ClientFrames)
    BY Reactions
  <2>. QED BY <1>2, <2>1, ClientInv DEF Read
<1>3. ASSUME NEW c \in Conns, Break(c)
      PROVE  BrokerInv'
  BY <1>3, ClientInv, LoseInv DEF Break
<1>4. ASSUME NEW c \in Conns, Open(c)
      PROVE  BrokerInv'
  BY <1>4, ClientInv
<1>5. CASE Handle
  BY <1>5, HandleInv, BroadcastInv, FinishInv DEF Handle, BrokerStep, HandlerStep
<1>6. CASE BrokerRestart
  BY <1>6, RestartInv
<1>. QED BY <1>1, <1>2, <1>3, <1>4, <1>5, <1>6 DEF CNext

\* What begins to be broadcast is what the thread that takes the lock has to handle.
LEMMA Begins ==
  ASSUME CTypeOK, BrokerInv, Handle
  PROVE  \/ UNCHANGED begun
         \/ \E c \in Conns : /\ BeginSend(c)
                             /\ begun' = Append(begun, Head(toBroker[c]).msg)
                             /\ Head(toBroker[c]).msg \in Msgs
<1>1. CASE \E c \in Conns : BeginSend(c)
  <2>1. PICK c \in Conns : BeginSend(c)
    BY <1>1
  <2>2. lock = NoConn /\ lock' = c /\ lock' # NoConn
    BY <2>1, NoConnFact DEF BeginSend
  <2>3. Head(toBroker[c]).msg \in Msgs
    BY <2>1, FrameSent DEF BeginSend, BrokerInv
  <2>. QED BY <2>1, <2>2, <2>3 DEF Handle
<1>2. CASE ~ \E c \in Conns : BeginSend(c)
  <2>1. lock' = lock \/ lock' = NoConn
    BY <1>2 DEF Handle, BrokerStep, HandlerStep, EngineConnect, EngineSubscribe, ServeSubscriber,
                ServeFails, Finish, EndSend
  <2>. QED BY <2>1 DEF Handle
<1>. QED BY <1>1, <1>2

\* The histories are of their types.
LEMMA TypesHold ==
  ASSUME CTypeOK, BrokerInv, CNext
  PROVE  CTypeOK'
<1>1. BTypeOK'
  BY BrokerHolds DEF BrokerInv
<1>2. ASSUME NEW c \in Conns, NEW t \in Topics, Publish(c, t)
      PROVE  CTypeOK'
  BY <1>1, <1>2 DEF Publish, CTypeOK
<1>3. ASSUME NEW c \in Conns, Read(c)
      PROVE  CTypeOK'
  <2>1. /\ toClient[c] # <<>> /\ UNCHANGED <<published, begun>>
        /\ received' = IF Head(toClient[c]).cmd = "MESSAGE"
                       THEN [received EXCEPT ![c] = Append(@, Head(toClient[c]).msg)]
                       ELSE received
    BY <1>3 DEF Read, Receive
  <2>2. received[c] \in Seq(Msgs) /\ received \in [Conns -> Seq(Msgs)]
    BY DEF CTypeOK
  <2>3. Head(toClient[c]).cmd = "MESSAGE" =>
          Append(received[c], Head(toClient[c]).msg) \in Seq(Msgs)
    BY <2>1, <2>2, FrameRead DEF CTypeOK
  <2>4. received' \in [Conns -> Seq(Msgs)]
    BY <2>1, <2>2, <2>3
  <2>. QED BY <1>1, <2>1, <2>4 DEF CTypeOK
<1>4. CASE Handle
  <2>1. begun' = begun \/ \E m \in Msgs : begun' = Append(begun, m)
    BY <1>4, Begins
  <2>2. begun \in Seq(Msgs) /\ \A m \in Msgs : Append(begun, m) \in Seq(Msgs)
    BY DEF CTypeOK
  <2>3. begun' \in Seq(Msgs)
    BY <2>1, <2>2
  <2>. QED BY <1>1, <1>4, <2>3 DEF Handle, CTypeOK
<1>5. CASE UNCHANGED <<published, begun, received>>
  BY <1>1, <1>5 DEF CTypeOK
<1>. QED BY <1>2, <1>3, <1>4, <1>5 DEF CNext, Break

-----------------------------------------------------------------------------
(* The steps of the clients *)

\* What a step does that begins no broadcast and writes no message to anyone.
LEMMA HearKeeps ==
  ASSUME HearInv, UNCHANGED begun, lock' # NoConn => lock' = lock /\ unserved' \subseteq unserved,
         lock' # NoConn => Head(toBroker'[lock]) = Head(toBroker[lock]),
         \A d \in Conns : InOrder(begun, received[d], toClient[d]) =>
                            InOrder(begun, received'[d], toClient'[d]),
         \A d \in Conns, m \in Msgs : lock' # NoConn /\ NotYet(m, received[d], toClient[d]) =>
                                        NotYet(m, received'[d], toClient'[d]),
         unserved \subseteq Conns, begun \in Seq(Msgs)
  PROVE  HearInv'
<1>1. begun # <<>> => begun[Len(begun)] \in Msgs
  OBVIOUS
<1>. QED BY <1>1 DEF HearInv

\* A connection that is made has published nothing yet.
LEMMA OpenKeeps ==
  ASSUME OrderInv, NEW c \in Conns, Open(c), UNCHANGED <<published, begun, received>>
  PROVE  PublishInv' /\ HearInv'
<1>1. /\ sock[c] = "new" /\ sock' = [sock EXCEPT ![c] = "open"]
      /\ toBroker' = [toBroker EXCEPT ![c] = <<Connect>>]
      /\ UNCHANGED <<engines, topics, lock, unserved, toClient>>
  BY DEF Open
<1>2. lock # c
  BY <1>1, NoConnFact DEF OrderInv, BrokerInv, LockDiscipline, NextFrame, Served
<1>3. /\ sock \in [Conns -> {"new", "open", "dead", "closed"}]
      /\ toBroker \in [Conns -> Seq(ClientFrames)]
      /\ begun \in Seq(Msgs) /\ unserved \subseteq Conns /\ lock \in Conns \cup {NoConn}
  BY DEF OrderInv, CTypeOK, BTypeOK
<1>4. \A past, busy : Waiting(c, <<Connect>>, 0, past, busy) /\ NoneMissing(c, <<Connect>>, 0, past)
  <2>1. \A i \in DOMAIN <<Connect>> : <<Connect>>[i].cmd # "SEND"
    BY DEF Connect
  <2>. QED BY <2>1 DEF Waiting, NoneMissing
<1>5. PublishInv'
  <2>1. published[c] = 0
    BY <1>1 DEF OrderInv, PublishInv
  <2>2. toBroker'[c] = <<Connect>> /\ \A d \in Conns \ {c} : toBroker'[d] = toBroker[d]
    BY <1>1, <1>3
  <2>3. sock'[c] = "open" /\ \A d \in Conns \ {c} : sock'[d] = sock[d]
    BY <1>1, <1>3
  <2>. QED BY <1>1, <1>4, <2>1, <2>2, <2>3 DEF OrderInv, PublishInv
<1>6. HearInv'
  BY <1>1, <1>2, <1>3, HearKeeps DEF OrderInv
<1>. QED BY <1>5, <1>6

\* A message is published behind those before it, and was not broadcast; or it is dropped.
LEMMA PublishKeeps ==
  ASSUME OrderInv, NEW c \in Conns, NEW t \in Topics, Publish(c, t)
  PROVE  PublishInv' /\ HearInv'
<1>. DEFINE msg == <<c, published[c] + 1>>
            frame == Send(t, msg)
<1>1. /\ sock[c] # "new" /\ published' = [published EXCEPT ![c] = @ + 1]
      /\ UNCHANGED <<begun, received, sock, engines, topics, lock, unserved, toClient>>
  BY DEF Publish, Write
<1>2. /\ published \in [Conns -> Nat] /\ toBroker \in [Conns -> Seq(ClientFrames)]
      /\ begun \in Seq(Msgs) /\ unserved \subseteq Conns /\ lock \in Conns \cup {NoConn}
  BY DEF OrderInv, CTypeOK, BTypeOK
<1>3. published'[c] = published[c] + 1 /\ \A d \in Conns \ {c} : published'[d] = published[d]
  BY <1>1, <1>2
<1>4. toBroker' = IF sock[c] = "open" THEN [toBroker EXCEPT ![c] = @ \o <<frame>>] ELSE toBroker
  <2>1. toBroker' = IF sock[c] = "open"
                    THEN [toBroker EXCEPT ![c] = @ \o <<Send(t, <<c, published'[c]>>)>>]
                    ELSE toBroker
    BY DEF Publish, Write
  <2>2. <<c, published'[c]>> = msg
    BY <1>3
  <2>3. Send(t, <<c, published'[c]>>) = frame
    BY <2>2 DEF Send
  <2>. QED BY <2>1, <2>3, Zenon
<1>5. frame.cmd = "SEND" /\ frame.msg = msg
  BY DEF Send
<1>6. msg \notin Order!Range(begun)
  <2>. SUFFICES ASSUME msg \in Order!Range(begun) PROVE FALSE
    OBVIOUS
  <2>1. PICK d \in Conns : \E n \in 1 .. published[d] : msg = <<d, n>>
    BY DEF OrderInv, PublishInv
  <2>. QED BY <1>2, <2>1
<1>. HIDE DEF frame, msg
<1>7. PublishInv'
  <2>1. ASSUME NEW m \in Order!Range(begun)
        PROVE  \E d \in Conns : \E n \in 1 .. published'[d] : m = <<d, n>>
    <3>1. PICK d \in Conns : \E n \in 1 .. published[d] : m = <<d, n>>
      BY DEF OrderInv, PublishInv
    <3>2. published[d] \in Nat /\ published'[d] \in {published[d], published[d] + 1}
      BY <1>2, <1>3
    <3>3. \A n \in 1 .. published[d] : n \in 1 .. published'[d]
      BY <3>2
    <3>. QED BY <3>1, <3>3
  <2>2. /\ Waiting(c, toBroker'[c], published'[c], Order!Range(begun), lock = c)
        /\ sock[c] = "open" => NoneMissing(c, toBroker'[c], published'[c], Order!Range(begun))
    <3>1. Waiting(c, toBroker[c], published[c], Order!Range(begun), lock = c)
      BY DEF OrderInv, PublishInv
    <3>2. CASE sock[c] = "open"
      <4>1. NoneMissing(c, toBroker[c], published[c], Order!Range(begun))
        BY <3>2 DEF OrderInv, PublishInv
      <4>2. toBroker'[c] = toBroker[c] \o <<frame>>
        BY <1>2, <1>4, <3>2
      <4>3. frame.msg = <<c, published[c] + 1>>
        BY <1>5 DEF msg
      <4>4. /\ Waiting(c, toBroker[c] \o <<frame>>, published[c] + 1, Order!Range(begun), lock = c)
            /\ NoneMissing(c, toBroker[c] \o <<frame>>, published[c] + 1, Order!Range(begun))
        BY <1>2, <1>5, <1>6, <3>1, <4>1, <4>3, WaitingNext
      <4>. QED BY <1>3, <4>2, <4>4
    <3>3. CASE sock[c] # "open"
      <4>1. \A n \in 1 .. published[c] : n \in 1 .. (published[c] + 1)
        BY <1>2
      <4>2. Waiting(c, toBroker[c], published[c] + 1, Order!Range(begun), lock = c)
        BY <3>1, <4>1 DEF Waiting, WaitsAt
      <4>. QED BY <1>3, <1>4, <3>3, <4>2
    <3>. QED BY <3>2, <3>3
  <2>3. \A d \in Conns \ {c} : toBroker'[d] = toBroker[d]
    BY <1>2, <1>4
  <2>. QED BY <1>1, <1>3, <2>1, <2>2, <2>3 DEF OrderInv, PublishInv
<1>8. HearInv'
  <2>1. lock # NoConn => Head(toBroker'[lock]) = Head(toBroker[lock])
    <3>. SUFFICES ASSUME lock # NoConn PROVE Head(toBroker'[lock]) = Head(toBroker[lock])
      OBVIOUS
    <3>1. lock \in Conns /\ toBroker[lock] # <<>> /\ toBroker[lock] \in Seq(ClientFrames)
      BY <1>2 DEF OrderInv, BrokerInv, LockDiscipline, NextFrame
    <3>2. toBroker'[lock] = toBroker[lock] \/ toBroker'[lock] = toBroker[lock] \o <<frame>>
      BY <1>2, <1>4, <3>1
    <3>. QED BY <3>1, <3>2
  <2>. QED BY <1>1, <1>2, <2>1, HearKeeps DEF OrderInv
<1>. QED BY <1>7, <1>8

\* A client reads what comes in order; its reaction holds no message.
LEMMA ReadKeeps ==
  ASSUME OrderInv, NEW c \in Conns, Read(c)
  PROVE  PublishInv' /\ HearInv'
<1>. DEFINE reaction == IF Head(toClient[c]) = Connected THEN Subscriptions(c) ELSE <<>>
<1>1. /\ toClient[c] # <<>>
      /\ toClient' = [toClient EXCEPT ![c] = Tail(@)]
      /\ toBroker' = [toBroker EXCEPT ![c] = @ \o reaction]
      /\ received' = IF Head(toClient[c]).cmd = "MESSAGE"
                     THEN [received EXCEPT ![c] = Append(@, Head(toClient[c]).msg)]
                     ELSE received
      /\ UNCHANGED <<sock, engines, topics, lock, unserved, published, begun>>
  BY DEF Read, Receive
<1>2. /\ toBroker \in [Conns -> Seq(ClientFrames)] /\ toClient \in [Conns -> Seq(BrokerFrames)]
      /\ received \in [Conns -> Seq(Msgs)] /\ begun \in Seq(Msgs)
      /\ unserved \subseteq Conns /\ lock \in Conns \cup {NoConn}
  BY DEF OrderInv, CTypeOK, BTypeOK
<1>3. reaction \in Seq(ClientFrames) /\ \A i \in DOMAIN reaction : reaction[i].cmd # "SEND"
  BY Reactions
<1>. HIDE DEF reaction
<1>4. /\ toBroker'[c] = toBroker[c] \o reaction
      /\ \A d \in Conns \ {c} : /\ toBroker'[d] = toBroker[d] /\ toClient'[d] = toClient[d]
                                /\ received'[d] = received[d]
      /\ toClient'[c] = Tail(toClient[c])
      /\ received'[c] = IF Head(toClient[c]).cmd = "MESSAGE"
                        THEN Append(received[c], Head(toClient[c]).msg) ELSE received[c]
  BY <1>1, <1>2
<1>5. PublishInv'
  <2>1. \A count, past, busy :
          /\ Waiting(c, toBroker[c], count, past, busy) =>
               Waiting(c, toBroker'[c], count, past, busy)
          /\ NoneMissing(c, toBroker[c], count, past) => NoneMissing(c, toBroker'[c], count, past)
    BY <1>2, <1>3, <1>4, WaitingMore
  <2>. QED BY <1>1, <1>4, <2>1 DEF OrderInv, PublishInv
<1>6. HearInv'
  <2>1. \A d \in Conns :
          /\ InOrder(begun, received[d], toClient[d]) => InOrder(begun, received'[d], toClient'[d])
          /\ \A m : NotYet(m, received[d], toClient[d]) => NotYet(m, received'[d], toClient'[d])
    BY <1>1, <1>2, <1>4, HearRead
  <2>2. lock # NoConn => Head(toBroker'[lock]) = Head(toBroker[lock])
    <3>. SUFFICES ASSUME lock # NoConn PROVE Head(toBroker'[lock]) = Head(toBroker[lock])
      OBVIOUS
    <3>1. lock \in Conns /\ toBroker[lock] # <<>> /\ toBroker[lock] \in Seq(ClientFrames)
      BY <1>2 DEF OrderInv, BrokerInv, LockDiscipline, NextFrame
    <3>. QED BY <1>3, <1>4, <3>1, AppendKeepsHead
  <2>. QED BY <1>1, <1>2, <2>1, <2>2, HearKeeps DEF OrderInv
<1>. QED BY <1>5, <1>6

\* What is lost leaves the rest as it was.
LEMMA BreakKeeps ==
  ASSUME OrderInv, NEW c \in Conns, Break(c)
  PROVE  PublishInv' /\ HearInv'
<1>1. /\ toBroker \in [Conns -> Seq(ClientFrames)] /\ toClient \in [Conns -> Seq(BrokerFrames)]
      /\ received \in [Conns -> Seq(Msgs)] /\ begun \in Seq(Msgs)
      /\ unserved \subseteq Conns /\ lock \in Conns \cup {NoConn}
      /\ sock \in [Conns -> {"new", "open", "dead", "closed"}]
  BY DEF OrderInv, CTypeOK, BTypeOK
<1>2. UNCHANGED <<engines, topics, lock, unserved, published, begun, received>>
  BY DEF Break, Lose, Misread
<1>3. CASE Lose(c)
  <2>1. PICK n \in 0 .. Len(toBroker[c]) : /\ lock = c => n > 0
                                           /\ toBroker' = [toBroker EXCEPT ![c] = SubSeq(@, 1, n)]
    BY <1>3 DEF Lose
  <2>2. /\ toClient' = [toClient EXCEPT ![c] = <<>>]
        /\ sock' = [sock EXCEPT ![c] = "dead"]
    BY <1>3 DEF Lose
  <2>3. /\ toBroker'[c] = SubSeq(toBroker[c], 1, n) /\ toClient'[c] = <<>> /\ sock'[c] = "dead"
        /\ \A d \in Conns \ {c} : /\ toBroker'[d] = toBroker[d] /\ toClient'[d] = toClient[d]
                                  /\ sock'[d] = sock[d]
    BY <1>1, <2>1, <2>2
  <2>4. PublishInv'
    <3>1. \A count, past, busy : Waiting(c, toBroker[c], count, past, busy) =>
                                   Waiting(c, toBroker'[c], count, past, busy)
      BY <1>1, <2>1, <2>3, WaitingPrefix
    <3>2. ASSUME NEW d \in Conns
          PROVE  /\ Waiting(d, toBroker'[d], published[d], Order!Range(begun), lock = d)
                 /\ sock'[d] = "new" => published[d] = 0
                 /\ sock'[d] = "open" =>
                      NoneMissing(d, toBroker'[d], published[d], Order!Range(begun))
      <4>1. CASE d = c
        BY <2>3, <3>1, <4>1 DEF OrderInv, PublishInv
      <4>2. CASE d # c
        BY <2>3, <4>2 DEF OrderInv, PublishInv
      <4>. QED BY <4>1, <4>2
    <3>. QED BY <1>2, <3>2 DEF OrderInv, PublishInv
  <2>5. \A d \in Conns :
          /\ InOrder(begun, received[d], toClient[d]) => InOrder(begun, received[d], toClient'[d])
          /\ \A m : NotYet(m, received[d], toClient[d]) => NotYet(m, received[d], toClient'[d])
    <3>1. DOMAIN <<>> = {}
      OBVIOUS
    <3>. QED BY <2>3, <3>1 DEF InOrder, NotYet
  <2>6. lock # NoConn => Head(toBroker'[lock]) = Head(toBroker[lock])
    <3>1. CASE lock = c
      <4>1. toBroker[c] \in Seq(ClientFrames) /\ n > 0
        BY <1>1, <2>1, <3>1
      <4>. QED BY <2>1, <2>3, <3>1, <4>1, PrefixKeepsHead
    <3>2. CASE lock # c
      BY <1>1, <2>3, <3>2
    <3>. QED BY <3>1, <3>2
  <2>7. HearInv'
    BY <1>1, <1>2, <2>5, <2>6, HearKeeps DEF OrderInv
  <2>. QED BY <2>4, <2>7
<1>4. ASSUME NEW n \in 1 .. Len(toClient[c]), Misread(c, n)
      PROVE  PublishInv' /\ HearInv'
  <2>1. UNCHANGED <<sock, toBroker>>
    BY <1>4 DEF Misread
  <2>2. /\ toClient'[c] = SubSeq(toClient[c], n + 1, Len(toClient[c]))
        /\ \A d \in Conns \ {c} : toClient'[d] = toClient[d]
    BY <1>1, <1>4 DEF Misread
  <2>3. \A d \in Conns :
          /\ InOrder(begun, received[d], toClient[d]) => InOrder(begun, received[d], toClient'[d])
          /\ \A m : NotYet(m, received[d], toClient[d]) => NotYet(m, received[d], toClient'[d])
    <3>1. toClient[c] \in Seq(BrokerFrames) /\ received[c] \in Seq(Msgs)
      BY <1>1
    <3>2. /\ InOrder(begun, received[c], toClient[c]) =>
               InOrder(begun, received[c], SubSeq(toClient[c], n + 1, Len(toClient[c])))
          /\ \A m : NotYet(m, received[c], toClient[c]) =>
                      NotYet(m, received[c], SubSeq(toClient[c], n + 1, Len(toClient[c])))
      BY <3>1, HearLess
    <3>. QED BY <2>2, <3>2
  <2>4. PublishInv'
    BY <1>2, <2>1 DEF OrderInv, PublishInv
  <2>5. HearInv'
    BY <1>1, <1>2, <2>1, <2>3, HearKeeps DEF OrderInv
  <2>. QED BY <2>4, <2>5
<1>. QED BY <1>3, <1>4 DEF Break

-----------------------------------------------------------------------------
(* The steps of the broker *)

\* A frame that is handled leaves the queue when it is no message, or its broadcast is over.
LEMMA DoneKeeps ==
  ASSUME OrderInv, NEW c \in Conns, toBroker[c] # <<>>, Done(c),
         UNCHANGED <<sock, published, begun>>,
         Head(toBroker[c]).cmd = "SEND" => Head(toBroker[c]).msg \in Order!Range(begun),
         lock' # c, \A d \in Conns \ {c} : lock' = d <=> lock = d
  PROVE  PublishInv'
<1>1. /\ toBroker \in [Conns -> Seq(ClientFrames)] /\ toBroker[c] \in Seq(ClientFrames)
      /\ published \in [Conns -> Nat] /\ published[c] \in Nat
  BY DEF OrderInv, CTypeOK, BTypeOK
<1>2. toBroker'[c] = Tail(toBroker[c]) /\ \A d \in Conns \ {c} : toBroker'[d] = toBroker[d]
  BY <1>1 DEF Done
<1>3. Waiting(c, Tail(toBroker[c]), published[c], Order!Range(begun), FALSE)
  BY <1>1, WaitingTail DEF OrderInv, PublishInv
<1>4. NoneMissing(c, toBroker[c], published[c], Order!Range(begun)) =>
        NoneMissing(c, Tail(toBroker[c]), published[c], Order!Range(begun))
  BY <1>1, MissingTail
<1>5. ASSUME NEW d \in Conns
      PROVE  /\ Waiting(d, toBroker'[d], published[d], Order!Range(begun), lock' = d)
             /\ sock[d] = "new" => published[d] = 0
             /\ sock[d] = "open" => NoneMissing(d, toBroker'[d], published[d], Order!Range(begun))
  <2>1. CASE d = c
    <3>1. (lock' = d) = FALSE
      BY <2>1
    <3>. QED BY <1>2, <1>3, <1>4, <2>1, <3>1 DEF OrderInv, PublishInv
  <2>2. CASE d # c
    <3>1. (lock' = d) = (lock = d)
      BY <2>2
    <3>. QED BY <1>2, <2>2, <3>1 DEF OrderInv, PublishInv
  <2>. QED BY <2>1, <2>2
<1>. QED BY <1>5 DEF OrderInv, PublishInv

\* CONNECTED and ERROR are replies nobody hears as messages.
LEMMA ReplyHeard ==
  ASSUME BTypeOK, NEW c \in Conns, NEW f, f.cmd # "MESSAGE", toClient' = Reply(c, f)
  PROVE  \A d \in Conns :
           /\ InOrder(begun, received[d], toClient[d]) => InOrder(begun, received[d], toClient'[d])
           /\ \A m : NotYet(m, received[d], toClient[d]) => NotYet(m, received[d], toClient'[d])
<1>1. toClient \in [Conns -> Seq(BrokerFrames)] /\ toClient[c] \in Seq(BrokerFrames)
  BY DEF BTypeOK
<1>2. /\ toClient'[c] = toClient[c] \/ toClient'[c] = Append(toClient[c], f)
      /\ \A d \in Conns \ {c} : toClient'[d] = toClient[d]
  BY <1>1 DEF Reply
<1>. QED BY <1>1, <1>2, HearOther

\* CONNECT and SUBSCRIBE are no messages, and their thread does not hold the lock.
LEMMA HandleKeeps ==
  ASSUME OrderInv, NEW c \in Conns, EngineConnect(c) \/ EngineSubscribe(c),
         UNCHANGED <<begun, published, received>>
  PROVE  PublishInv' /\ HearInv'
<1>1. /\ toBroker[c] # <<>> /\ Head(toBroker[c]).cmd # "SEND" /\ Done(c)
      /\ UNCHANGED <<sock, lock, unserved>>
  BY DEF EngineConnect, EngineSubscribe, NextFrame
<1>2. lock # c
  BY <1>1, NoConnFact DEF OrderInv, BrokerInv, LockDiscipline, NextFrame
<1>3. PublishInv'
  BY <1>1, <1>2, DoneKeeps
<1>4. \A d \in Conns :
        /\ InOrder(begun, received[d], toClient[d]) => InOrder(begun, received[d], toClient'[d])
        /\ \A m : NotYet(m, received[d], toClient[d]) => NotYet(m, received[d], toClient'[d])
  <2>1. Connected.cmd # "MESSAGE"
    BY DEF Connected
  <2>2. toClient' = Reply(c, Connected) \/ toClient' = toClient
    BY DEF EngineConnect, EngineSubscribe
  <2>. QED BY <2>1, <2>2, ReplyHeard DEF OrderInv, CTypeOK
<1>5. lock # NoConn => Head(toBroker'[lock]) = Head(toBroker[lock])
  BY <1>1, <1>2 DEF Done, OrderInv, CTypeOK, BTypeOK
<1>6. HearInv'
  BY <1>1, <1>4, <1>5, HearKeeps DEF OrderInv, CTypeOK, BTypeOK
<1>. QED BY <1>3, <1>6

\* The message whose broadcast begins is the next of its publisher, and new to everyone.
LEMMA BeginSendKeeps ==
  ASSUME OrderInv, NEW c \in Conns, BeginSend(c), begun' = Append(begun, Head(toBroker[c]).msg),
         UNCHANGED <<published, received>>
  PROVE  PublishInv' /\ HearInv'
<1>. DEFINE m == Head(toBroker[c]).msg
<1>1. /\ NextFrame(c, "SEND") /\ lock = NoConn /\ lock' = c
      /\ UNCHANGED <<sock, toBroker, toClient>>
  BY DEF BeginSend
<1>2. /\ toBroker[c] \in Seq(ClientFrames) /\ toBroker[c] # <<>>
      /\ Head(toBroker[c]).cmd = "SEND" /\ m \in Msgs
  BY <1>1, FrameSent DEF OrderInv, CTypeOK
<1>3. /\ begun \in Seq(Msgs) /\ unserved' \subseteq Conns
      /\ published \in [Conns -> Nat] /\ published[c] \in Nat
  <2>1. CTypeOK /\ BrokerInv'
    BY BroadcastInv DEF OrderInv
  <2>. QED BY <2>1 DEF CTypeOK, BrokerInv, BTypeOK
<1>4. lock # c
  BY <1>1, NoConnFact
<1>5. Waiting(c, toBroker[c], published[c], Order!Range(begun), FALSE)
  <2>1. (lock = c) = FALSE
    BY <1>4
  <2>. QED BY <2>1 DEF OrderInv, PublishInv
<1>6. /\ m \notin Order!Range(begun)
      /\ \E n \in 1 .. published[c] : m = <<c, n>>
      /\ Waiting(c, toBroker[c], published[c], Order!Range(begun) \cup {m}, TRUE)
  <2>1. /\ m \notin Order!Range(begun)
        /\ \E n \in 1 .. published[c] : /\ m = <<c, n>>
                                        /\ \A k \in 1 .. (n - 1) : <<c, k>> \in Order!Range(begun)
        /\ Waiting(c, toBroker[c], published[c], Order!Range(begun) \cup {m}, TRUE)
    BY <1>2, <1>5, WaitingFirst, Zenon
  <2>. QED BY <2>1
<1>. HIDE DEF m
<1>7. begun' = Append(begun, m)
  BY DEF m
<1>8. /\ Once(begun')
      /\ Order!Range(begun') = Order!Range(begun) \cup {m}
      /\ \A rec, q : InOrder(begun, rec, q) => InOrder(begun', rec, q) /\ NotYet(m, rec, q)
  <2>1. Once(begun)
    BY DEF OrderInv, HearInv
  <2>2. /\ Once(Append(begun, m))
        /\ Order!Range(Append(begun, m)) = Order!Range(begun) \cup {m}
        /\ \A rec, q : InOrder(begun, rec, q) =>
                         InOrder(Append(begun, m), rec, q) /\ NotYet(m, rec, q)
    BY <1>2, <1>3, <1>6, <2>1, HearLonger, Zenon
  <2>. QED BY <1>7, <2>2, Zenon
<1>9. PublishInv'
  <2>1. ASSUME NEW d \in Conns
        PROVE  /\ Waiting(d, toBroker[d], published[d], Order!Range(begun'), lock' = d)
               /\ sock[d] = "new" => published[d] = 0
               /\ sock[d] = "open" =>
                    NoneMissing(d, toBroker[d], published[d], Order!Range(begun'))
    <3>1. sock[d] = "open" => NoneMissing(d, toBroker[d], published[d], Order!Range(begun'))
      BY <1>8 DEF OrderInv, PublishInv, NoneMissing
    <3>2. CASE d = c
      <4>1. (lock' = d) = TRUE
        BY <1>1, <3>2
      <4>. QED BY <1>6, <1>8, <3>1, <3>2, <4>1 DEF OrderInv, PublishInv
    <3>3. CASE d # c
      <4>1. (lock' = d) = (lock = d)
        BY <1>1, <3>3, NoConnFact
      <4>2. Waiting(d, toBroker[d], published[d], Order!Range(begun), lock = d)
        BY DEF OrderInv, PublishInv
      <4>3. Waiting(d, toBroker[d], published[d], Order!Range(begun) \cup {m}, lock = d)
        <5>1. PICK n \in 1 .. published[c] : m = <<c, n>>
          BY <1>6
        <5>2. Waiting(d, toBroker[d], published[d], Order!Range(begun) \cup {<<c, n>>}, lock = d)
          BY <3>3, <4>2, WaitingOthers, Zenon
        <5>. QED BY <5>1, <5>2, Zenon
      <4>. QED BY <1>8, <3>1, <4>1, <4>3 DEF OrderInv, PublishInv
    <3>. QED BY <3>2, <3>3
  <2>2. \A k \in Order!Range(begun') : \E d \in Conns : \E n \in 1 .. published[d] : k = <<d, n>>
    BY <1>6, <1>8 DEF OrderInv, PublishInv
  <2>. QED BY <1>1, <2>1, <2>2 DEF PublishInv
<1>10. HearInv'
  <2>1. begun' # <<>> /\ begun'[Len(begun')] = m
    BY <1>2, <1>3, <1>7
  <2>2. m = Head(toBroker'[lock']).msg
    BY <1>1 DEF m
  <2>3. \A d \in Conns : InOrder(begun, received[d], toClient[d])
    BY DEF OrderInv, HearInv
  <2>. QED BY <1>1, <1>3, <1>8, <2>1, <2>2, <2>3 DEF HearInv
<1>. QED BY <1>9, <1>10

\* A subscriber that is written to has heard nothing later.
LEMMA ServeKeeps ==
  ASSUME OrderInv, NEW c \in Conns, ServeSubscriber(c), UNCHANGED <<begun, published, received>>
  PROVE  PublishInv' /\ HearInv'
<1>1. /\ lock # NoConn /\ c \in unserved /\ unserved' = unserved \ {c}
      /\ toClient' = Reply(c, Message(Head(toBroker[lock]).msg))
      /\ UNCHANGED <<sock, lock, toBroker>>
  BY DEF ServeSubscriber
<1>2. PublishInv'
  BY <1>1 DEF OrderInv, PublishInv
<1>3. /\ toClient \in [Conns -> Seq(BrokerFrames)] /\ toClient[c] \in Seq(BrokerFrames)
      /\ begun \in Seq(Msgs) /\ unserved \subseteq Conns
  BY DEF OrderInv, CTypeOK, BTypeOK
<1>4. begun # <<>> /\ begun[Len(begun)] = Head(toBroker[lock]).msg
  BY <1>1 DEF OrderInv, HearInv
<1>5. /\ toClient'[c] \in {toClient[c], Append(toClient[c], Message(begun[Len(begun)]))}
      /\ \A d \in Conns \ {c} : toClient'[d] = toClient[d]
  BY <1>1, <1>3, <1>4 DEF Reply
<1>6. InOrder(begun, received[c], Append(toClient[c], Message(begun[Len(begun)])))
  BY <1>1, <1>3, <1>4, HearMessage DEF OrderInv, HearInv
<1>7. \A d \in Conns : InOrder(begun, received[d], toClient'[d])
  BY <1>5, <1>6 DEF OrderInv, HearInv
<1>8. \A d \in unserved' : NotYet(begun[Len(begun)], received[d], toClient'[d])
  BY <1>1, <1>3, <1>5 DEF OrderInv, HearInv
<1>9. HearInv'
  BY <1>1, <1>4, <1>7, <1>8 DEF OrderInv, HearInv
<1>. QED BY <1>2, <1>9

\* A broadcast that ends, or fails, takes the message it was about from its queue.
LEMMA EndKeeps ==
  ASSUME OrderInv, EndSend \/ \E d \in Conns : ServeFails(d),
         UNCHANGED <<begun, published, received>>
  PROVE  PublishInv' /\ HearInv'
<1>1. lock # NoConn /\ Done(lock) /\ lock' = NoConn /\ UNCHANGED sock
  BY DEF EndSend, ServeFails
<1>2. lock \in Conns /\ toBroker[lock] # <<>>
  BY <1>1 DEF OrderInv, CTypeOK, BTypeOK, BrokerInv, LockDiscipline, NextFrame
<1>3. Head(toBroker[lock]).msg \in Order!Range(begun)
  <2>1. begun # <<>> /\ begun[Len(begun)] = Head(toBroker[lock]).msg /\ begun \in Seq(Msgs)
    BY <1>1 DEF OrderInv, HearInv, CTypeOK
  <2>2. Len(begun) \in DOMAIN begun
    BY <2>1
  <2>. QED BY <2>1, <2>2 DEF Order!Range
<1>4. PublishInv'
  BY <1>1, <1>2, <1>3, DoneKeeps, NoConnFact
<1>5. \A d \in Conns :
        InOrder(begun, received[d], toClient[d]) => InOrder(begun, received[d], toClient'[d])
  <2>1. Error.cmd # "MESSAGE"
    BY DEF Error
  <2>2. toClient' = Reply(lock, Error) \/ toClient' = toClient
    BY DEF EndSend, ServeFails
  <2>. QED BY <1>2, <2>1, <2>2, ReplyHeard DEF OrderInv, CTypeOK
<1>6. HearInv'
  BY <1>1, <1>5 DEF OrderInv, HearInv
<1>. QED BY <1>4, <1>6

\* The end of a thread, or of the broker, leaves what was heard.
LEMMA FinishKeeps ==
  ASSUME OrderInv, BrokerRestart \/ \E c \in Conns : Finish(c),
         UNCHANGED <<begun, published, received>>
  PROVE  PublishInv' /\ HearInv'
<1>1. /\ sock \in [Conns -> {"new", "open", "dead", "closed"}]
      /\ toBroker \in [Conns -> Seq(ClientFrames)]
  BY DEF OrderInv, CTypeOK, BTypeOK
<1>2. CASE \E c \in Conns : Finish(c)
  <2>1. PICK c \in Conns : Finish(c)
    BY <1>2
  <2>2. /\ \A d \in Conns : sock'[d] = sock[d] \/ sock'[d] = "closed"
        /\ UNCHANGED <<lock, unserved, toBroker, toClient>>
    BY <1>1, <2>1 DEF Finish
  <2>3. PublishInv'
    BY <2>2 DEF OrderInv, PublishInv
  <2>4. HearInv'
    BY <2>2 DEF OrderInv, HearInv
  <2>. QED BY <2>3, <2>4
<1>3. CASE BrokerRestart
  <2>1. /\ \A d \in Conns : sock'[d] = sock[d] \/ sock'[d] = "closed"
        /\ lock' = NoConn
        /\ \A d \in Conns : toBroker'[d] = <<>> /\ toClient'[d] = <<>>
        /\ \A d \in Conns : sock'[d] # "open"
    BY <1>1, <1>3 DEF BrokerRestart, Served
  <2>2. DOMAIN <<>> = {}
    OBVIOUS
  <2>3. PublishInv'
    BY <2>1, <2>2 DEF OrderInv, PublishInv, Waiting
  <2>4. HearInv'
    BY <2>1, <2>2 DEF OrderInv, HearInv, InOrder
  <2>. QED BY <2>3, <2>4
<1>. QED BY <1>2, <1>3

-----------------------------------------------------------------------------
(* Theorems *)

\* Before any connection nothing is published, broadcast or heard.
LEMMA OrderInit == CInit => OrderInv
<1>. SUFFICES ASSUME CInit PROVE OrderInv
  OBVIOUS
<1>1. BrokerInv
  BY InitInv DEF CInit
<1>2. CTypeOK
  BY <1>1 DEF CInit, CTypeOK, BrokerInv
<1>3. /\ begun = <<>> /\ lock = NoConn
      /\ \A c \in Conns : /\ sock[c] = "new" /\ toBroker[c] = <<>> /\ toClient[c] = <<>>
                          /\ published[c] = 0 /\ received[c] = <<>>
  BY DEF CInit, BInit
<1>4. DOMAIN <<>> = {}
  OBVIOUS
<1>5. PublishInv
  BY <1>3, <1>4 DEF PublishInv, Waiting, Order!Range
<1>6. HearInv
  BY <1>3, <1>4 DEF HearInv, Once, InOrder
<1>. QED BY <1>1, <1>2, <1>5, <1>6 DEF OrderInv

\* No step of the clients or of the broker breaks the order.
LEMMA OrderNext == OrderInv /\ [CNext]_cvars => OrderInv'
<1>. SUFFICES ASSUME OrderInv, [CNext]_cvars PROVE OrderInv'
  OBVIOUS
<1>1. CASE UNCHANGED cvars
  <2>1. UNCHANGED <<sock, lock, unserved, toBroker, toClient, published, begun, received>>
    BY <1>1 DEF cvars, bvars
  <2>2. PublishInv' /\ HearInv'
    BY <2>1 DEF OrderInv, PublishInv, HearInv
  <2>3. CTypeOK'
    BY <1>1 DEF cvars, bvars, OrderInv, CTypeOK, BTypeOK
  <2>4. BrokerInv'
    <3>1. UNCHANGED bvars
      BY <1>1 DEF cvars
    <3>. QED BY <3>1, NextInv DEF OrderInv
  <2>. QED BY <2>2, <2>3, <2>4 DEF OrderInv
<1>2. CASE CNext
  <2>1. BrokerInv' /\ CTypeOK'
    BY <1>2, BrokerHolds, TypesHold DEF OrderInv
  <2>. SUFFICES PublishInv' /\ HearInv'
    BY <2>1 DEF OrderInv
  <2>2. ASSUME NEW c \in Conns,
               \/ Open(c) /\ UNCHANGED <<published, begun, received>>
               \/ \E t \in Topics : Publish(c, t)
               \/ Read(c)
               \/ Break(c)
        PROVE  PublishInv' /\ HearInv'
    BY <2>2, OpenKeeps, PublishKeeps, ReadKeeps, BreakKeeps
  <2>3. CASE Handle
    <3>1. BrokerStep /\ UNCHANGED <<published, received>>
      BY <2>3 DEF Handle
    <3>2. CASE UNCHANGED begun
      <4>1. ~ \E c \in Conns : BeginSend(c)
        <5>. SUFFICES ASSUME NEW c \in Conns, BeginSend(c) PROVE FALSE
          OBVIOUS
        <5>1. begun' = Append(begun, Head(toBroker[c]).msg)
          BY <2>3, NoConnFact DEF Handle, BeginSend
        <5>2. begun \in Seq(Msgs)
          BY DEF OrderInv, CTypeOK
        <5>3. Len(Append(begun, Head(toBroker[c]).msg)) = Len(begun) + 1 /\ Len(begun) \in Nat
          BY <5>2
        <5>. QED BY <3>2, <5>1, <5>3
      <4>. QED BY <3>1, <3>2, <4>1, HandleKeeps, ServeKeeps, EndKeeps, FinishKeeps
               DEF BrokerStep, HandlerStep
    <3>3. CASE \E c \in Conns : BeginSend(c) /\ begun' = Append(begun, Head(toBroker[c]).msg)
      BY <3>1, <3>3, BeginSendKeeps
    <3>. QED BY <2>3, <3>2, <3>3, Begins DEF OrderInv
  <2>4. CASE BrokerRestart /\ UNCHANGED <<published, begun, received>>
    BY <2>4, FinishKeeps
  <2>. QED BY <1>2, <2>2, <2>3, <2>4 DEF CNext
<1>. QED BY <1>1, <1>2

\* OrderInv holds in every state of broker and clients.
THEOREM OrderInvariance == CSpec => []OrderInv
  BY OrderInit, OrderNext, PTL DEF CSpec

\* The broker, its queues and the histories are of their types.
THEOREM ClientsTypeCorrect == CSpec => []CTypeOK
<1>1. OrderInv => CTypeOK
  BY DEF OrderInv
<1>. QED BY <1>1, OrderInvariance, PTL

\* What is proved of the broker and arbitrary clients holds with these.
THEOREM ClientsKeepBroker == CSpec => []NoLeakedSubscriber /\ []LockDiscipline
<1>1. OrderInv => NoLeakedSubscriber /\ LockDiscipline
  BY DEF OrderInv, BrokerInv
<1>. QED BY <1>1, OrderInvariance, PTL

\* Two clients read the same messages in the same order, and each once, for any number of
\* clients, topics and messages, whoever disconnects or misreads, and through restarts.
THEOREM SameOrder == CSpec => []SameOrderEverywhere
<1>1. ASSUME OrderInv, NEW c \in Conns, NEW d \in Conns,
             NEW i \in DOMAIN received[c], NEW j \in DOMAIN received[c], i < j,
             NEW k \in DOMAIN received[d], NEW l \in DOMAIN received[d], k < l,
             received[c][i] = received[d][l], received[c][j] = received[d][k]
      PROVE  FALSE
  <2>1. /\ Before(begun, received[c][i], received[c][j])
        /\ Before(begun, received[d][k], received[d][l])
    BY <1>1 DEF OrderInv, HearInv, InOrder
  <2>2. PICK x \in DOMAIN begun, y \in DOMAIN begun :
          x < y /\ begun[x] = received[c][i] /\ begun[y] = received[c][j]
    BY <2>1 DEF Before
  <2>3. PICK v \in DOMAIN begun, w \in DOMAIN begun :
          v < w /\ begun[v] = received[d][k] /\ begun[w] = received[d][l]
    BY <2>1 DEF Before
  <2>4. x = w /\ y = v
    BY <1>1, <2>2, <2>3 DEF OrderInv, HearInv, Once
  <2>5. DOMAIN begun = 1 .. Len(begun)
    BY <1>1 DEF OrderInv, CTypeOK
  <2>. QED BY <2>2, <2>3, <2>4, <2>5
<1>2. OrderInv => SameOrderEverywhere
  BY <1>1 DEF SameOrderEverywhere
<1>. QED BY <1>2, OrderInvariance, PTL

-----------------------------------------------------------------------------
(* The order of messages that the broker promises *)

\* A message that begins to be broadcast is the next one of its publisher.
LEMMA BeginSendOrders ==
  ASSUME OrderInv, NEW c \in Conns, BeginSend(c), begun' = Append(begun, Head(toBroker[c]).msg),
         UNCHANGED <<published, received>>
  PROVE  \E n \in 1 .. published[c] : Order!Broadcast(c, n)
<1>1. NextFrame(c, "SEND") /\ lock # c
  BY NoConnFact DEF BeginSend
<1>2. /\ toBroker[c] \in Seq(ClientFrames) /\ toBroker[c] # <<>>
      /\ Head(toBroker[c]).cmd = "SEND"
  BY <1>1, FrameSent DEF OrderInv, CTypeOK
<1>3. Waiting(c, toBroker[c], published[c], Order!Range(begun), FALSE)
  <2>1. (lock = c) = FALSE
    BY <1>1
  <2>. QED BY <2>1 DEF OrderInv, PublishInv
<1>4. /\ Head(toBroker[c]).msg \notin Order!Range(begun)
      /\ \E n \in 1 .. published[c] : /\ Head(toBroker[c]).msg = <<c, n>>
                                      /\ \A k \in 1 .. (n - 1) : <<c, k>> \in Order!Range(begun)
  BY <1>2, <1>3, WaitingFirst, Zenon
<1>. QED BY <1>4 DEF Order!Broadcast

\* A message that is read is one that was broadcast behind all the client had read.
LEMMA ReadHears ==
  ASSUME OrderInv, NEW c \in Conns, Read(c)
  PROVE  \/ \E k \in DOMAIN begun : Order!Hear(c, k)
         \/ UNCHANGED <<published, begun, received>>
<1>1. /\ toClient[c] # <<>> /\ UNCHANGED <<published, begun>>
      /\ received' = IF Head(toClient[c]).cmd = "MESSAGE"
                     THEN [received EXCEPT ![c] = Append(@, Head(toClient[c]).msg)]
                     ELSE received
  BY DEF Read, Receive
<1>2. CASE Head(toClient[c]).cmd = "MESSAGE"
  <2>. DEFINE m == Head(toClient[c]).msg
  <2>1. 1 \in DOMAIN toClient[c] /\ toClient[c][1] = Head(toClient[c])
    BY <1>1 DEF OrderInv, CTypeOK, BTypeOK
  <2>2. InOrder(begun, received[c], toClient[c]) /\ Once(begun)
    BY DEF OrderInv, HearInv
  <2>3. /\ m \in Order!Range(begun)
        /\ \A i \in DOMAIN received[c] : Before(begun, received[c][i], m)
    BY <1>2, <2>1, <2>2 DEF InOrder
  <2>. HIDE DEF m
  <2>4. PICK k \in DOMAIN begun : begun[k] = m
    BY <2>3 DEF Order!Range
  <2>5. ASSUME NEW i \in DOMAIN received[c], NEW l \in DOMAIN begun, begun[l] = received[c][i]
        PROVE  l < k
    <3>1. PICK x \in DOMAIN begun, y \in DOMAIN begun :
            x < y /\ begun[x] = received[c][i] /\ begun[y] = m
      BY <2>3 DEF Before
    <3>. QED BY <2>2, <2>4, <2>5, <3>1 DEF Once
  <2>6. received' = [received EXCEPT ![c] = Append(@, begun[k])]
    BY <1>1, <1>2, <2>4 DEF m
  <2>. QED BY <1>1, <2>5, <2>6 DEF Order!Hear
<1>3. CASE Head(toClient[c]).cmd # "MESSAGE"
  BY <1>1, <1>3
<1>. QED BY <1>2, <1>3

\* Every step of broker and clients is one of the promised order, or leaves it alone.
LEMMA OrderStep ==
  ASSUME OrderInv, [CNext]_cvars
  PROVE  [Order!Next]_(Order!vars)
<1>1. ASSUME NEW c \in Conns, NEW t \in Topics, Publish(c, t)
      PROVE  Order!Next
  BY <1>1 DEF Publish, Order!Publish, Order!Next
<1>2. ASSUME NEW c \in Conns, Read(c)
      PROVE  [Order!Next]_(Order!vars)
  BY <1>2, ReadHears DEF Order!Next, Order!vars
<1>3. CASE Handle
  <2>1. UNCHANGED <<published, received>>
    BY <1>3 DEF Handle
  <2>2. CASE \E c \in Conns : BeginSend(c) /\ begun' = Append(begun, Head(toBroker[c]).msg)
    BY <2>1, <2>2, BeginSendOrders DEF Order!Next
  <2>3. CASE UNCHANGED begun
    BY <2>1, <2>3 DEF Order!vars
  <2>. QED BY <1>3, <2>2, <2>3, Begins DEF OrderInv
<1>4. CASE UNCHANGED <<published, begun, received>>
  BY <1>4 DEF Order!vars
<1>5. CASE UNCHANGED cvars
  BY <1>4, <1>5 DEF cvars
<1>. QED BY <1>1, <1>2, <1>3, <1>4, <1>5 DEF CNext, Break

\* The broker implements the order of messages it promises: one order of them all, that of
\* each publisher without a gap, in which everyone hears what it hears.
THEOREM OrderIsKept == CSpec => ImplementsOrder
<1>1. CInit => Order!Init
  BY DEF CInit, Order!Init
<1>2. OrderInv /\ [CNext]_cvars => [Order!Next]_(Order!vars)
  BY OrderStep
<1>. QED BY <1>1, <1>2, OrderInvariance, PTL DEF CSpec, ImplementsOrder, Order!Spec
=============================================================================
