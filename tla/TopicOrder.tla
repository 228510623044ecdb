----------------------------- MODULE TopicOrder ------------------------------
(***************************************************************************)
(* What the broker promises its clients about the order of messages: there *)
(* is one order of all messages, whatever their topics, in which those of  *)
(* each client come as it published them and without a gap; and what a     *)
(* client hears, it hears in that order and once.  That it hears a message *)
(* at all is not promised, nor that one is broadcast.                      *)
(***************************************************************************)
EXTENDS Naturals, Sequences, Functions

CONSTANT Clients

VARIABLES published,    \* messages each client has published so far
          order,        \* the messages broadcast, <<client, number>>
          heard         \* what each client has heard, in its order

vars == <<published, order, heard>>

Init == /\ published = [c \in Clients |-> 0]
        /\ order = <<>>
        /\ heard = [c \in Clients |-> <<>>]

Publish(c) == /\ published' = [published EXCEPT ![c] = @ + 1]
              /\ UNCHANGED <<order, heard>>

Broadcast(c, n) == /\ <<c, n>> \notin Range(order)
                   /\ \A k \in 1 .. (n - 1) : <<c, k>> \in Range(order)
                   /\ order' = Append(order, <<c, n>>)
                   /\ UNCHANGED <<published, heard>>

\* c hears the message at place k, which is behind all it heard before.
Hear(c, k) ==
  /\ \A i \in DOMAIN heard[c], l \in DOMAIN order : order[l] = heard[c][i] => l < k
  /\ heard' = [heard EXCEPT ![c] = Append(@, order[k])]
  /\ UNCHANGED <<published, order>>

Next == \E c \in Clients : \/ Publish(c)
                           \/ \E n \in 1 .. published[c] : Broadcast(c, n)
                           \/ \E k \in DOMAIN order : Hear(c, k)

Spec == Init /\ [][Next]_vars
=============================================================================
