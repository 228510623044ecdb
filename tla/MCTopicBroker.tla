--------------------------- MODULE MCTopicBroker -----------------------------
(***************************************************************************)
(* Clients of the broker that all subscribe to one topic and publish a few *)
(* messages on it: the eager ones two, the other publishers one.           *)
(***************************************************************************)
EXTENDS TopicClients

CONSTANTS Publishers, Eager

Topic == "/topic/t"
MCTopics == {Topic}
MCInterests == [c \in Conns |-> <<Topic>>]
MCMaxMsgs == [c \in Conns |-> IF c \in Eager THEN 2 ELSE IF c \in Publishers THEN 1 ELSE 0]
MCMsgs == Publishers \X (1 .. 2)
=============================================================================
