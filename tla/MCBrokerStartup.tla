-------------------------- MODULE MCBrokerStartup ---------------------------
(***************************************************************************)
(* The program's values (delay=1, backoff=1.5, brokerTimeout=60.0) in      *)
(* units of 1/512 s, in which all delays before the timeout are exact; the *)
(* port may also change at 20, 39, 40 and 55 seconds.                      *)
(***************************************************************************)
EXTENDS BrokerStartup

Seconds(s) == 512 * s
OneSecond == Seconds(1)
AMinute == Seconds(60)
SomeMoments == {Seconds(s) : s \in {20, 39, 40, 55}}
=============================================================================
