------------------------- MODULE BrokerStartupProofs -------------------------
(***************************************************************************)
(* For every delay, timeout and set of moments: the agent does not give up *)
(* for want of a try, and a broker that tries again has closed its port.   *)
(***************************************************************************)
EXTENDS BrokerStartup, TLAPS

USE DelayAssumption, TimeoutAssumption, MomentsAssumption

\* Half as much again, rounded: what BackOff promises the invariant.
LEMMA BackOffBounds ==
  ASSUME NEW d \in Nat
  PROVE  BackOff(d) \in Nat /\ 2 * BackOff(d) <= 3 * d
BY DEF BackOff

LEMMA LaterIsLonger ==
  ASSUME NEW d \in Nat, NEW n \in Nat, NEW m \in Nat, NEW c \in Nat, d <= n + c, n < m
  PROVE  d <= m + c
OBVIOUS

\* A failed try, or a broker that stopped serving, waits at most half as long as it has
\* been running, and Delay.
LEMMA RetryKeeps ==
  ASSUME StartupInv, Retry, at \in {"trying", "serving"},
         at = "trying" => port # "free",
         UNCHANGED <<now, portVars, serverUpEvent, host>>
  PROVE  StartupInv'
<1>1. mdelay \in Nat /\ now \in Nat /\ 2 * mdelay <= now + 2 * Delay
  BY DEF StartupInv, TypeOK
<1>2. BackOff(mdelay) \in Nat /\ 2 * BackOff(mdelay) <= 3 * mdelay
  BY <1>1, BackOffBounds
<1>3. TypeOK'
  BY <1>1, <1>2 DEF StartupInv, TypeOK, Retry, portVars
<1>4. 2 * wake' <= 3 * tried' + 2 * Delay /\ 2 * mdelay' <= wake' + 2 * Delay
  <2> DEFINE b == BackOff(mdelay)
  <2>1. wake' = now + mdelay /\ tried' = now /\ mdelay' = b
    BY DEF Retry
  <2>2. b \in Nat /\ 2 * b <= 3 * mdelay
    BY <1>2
  <2> HIDE DEF b
  <2> QED BY <1>1, <2>1, <2>2
<1>5. \/ at = "trying" /\ port = "taken"
      \/ at = "serving" /\ port = "ours" /\ serverUpEvent = TRUE
  BY DEF StartupInv, TypeOK
<1> QED
  BY <1>1, <1>3, <1>4, <1>5 DEF StartupInv, Retry, portVars

LEMMA StartupInvInit == Init => StartupInv
<1> SUFFICES ASSUME Init PROVE StartupInv
  OBVIOUS
<1>1. TypeOK /\ Delay \in Nat
  BY DEF Init, TypeOK
<1> QED BY <1>1 DEF Init, StartupInv

LEMMA StartupInvNext == StartupInv /\ [Next]_vars => StartupInv'
<1> SUFFICES ASSUME StartupInv, [Next]_vars PROVE StartupInv'
  OBVIOUS
<1> USE DEF StartupInv, TypeOK
<1>1. CASE PortTaken
  BY <1>1 DEF PortTaken, brokerVars
<1>2. CASE PortReleased
  BY <1>2 DEF PortReleased, brokerVars
<1>3. CASE Bind
  BY <1>3 DEF Bind
<1>4. CASE BindFails
  <2> HIDE DEF StartupInv, TypeOK
  <2> QED BY <1>4, RetryKeeps DEF BindFails
<1>5. CASE Announce
  BY <1>5 DEF Announce, portVars
<1>6. CASE Wakes
  BY <1>6 DEF Wakes, Closed, portVars
<1>7. CASE ServeFails
  <2> HIDE DEF StartupInv, TypeOK
  <2> QED BY <1>7, RetryKeeps DEF ServeFails
<1>8. CASE BrokerDies
  BY <1>8 DEF BrokerDies, Closed, portVars
<1>9. CASE HostRuns
  BY <1>9 DEF HostRuns, portVars, brokerVars
<1>10. CASE HostGivesUp
  BY <1>10 DEF HostGivesUp, Closed, portVars
<1>11. CASE Tick
  <2>1. now' \in Timers \cup Moments /\ now < now' /\ \A u \in Timers : now' <= u
    BY <1>11 DEF Tick
  <2>2. Timers \subseteq Nat /\ (at = "sleeping" => wake \in Timers)
    BY DEF Timers
  <2>3. now' \in Nat /\ now < now' /\ (at = "sleeping" => now' <= wake)
    BY <2>1, <2>2
  <2>4. /\ at \notin {"trying", "bound"}
        /\ UNCHANGED <<port, freeSince, at, mdelay, wake, tried, serverUpEvent, host>>
    BY <1>11 DEF Tick, portVars, brokerVars
  <2>5. TypeOK' /\ tried' <= now'
    BY <2>3, <2>4
  <2>6. ASSUME at = "serving" PROVE 2 * mdelay <= now' + 2 * Delay
    <3>1. 2 * mdelay <= now + 2 * Delay
      BY <2>6
    <3>2. 2 * mdelay \in Nat /\ 2 * Delay \in Nat /\ now \in Nat
      OBVIOUS
    <3> QED BY <2>3, <3>1, <3>2, LaterIsLonger
  <2> HIDE DEF TypeOK
  <2> QED BY <2>3, <2>4, <2>5, <2>6
<1>12. CASE UNCHANGED vars
  BY <1>12 DEF vars
<1> QED
  BY <1>1, <1>2, <1>3, <1>4, <1>5, <1>6, <1>7, <1>8, <1>9, <1>10, <1>11, <1>12
     DEF Next, BrokerStep, HostStep

\* The invariant the properties below rest on.
THEOREM Invariance == Spec => []StartupInv
BY StartupInvInit, StartupInvNext, PTL DEF Spec

\* Clock, timers and states of the two processes are of their types.
THEOREM TypeCorrect == Spec => []TypeOK
<1>1. StartupInv => TypeOK
  BY DEF StartupInv
<1> QED BY <1>1, Invariance, PTL

\* The port is the broker's while it is bound or serves, and not any more when it tries
\* again or is dead, whatever failed and however long it slept.
THEOREM PortClosed == Spec => []PortIsClosedAgain
<1>1. StartupInv => PortIsClosedAgain
  BY DEF StartupInv, PortIsClosedAgain
<1> QED BY <1>1, Invariance, PTL

\* When the agent gives up on a live broker, the port is taken, or was until too late.
THEOREM GivesUp == Spec => GivesUpForCause
<1> DEFINE Cause == \/ at = "dead" \/ port = "taken"
                    \/ 2 * BrokerTimeout <= 3 * freeSince + 2 * Delay
<1>1. StartupInv => [HostGivesUp => Cause]_vars
  <2> SUFFICES ASSUME StartupInv, HostGivesUp, at # "dead", port # "taken"
               PROVE  2 * BrokerTimeout <= 3 * freeSince + 2 * Delay
    OBVIOUS
  <2>1. /\ at \in {"trying", "bound", "sleeping"} /\ BrokerTimeout <= now
        /\ serverUpEvent = FALSE
    BY DEF StartupInv, TypeOK, HostGivesUp
  <2>2. now <= wake /\ 2 * wake <= 3 * tried + 2 * Delay /\ tried <= freeSince
    BY <2>1 DEF StartupInv, TypeOK
  <2> QED BY <2>1, <2>2 DEF StartupInv, TypeOK
<1> QED BY <1>1, Invariance, PTL DEF GivesUpForCause
=============================================================================
