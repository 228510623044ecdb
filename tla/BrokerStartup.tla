---------------------------- MODULE BrokerStartup ----------------------------
(***************************************************************************)
(* The start of the host agent (host/boinc-host-controller.py): the broker *)
(* is a process of its own that binds its port and, when it cannot, tries  *)
(* again after delays that grow by half; the agent waits for it until      *)
(* brokerTimeout and ends, with its daemonic child, if it has not heard of *)
(* it by then.  The port may be taken by another program, by the broker of *)
(* an earlier agent that was killed, or, as the server does not set        *)
(* SO_REUSEADDR, by what is left of earlier connections.                   *)
(*                                                                         *)
(* Time goes on only when nobody is due: oversleeping, by milliseconds, is *)
(* left out.  Its unit must divide the delays; the rounding of BackOff     *)
(* begins where it does not.                                               *)
(***************************************************************************)
EXTENDS Integers

CONSTANTS Delay,          \* delay after the first failure
          BrokerTimeout,  \* how long the agent waits
          Moments,        \* when, besides at timers, the port may change
          MaxDelay        \* bound: beyond this delay nothing fails any more

ASSUME DelayAssumption == Delay \in Nat \ {0}
ASSUME TimeoutAssumption == BrokerTimeout \in Nat \ {0}
ASSUME MomentsAssumption == Moments \subseteq Nat
ASSUME MaxDelayAssumption == MaxDelay \in Nat

VARIABLES now,
          port,           \* "free", "taken" by others, or "ours", the broker's
          freeSince,      \* history: since when it is not taken
          at,             \* where the broker's process is
          mdelay,         \* the delay after the next failure
          wake,           \* when time.sleep ends
          tried,          \* history: when it failed last
          serverUpEvent,
          host            \* "waiting", "running", or "ended"

portVars == <<port, freeSince>>
brokerVars == <<at, mdelay, wake, tried>>
vars == <<now, port, freeSince, at, mdelay, wake, tried, serverUpEvent, host>>

TypeOK == /\ now \in Nat /\ freeSince \in Nat /\ wake \in Nat /\ tried \in Nat
          /\ mdelay \in Nat
          /\ port \in {"free", "taken", "ours"}
          /\ at \in {"trying", "bound", "serving", "sleeping", "dead"}
          /\ serverUpEvent \in BOOLEAN
          /\ host \in {"waiting", "running", "ended"}

Init == /\ now = 0 /\ freeSince = 0 /\ wake = 0 /\ tried = 0
        /\ port \in {"free", "taken"}
        /\ at = "trying" /\ mdelay = Delay
        /\ serverUpEvent = FALSE /\ host = "waiting"

-----------------------------------------------------------------------------
(* The port and the other programs *)

PortTaken == /\ port = "free" /\ mdelay <= MaxDelay
             /\ port' = "taken"
             /\ UNCHANGED <<now, freeSince, brokerVars, serverUpEvent, host>>

PortReleased == /\ port = "taken"
                /\ port' = "free" /\ freeSince' = now
                /\ UNCHANGED <<now, brokerVars, serverUpEvent, host>>

\* server_close, or the end of the process: connections that were accepted on the port
\* may keep it taken for a while.
Closed == IF port = "ours"
          THEN \/ port' = "free" /\ freeSince' = now
               \/ port' = "taken" /\ UNCHANGED freeSince
          ELSE UNCHANGED portVars

-----------------------------------------------------------------------------
(* startSTOMPBroker *)

\* The delay is doubled.
BackOff_Doubled(d) == 2 * d

\* The backoff is subtracted.
BackOff_Subtracted(d) == d - (3 * Delay) \div 2

BackOff(d) == (3 * d) \div 2

\* except IOError: tries is -1, so mtries is never 0.  The delay is not reset by success,
\* and is slept in the except clause: what there is to close is closed only after it.
Retry == /\ at' = "sleeping"
         /\ wake' = now + mdelay
         /\ mdelay' = BackOff(mdelay)
         /\ tried' = now

Bind == /\ at = "trying" /\ port = "free"
        /\ at' = "bound" /\ port' = "ours"
        /\ UNCHANGED <<now, freeSince, mdelay, wake, tried, serverUpEvent, host>>

BindFails == /\ at = "trying" /\ port # "free"
             /\ Retry
             /\ UNCHANGED <<now, portVars, serverUpEvent, host>>

\* serverUpEvent.set(), then serve_forever.
Announce == /\ at = "bound"
            /\ at' = "serving" /\ serverUpEvent' = TRUE
            /\ UNCHANGED <<now, portVars, mdelay, wake, tried, host>>

\* serve_forever raises an IOError.  The server keeps its port while the process sleeps:
\* clients that connect wait in its backlog.
ServeFails == /\ at = "serving" /\ mdelay <= MaxDelay
              /\ Retry
              /\ UNCHANGED <<now, portVars, serverUpEvent, host>>

\* Nothing is closed between two tries.
Wakes_NotClosed == /\ at = "sleeping" /\ wake <= now
                   /\ at' = "trying"
                   /\ UNCHANGED <<now, portVars, mdelay, wake, tried, serverUpEvent, host>>

\* The broker goes on only before the agent has heard of it.
Wakes_OnlyAtStart == /\ at = "sleeping" /\ wake <= now /\ ~ serverUpEvent
                     /\ at' = "trying"
                     /\ Closed
                     /\ UNCHANGED <<now, mdelay, wake, tried, serverUpEvent, host>>

\* The delay is over; finally closes the server, if there was one.
Wakes == /\ at = "sleeping" /\ wake <= now
         /\ at' = "trying"
         /\ Closed
         /\ UNCHANGED <<now, mdelay, wake, tried, serverUpEvent, host>>

\* Any other exception, or a signal: nobody starts the process again.
BrokerDies == /\ at # "dead" /\ at' = "dead"
              /\ Closed
              /\ UNCHANGED <<now, mdelay, wake, tried, serverUpEvent, host>>

BrokerStep == Bind \/ BindFails \/ Announce \/ Wakes

-----------------------------------------------------------------------------
(* start *)

HostRuns == /\ host = "waiting" /\ serverUpEvent
            /\ host' = "running"
            /\ UNCHANGED <<now, portVars, brokerVars, serverUpEvent>>

\* The agent waits without a timeout.
HostGivesUp_Never == FALSE

\* The agent's exit terminates the broker.
HostGivesUp == /\ host = "waiting" /\ serverUpEvent = FALSE /\ now >= BrokerTimeout
               /\ host' = "ended" /\ at' = "dead"
               /\ Closed
               /\ UNCHANGED <<now, mdelay, wake, tried, serverUpEvent>>

HostStep == HostRuns \/ HostGivesUp

-----------------------------------------------------------------------------
Timers == (IF at = "sleeping" THEN {wake} ELSE {})
          \cup (IF host = "waiting" THEN {BrokerTimeout} ELSE {})

\* Time goes on to the next timer, or to a moment before it; beyond MaxDelay only while the
\* port is not taken.
Tick == /\ port = "taken" => host = "waiting" \/ mdelay <= MaxDelay
        /\ at \notin {"trying", "bound"}
        /\ ~ (host = "waiting" /\ serverUpEvent)
        /\ Timers # {} /\ \A t \in Timers : now < t
        /\ now' \in {t \in Timers \cup Moments : now < t /\ \A u \in Timers : t <= u}
        /\ UNCHANGED <<portVars, brokerVars, serverUpEvent, host>>

Next == \/ PortTaken \/ PortReleased
        \/ BrokerStep \/ ServeFails \/ BrokerDies
        \/ HostStep
        \/ Tick

Spec == Init /\ [][Next]_vars

\* Both processes are scheduled, and time goes on.
FairSpec == Spec /\ WF_vars(BrokerStep) /\ WF_vars(HostStep) /\ WF_vars(Tick)

-----------------------------------------------------------------------------
\* The agent does not give up for want of a try: when it ends, the broker's process is
\* dead, the port is taken, or it was taken until so late that the next try, half as long
\* after the start again as the last one that failed, and Delay, was not due in time.
\* With the program's values a port that is free after (2*60 - 2)/3 = 39.3 s is found.
GivesUpForCause ==
  [][HostGivesUp => \/ at = "dead" \/ port = "taken"
                    \/ 2 * BrokerTimeout <= 3 * freeSince + 2 * Delay]_vars

\* What makes GivesUpForCause hold: between two tries the delay is at most half the time
\* that has passed since the start, and Delay.
StartupInv ==
  /\ TypeOK /\ tried <= now
  /\ at \in {"bound", "serving"} => port = "ours"
  /\ port = "ours" => \/ at = "bound"
                      \/ at \in {"serving", "sleeping"} /\ serverUpEvent = TRUE
  /\ at = "serving" => serverUpEvent = TRUE
  /\ at \in {"trying", "bound"} => now = wake
  /\ at = "sleeping" => now <= wake /\ 2 * mdelay <= wake + 2 * Delay
  /\ at \in {"trying", "bound", "serving"} => 2 * mdelay <= now + 2 * Delay
  /\ at \in {"trying", "bound", "sleeping"} =>
       /\ 2 * wake <= 3 * tried + 2 * Delay
       /\ port # "taken" /\ serverUpEvent = FALSE => tried <= freeSince

\* A broker that failed while it served holds its port during the delay, but not when
\* it tries again, nor when it is dead: it would be in its own way.
PortIsClosedAgain == /\ at \in {"trying", "dead"} => port # "ours"
                     /\ at \in {"bound", "serving"} => port = "ours"

\* The agent decides: it runs, or it ends.
HostDecides == <>(host # "waiting")

\* "tries < 0 means infinitely many": whatever failed before, once the port stays free
\* the broker serves, unless its process has died.
ServesAgain == <>[](port # "taken") => <>[](at \in {"serving", "dead"})
=============================================================================
