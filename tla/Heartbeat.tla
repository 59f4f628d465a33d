----------------------------- MODULE Heartbeat -----------------------------
(***************************************************************************)
(* The heartbeats of one session: the interval that sends them and the one *)
(* that looks for unanswered ones (Session.startHeartbeats), the record of *)
(* those sent (SocketHandler, sendMessage) and the responses to them       *)
(* (handleIncomingResponse).                                               *)
(*                                                                         *)
(* A tick is the second between two looks of the monitor.  Heartbeats are  *)
(* sent at different times, so a heartbeat is known by its age in ticks.   *)
(* Timers are punctual: what is due at a tick runs before the next one, in *)
(* any order, with responses in between.                                   *)
(***************************************************************************)
EXTENDS Naturals, FiniteSets

CONSTANTS
  Interval,  \* Config.heartbeatsInterval in ticks
  Timeout    \* Config.heartbeatsTimeout in ticks

ASSUME TimesAssumption == Interval \in Nat \ {0} /\ Timeout \in Nat \ {0}

MaxAge == Timeout + 1   \* at this age a heartbeat is given up

VARIABLES
  running,    \* the two intervals are set: heartbeatPingFunc, heartbeatTimeoutFunc
  ended,      \* session.ended
  canSend,    \* the session has a socket and may send
  pingIn,     \* ticks until the next heartbeat
  monitorDue, \* the monitor has not run in this tick
  waiting,    \* heartbeatsTransIds: ages of the heartbeats recorded
  unanswered, \* ages of the heartbeats the peer may still answer
  heard,      \* ticks since a 200 was accepted, up to MaxAge (history)
  quiet       \* ticks without news of the peer while heartbeats are sent (history)

vars == <<running, ended, canSend, pingIn, monitorDue, waiting, unanswered, heard, quiet>>

Init ==
  /\ running = FALSE /\ ended = FALSE /\ canSend = FALSE
  /\ pingIn = Interval /\ monitorDue = FALSE
  /\ waiting = {} /\ unanswered = {}
  /\ heard = MaxAge /\ quiet = 0

\* The end of setupConnection: the intervals start if they do not run.
StartHeartbeats ==
  /\ ~running /\ ~ended
  /\ running' = TRUE
  /\ pingIn' = Interval /\ monitorDue' = FALSE
  /\ quiet' = 0
  /\ UNCHANGED <<ended, canSend, waiting, unanswered, heard>>

\* Session.end: the intervals stop; what was recorded stays.
End ==
  /\ ~ended
  /\ ended' = TRUE /\ running' = FALSE /\ canSend' = FALSE
  /\ pingIn' = Interval /\ monitorDue' = FALSE
  /\ quiet' = 0
  /\ UNCHANGED <<waiting, unanswered, heard>>

\* The socket is set or closed, or the remote party holds the session.
SendabilityChanges ==
  /\ ~ended
  /\ canSend' = ~canSend
  /\ quiet' = 0
  /\ UNCHANGED <<running, ended, pingIn, monitorDue, waiting, unanswered, heard>>

\* Time is of interest until the session has ended.
Tick ==
  /\ ~ended
  /\ pingIn > 0 /\ ~monitorDue
  /\ waiting' = {a + 1 : a \in waiting}
  /\ unanswered' = {a + 1 : a \in {b \in unanswered : b < MaxAge}}
  /\ pingIn' = IF running THEN pingIn - 1 ELSE pingIn
  /\ monitorDue' = running
  /\ heard' = IF heard < MaxAge THEN heard + 1 ELSE heard
  /\ quiet' = IF running /\ canSend THEN quiet + 1 ELSE quiet
  /\ UNCHANGED <<running, ended, canSend>>

\* Only the last heartbeat is remembered.
PingReplaces ==
  /\ pingIn = 0
  /\ pingIn' = Interval
  /\ waiting' = IF canSend THEN {0} ELSE waiting
  /\ unanswered' = IF canSend THEN unanswered \cup {0} ELSE unanswered
  /\ UNCHANGED <<running, ended, canSend, monitorDue, heard, quiet>>

\* sendHeartbeat: recorded when it is sent, also over a destroyed socket.
Ping ==
  /\ pingIn = 0
  /\ pingIn' = Interval
  /\ waiting' = IF canSend THEN waiting \cup {0} ELSE waiting
  /\ unanswered' = IF canSend THEN unanswered \cup {0} ELSE unanswered
  /\ UNCHANGED <<running, ended, canSend, monitorDue, heard, quiet>>

\* The monitor looks at the newest heartbeat only.
MonitorNewest ==
  LET late == {a \in waiting : a > Timeout /\ \A b \in waiting : a <= b} IN
  /\ monitorDue
  /\ monitorDue' = FALSE
  /\ waiting' = waiting \ late
  /\ quiet' = IF late # {} THEN 0 ELSE quiet
  /\ UNCHANGED <<running, ended, canSend, pingIn, unanswered, heard>>

\* heartbeatTimeoutMonitor: "heartbeatTimeout" for each heartbeat given up.
Monitor ==
  LET late == {a \in waiting : a > Timeout} IN
  /\ monitorDue
  /\ monitorDue' = FALSE
  /\ waiting' = waiting \ late
  /\ quiet' = IF late # {} THEN 0 ELSE quiet
  /\ UNCHANGED <<running, ended, canSend, pingIn, unanswered, heard>>

\* Only the heartbeat that is answered is cleared.
ClearedOne(a) == waiting \ {a}

\* What a 200 for one heartbeat leaves recorded.
Cleared(a) == {}

\* A 200 for a heartbeat that is recorded.
Answered(a) ==
  /\ a \in unanswered
  /\ unanswered' = unanswered \ {a}
  /\ IF a \in waiting
     THEN waiting' = Cleared(a) /\ heard' = 0 /\ quiet' = 0
     ELSE UNCHANGED <<waiting, heard, quiet>>
  /\ UNCHANGED <<running, ended, canSend, pingIn, monitorDue>>

\* Another status: an error emits "heartbeatFailure"; the record stays.
Rejected(a) ==
  /\ a \in unanswered
  /\ unanswered' = unanswered \ {a}
  /\ UNCHANGED <<running, ended, canSend, pingIn, monitorDue, waiting, heard, quiet>>

Next ==
  \/ StartHeartbeats \/ End \/ SendabilityChanges
  \/ Tick \/ Ping \/ Monitor
  \/ \E a \in unanswered : Answered(a) \/ Rejected(a)

Spec == Init /\ [][Next]_vars

-----------------------------------------------------------------------------
(* Properties.                                                             *)

\* Every variable keeps its type, and no recorded heartbeat gets older than
\* the timeout and one look of the monitor.
TypeOK ==
  /\ running \in BOOLEAN /\ ended \in BOOLEAN
  /\ canSend \in BOOLEAN /\ monitorDue \in BOOLEAN
  /\ pingIn \in 0..Interval
  /\ waiting \subseteq 0..MaxAge /\ unanswered \subseteq 0..MaxAge
  /\ heard \in 0..MaxAge /\ quiet \in Nat

\* A heartbeat is still recorded, and so can lead to "heartbeatTimeout", only
\* if no heartbeat was answered with 200 since it was sent.
TimeoutMeansSilence == \A a \in waiting : a <= heard

\* While heartbeats are sent, the application hears of a silent peer in time:
\* a 200 or a "heartbeatTimeout" comes before one interval, the timeout and
\* one look of the monitor have passed.
SilenceIsTold == quiet <= Interval + Timeout + 1
=============================================================================
