-------------------------- MODULE Heartbeat_proofs --------------------------
(***************************************************************************)
(* What the runs of Heartbeat show for one interval and timeout, for all.  *)
(***************************************************************************)
EXTENDS Heartbeat, TLAPS

\* After a look of the monitor no recorded heartbeat is past the timeout, and
\* before the intervals start nothing is recorded.
Looked ==
  /\ ~running /\ ~ended => waiting = {}
  /\ ~running => ~monitorDue /\ pingIn = Interval
  /\ ~ended /\ ~monitorDue => \A a \in waiting : a <= Timeout

\* Looked and the type invariant are inductive together.
LEMMA TypeAndLooked == Spec => [](TypeOK /\ Looked)
<1> USE TimesAssumption DEF MaxAge
<1>1. Init => TypeOK /\ Looked
  <2> SUFFICES ASSUME Init PROVE TypeOK /\ Looked
    OBVIOUS
  <2>1. TypeOK
    <3>1. running \in BOOLEAN /\ ended \in BOOLEAN
          /\ canSend \in BOOLEAN /\ monitorDue \in BOOLEAN
      BY Zenon DEF Init
    <3>2. /\ pingIn \in 0..Interval /\ heard \in 0..MaxAge /\ quiet \in Nat
          /\ waiting = {} /\ unanswered = {}
      BY DEF Init
    <3> QED
      BY <3>1, <3>2 DEF TypeOK
  <2>2. Looked
    BY DEF Init, Looked
  <2> QED
    BY <2>1, <2>2
<1>2. TypeOK /\ Looked /\ [Next]_vars => TypeOK' /\ Looked'
  <2> SUFFICES ASSUME TypeOK, Looked, [Next]_vars PROVE TypeOK' /\ Looked'
    OBVIOUS
  <2> USE DEF TypeOK, Looked
  <2>1. CASE StartHeartbeats
    BY <2>1 DEF StartHeartbeats
  <2>2. CASE End
    <3>1. TypeOK'
      <4>1. running' \in BOOLEAN /\ ended' \in BOOLEAN
            /\ canSend' \in BOOLEAN /\ monitorDue' \in BOOLEAN
        BY <2>2, Zenon DEF End
      <4>2. pingIn' \in 0..Interval /\ quiet' \in Nat
        BY <2>2 DEF End
      <4>3. UNCHANGED <<waiting, unanswered, heard>>
        BY <2>2 DEF End
      <4> QED
        BY <4>1, <4>2, <4>3
    <3>2. Looked'
      BY <2>2 DEF End
    <3> QED
      BY <3>1, <3>2
  <2>3. CASE SendabilityChanges
    BY <2>3 DEF SendabilityChanges
  <2>4. CASE Tick
    <3>1. \A a \in waiting : a \in 0..Timeout
      BY <2>4 DEF Tick
    <3>2. waiting' \subseteq 0..MaxAge
      BY <2>4, <3>1 DEF Tick
    <3>3. unanswered' \subseteq 0..MaxAge
      BY <2>4 DEF Tick
    <3>4. ~running => waiting' = {}
      BY <2>4 DEF Tick
    <3>5. pingIn' \in 0..Interval /\ heard' \in 0..MaxAge /\ quiet' \in Nat
      BY <2>4 DEF Tick
    <3> QED
      BY <2>4, <3>2, <3>3, <3>4, <3>5 DEF Tick
  <2>5. CASE Ping
    BY <2>5 DEF Ping
  <2>6. CASE Monitor
    <3>1. TypeOK'
      BY <2>6 DEF Monitor
    <3>2. \A a \in waiting' : a <= Timeout
      BY <2>6 DEF Monitor
    <3>3. Looked'
      BY <2>6, <3>2 DEF Monitor
    <3> QED
      BY <3>1, <3>3
  <2>7. ASSUME NEW a \in unanswered, Answered(a) PROVE TypeOK' /\ Looked'
    <3>1. waiting' \in {waiting, {}}
      BY <2>7 DEF Answered, Cleared
    <3>2. TypeOK'
      BY <2>7, <3>1 DEF Answered
    <3>3. Looked'
      BY <2>7, <3>1 DEF Answered
    <3> QED
      BY <3>2, <3>3
  <2>8. ASSUME NEW a \in unanswered, Rejected(a) PROVE TypeOK' /\ Looked'
    BY <2>8 DEF Rejected
  <2>9. CASE UNCHANGED vars
    BY <2>9 DEF vars
  <2> QED
    BY <2>1, <2>2, <2>3, <2>4, <2>5, <2>6, <2>7, <2>8, <2>9 DEF Next
<1> QED
  BY <1>1, <1>2, PTL DEF Spec

\* The variables keep their types, and a recorded heartbeat is given up in time.
THEOREM TypeCorrect == Spec => []TypeOK
  BY TypeAndLooked, PTL

\* A heartbeat that leads to "heartbeatTimeout" was followed by no accepted
\* 200, for every interval and timeout.
THEOREM NoFalseAlarm == Spec => []TimeoutMeansSilence
<1> USE TimesAssumption DEF MaxAge
<1>1. Init => TimeoutMeansSilence
  BY DEF Init, TimeoutMeansSilence
<1>2. TypeOK /\ TypeOK' /\ TimeoutMeansSilence /\ [Next]_vars => TimeoutMeansSilence'
  <2> SUFFICES ASSUME TypeOK, TypeOK', TimeoutMeansSilence, [Next]_vars
               PROVE  TimeoutMeansSilence'
    OBVIOUS
  <2> USE DEF TypeOK, TimeoutMeansSilence
  <2>1. CASE StartHeartbeats \/ End \/ SendabilityChanges
    BY <2>1 DEF StartHeartbeats, End, SendabilityChanges
  <2>2. CASE Tick
    BY <2>2 DEF Tick
  <2>3. CASE Ping \/ Monitor
    BY <2>3 DEF Ping, Monitor
  <2>4. ASSUME NEW a \in unanswered, Answered(a) \/ Rejected(a)
        PROVE  TimeoutMeansSilence'
    BY <2>4 DEF Answered, Rejected, Cleared
  <2>5. CASE UNCHANGED vars
    BY <2>5 DEF vars
  <2> QED
    BY <2>1, <2>2, <2>3, <2>4, <2>5 DEF Next
<1> QED
  BY <1>1, <1>2, TypeCorrect, PTL DEF Spec

\* What is needed for SilenceIsTold: while heartbeats are sent without news,
\* either the first of them is still to come or one is recorded that was sent
\* no later than an interval after the last news.
OneIsOut ==
  IF running /\ canSend
  THEN \/ quiet + pingIn <= Interval
       \/ \E a \in waiting : quiet <= a + Interval
  ELSE quiet = 0

\* For every interval and timeout, a silent peer is told in time.
THEOREM ToldInTime == Spec => []SilenceIsTold
<1> USE TimesAssumption DEF MaxAge
<1>1. Init => OneIsOut
  BY DEF Init, OneIsOut
<1>2. TypeOK /\ OneIsOut /\ [Next]_vars => OneIsOut'
  <2> SUFFICES ASSUME TypeOK, OneIsOut, [Next]_vars PROVE OneIsOut'
    OBVIOUS
  <2> USE DEF TypeOK, OneIsOut
  <2>1. CASE StartHeartbeats \/ End \/ SendabilityChanges
    BY <2>1 DEF StartHeartbeats, End, SendabilityChanges
  <2>2. CASE Tick
    <3>1. CASE ~(running /\ canSend)
      BY <2>2, <3>1 DEF Tick
    <3>2. CASE running /\ canSend /\ quiet + pingIn <= Interval
      BY <2>2, <3>2 DEF Tick
    <3>3. ASSUME running, canSend, NEW a \in waiting, quiet <= a + Interval
          PROVE  OneIsOut'
      <4>1. a + 1 \in waiting' /\ quiet' = quiet + 1 /\ running' /\ canSend'
        BY <2>2, <3>3 DEF Tick
      <4>2. a \in Nat
        OBVIOUS
      <4>3. quiet' <= (a + 1) + Interval
        BY <3>3, <4>1, <4>2
      <4> QED
        BY <4>1, <4>3
    <3> QED
      BY <3>1, <3>2, <3>3
  <2>3. CASE Ping
    <3>1. CASE running /\ canSend /\ quiet + pingIn <= Interval
      <4>1. 0 \in waiting' /\ quiet' <= 0 + Interval /\ running' /\ canSend'
        BY <2>3, <3>1 DEF Ping
      <4> QED
        BY <4>1
    <3>2. CASE ~(running /\ canSend /\ quiet + pingIn <= Interval)
      BY <2>3, <3>2 DEF Ping
    <3> QED
      BY <3>1, <3>2
  <2>4. CASE Monitor
    BY <2>4 DEF Monitor
  <2>5. ASSUME NEW a \in unanswered, Answered(a) \/ Rejected(a) PROVE OneIsOut'
    BY <2>5 DEF Answered, Rejected
  <2>6. CASE UNCHANGED vars
    BY <2>6 DEF vars
  <2> QED
    BY <2>1, <2>2, <2>3, <2>4, <2>5, <2>6 DEF Next
<1>3. TypeOK /\ OneIsOut => SilenceIsTold
  BY DEF TypeOK, OneIsOut, SilenceIsTold
<1> QED
  BY <1>1, <1>2, <1>3, TypeCorrect, PTL DEF Spec
=============================================================================
