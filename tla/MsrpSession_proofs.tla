------------------------ MODULE MsrpSession_proofs ------------------------
(***************************************************************************)
(* Proofs about MsrpSession for every number of sessions, sockets,         *)
(* descriptions and every configuration.                                   *)
(***************************************************************************)
EXTENDS MsrpSession, SequenceTheorems, TLAPS

\* The types of what setupConnection and setSocket change.
ConnTypes ==
  /\ socket \in [Sessions -> Sockets \cup {NoSocket}]
  /\ connectTimers \subseteq Sessions
  /\ heartbeats \subseteq Sessions
  /\ told \in [Sessions -> SUBSET Losses]
  /\ sockState \in [Sockets -> SockStates]
  /\ sockAddr \in [Sockets -> Addrs \cup {NoAddr}]
  /\ connector \in [Sockets -> Sessions \cup {NoSession}]
  /\ listeners \in [Sockets -> [Sessions -> Nat]]
  /\ dangling \subseteq Sockets /\ danglingTimers \subseteq Sockets
  /\ \A u \in Sockets : sockState[u] = "connecting" => connector[u] \in Sessions
  /\ buffered \in [Sessions -> Seq(Nat)]
  /\ processed \in [Sessions -> Seq(Nat)]

\* The types of what is left of the sockets after closeSocket.
LEMMA AfterCloseType ==
  ASSUME TypeOK, NEW s \in Sessions, NEW reg
  PROVE  /\ AfterClose(s, reg) \in [Sockets -> SockStates]
         /\ WithoutSocket(s) \in [Sessions -> Sockets \cup {NoSocket}]
         /\ \A u \in Sockets : AfterClose(s, reg)[u] = "connecting"
                                 => sockState[u] = "connecting"
  BY DEF TypeOK, AfterClose, WithoutSocket, SockStates

\* setSocket keeps the types of what it changes.
LEMMA SetSocketType ==
  ASSUME TypeOK, NEW s \in Sessions, NEW u \in Sockets, NEW sdp,
         NEW sockets \in [Sessions -> Sockets \cup {NoSocket}],
         SetSocket(s, u, sockets, sdp)
  PROVE  /\ socket' \in [Sessions -> Sockets \cup {NoSocket}]
         /\ connectTimers' \subseteq Sessions
         /\ listeners' \in [Sockets -> [Sessions -> Nat]]
         /\ told' \in [Sessions -> SUBSET Losses]
         /\ buffered' \in [Sessions -> Seq(Nat)]
         /\ processed' \in [Sessions -> Seq(Nat)]
<1>1. listeners' \in [Sockets -> [Sessions -> Nat]]
  BY DEF TypeOK, SetSocket, Attach
<1>2. /\ buffered' \in [Sessions -> Seq(Nat)]
      /\ processed' \in [Sessions -> Seq(Nat)]
  <2>1. /\ processed[s] \o buffered[s] \in Seq(Nat)
        /\ <<>> \in Seq(Nat)
    BY DEF TypeOK
  <2>2. CASE s \in registered /\ sockState[u] \in Destroyed
    BY <2>2 DEF TypeOK, SetSocket, ProcessBuffered
  <2>3. CASE ~(s \in registered /\ sockState[u] \in Destroyed)
    <3>1. buffered' = [buffered EXCEPT ![s] = <<>>]
      BY <2>3 DEF SetSocket, ProcessBuffered
    <3>2. \/ processed' = [processed EXCEPT ![s] = processed[s] \o buffered[s]]
          \/ processed' = processed
      BY <2>3 DEF SetSocket, ProcessBuffered
    <3>3. /\ buffered \in [Sessions -> Seq(Nat)]
          /\ processed \in [Sessions -> Seq(Nat)]
      BY DEF TypeOK
    <3> QED
      BY <2>1, <3>1, <3>2, <3>3
  <2> QED
    BY <2>2, <2>3
<1> QED
  BY <1>1, <1>2 DEF TypeOK, SetSocket, Attach

\* setupConnection keeps the types of what it changes.
LEMMA SetupConnectionType ==
  ASSUME TypeOK, NEW s \in Sessions, NEW setup \in LocalSetups,
         NEW sdp \in RemoteSdps \cup {NoSdp},
         NEW sockets \in [Sessions -> Sockets \cup {NoSocket}],
         NEW states \in [Sockets -> SockStates],
         \A u \in Sockets : states[u] = "connecting" => sockState[u] = "connecting",
         SetupConnection(s, setup, sdp, sockets, states)
  PROVE  ConnTypes'
<1>1. CASE NoConnection(s, sockets, states)
  BY <1>1 DEF TypeOK, ConnTypes, NoConnection
<1>2. ASSUME sdp # NoSdp, StartHeartbeats(s, sdp), Connect(s, sdp, sockets, states)
      PROVE  ConnTypes'
  <2>1. sdp.addr \in Addrs
    BY <1>2, SdpAssumption DEF Sdps
  <2> QED
    BY <1>2, <2>1 DEF TypeOK, ConnTypes, Connect, StartHeartbeats, SockStates
<1>3. ASSUME StartHeartbeats(s, sdp), TakeDangling(s, sdp, sockets, states)
      PROVE  ConnTypes'
  <2>1. PICK u \in Sockets : /\ Undangle(u)
                             /\ SetSocket(s, u, sockets, sdp)
                             /\ sockState' = states
                             /\ UNCHANGED <<sockAddr, connector, danglingTimers>>
    BY <1>3 DEF TakeDangling
  <2> QED
    BY <1>3, <2>1, SetSocketType DEF TypeOK, ConnTypes, Undangle, StartHeartbeats
<1>4. ASSUME StartHeartbeats(s, sdp), AwaitPeer(s, sdp, sockets, states)
      PROVE  ConnTypes'
  BY <1>4 DEF TypeOK, ConnTypes, AwaitPeer, StartConnectTimer, StartHeartbeats
<1> QED
  BY <1>1, <1>2, <1>3, <1>4 DEF SetupConnection

\* The end of getDescription and setDescription keeps the types.
LEMMA DescribedType ==
  ASSUME TypeOK, NEW s \in Sessions, NEW side \in {"local", "remote"},
         NEW setup \in LocalSetups, NEW sdp \in RemoteSdps \cup {NoSdp},
         NEW closes \in BOOLEAN, Described(s, side, setup, sdp, closes)
  PROVE  /\ ConnTypes'
         /\ sdpState' \in [Sessions -> {"null", "offered", "answered"}]
         /\ offerer' \in [Sessions -> {"none", "local", "remote"}]
         /\ updated' \subseteq Sessions
<1> DEFINE sockets == IF closes THEN WithoutSocket(s) ELSE socket
           states == IF closes THEN AfterClose(s, registered) ELSE sockState
<1>1. /\ sockets \in [Sessions -> Sockets \cup {NoSocket}]
      /\ states \in [Sockets -> SockStates]
      /\ \A u \in Sockets : states[u] = "connecting" => sockState[u] = "connecting"
  <2>1. CASE closes
    BY <2>1, AfterCloseType
  <2>2. CASE ~closes
    BY <2>2 DEF TypeOK
  <2> QED
    BY <2>1, <2>2
<1>2. CASE /\ UpdateSdpState(s, side)
           /\ IF sdpState[s] = "offered"
              THEN SetupConnection(s, setup, sdp, sockets, states)
              ELSE NoConnection(s, sockets, states)
  <2>1. /\ sdpState' \in [Sessions -> {"null", "offered", "answered"}]
        /\ offerer' \in [Sessions -> {"none", "local", "remote"}]
        /\ updated' \subseteq Sessions
    BY <1>2 DEF TypeOK, UpdateSdpState, NextSdpState
  <2>2. CASE sdpState[s] = "offered"
    BY <1>1, <1>2, <2>1, <2>2, SetupConnectionType
  <2>3. CASE sdpState[s] # "offered"
    <3> HIDE DEF sockets, states
    <3> QED BY <1>1, <1>2, <2>1, <2>3 DEF TypeOK, ConnTypes, NoConnection
  <2> QED
    BY <2>2, <2>3
<1>3. CASE /\ UNCHANGED <<sdpState, updated, offerer>>
           /\ NoConnection(s, sockets, states)
  <2> HIDE DEF sockets, states
  <2> QED BY <1>1, <1>3 DEF TypeOK, ConnTypes, NoConnection
<1> QED
  BY <1>2, <1>3 DEF Described

\* An answer takes a role setupConnection knows.
LEMMA ChosenSetupType ==
  ASSUME TypeOK, NEW s \in Sessions
  PROVE  ChosenSetup(s) \in LocalSetups
<1>1. CASE remoteSdp[s] # NoSdp
  <2>1. remoteSdp[s].setup \in Setups
    BY <1>1, SdpAssumption DEF TypeOK, Sdps
  <2> QED
    BY <1>1, <2>1, ConfigAssumption DEF ChosenSetup, AnswerTo, Setups, LocalSetups
<1> QED
  BY <1>1, ConfigAssumption DEF ChosenSetup, LocalSetups

\* Init satisfies the type invariant.
LEMMA InitType == Init => TypeOK
<1> SUFFICES ASSUME Init PROVE TypeOK
  OBVIOUS
<1>1. /\ buffered \in [Sessions -> Seq(Nat)]
      /\ processed \in [Sessions -> Seq(Nat)]
  <2>1. <<>> \in Seq(Nat)
    OBVIOUS
  <2> QED
    BY <2>1 DEF Init
<1>2. /\ told \in [Sessions -> SUBSET Losses]
      /\ listeners \in [Sockets -> [Sessions -> Nat]]
      /\ reconnectTimers \in [Sessions -> Nat]
  BY DEF Init
<1>3. /\ localSetup \in [Sessions -> LocalSetups]
      /\ describing \in [Sessions -> LocalSetups]
      /\ sdpState \in [Sessions -> {"null", "offered", "answered"}]
      /\ offerer \in [Sessions -> {"none", "local", "remote"}]
      /\ remoteSdp \in [Sessions -> RemoteSdps \cup {NoSdp}]
      /\ socket \in [Sessions -> Sockets \cup {NoSocket}]
  BY DEF Init, LocalSetups
<1>4. /\ sockState \in [Sockets -> SockStates]
      /\ sockAddr \in [Sockets -> Addrs \cup {NoAddr}]
      /\ connector \in [Sockets -> Sessions \cup {NoSession}]
      /\ \A u \in Sockets : sockState[u] # "connecting"
  BY DEF Init, SockStates
<1>5. /\ created = {} /\ registered = {} /\ ended = {} /\ updated = {}
      /\ connectTimers = {} /\ heartbeats = {} /\ dangling = {} /\ overtaken = {}
      /\ danglingTimers = {} /\ calls = 0 /\ received = 0 /\ crashed = FALSE
  BY DEF Init
<1> QED
  BY <1>1, <1>2, <1>3, <1>4, <1>5 DEF TypeOK

\* Every step of the application and of the timers keeps it.
LEMMA SessionStepType ==
  ASSUME TypeOK, NEW s \in Sessions, SessionStep(s)
  PROVE  TypeOK'
<1> USE DEF registryVars, sdpVars, sessionVars, netVars, serverVars, inboundVars
<1>1. CASE CreateSession(s)
  BY <1>1 DEF TypeOK, CreateSession
<1>2. ASSUME NEW reg, End(s, reg), s \in created,
             registered' \subseteq created
      PROVE  TypeOK'
  BY <1>2, AfterCloseType DEF TypeOK, End, StopHeartbeats
<1>3. CASE EndSession(s)
  BY <1>2, <1>3 DEF TypeOK, EndSession
<1>4. CASE RemoveSession(s)
  BY <1>2, <1>4 DEF TypeOK, RemoveSession
<1>5. CASE GetDescription(s)
  BY <1>5, ChosenSetupType DEF TypeOK, GetDescription
<1>6. CASE DescriptionReady(s)
  <2>1. /\ ConnTypes'
        /\ sdpState' \in [Sessions -> {"null", "offered", "answered"}]
        /\ offerer' \in [Sessions -> {"none", "local", "remote"}]
        /\ updated' \subseteq Sessions
    BY <1>6, DescribedType DEF TypeOK, DescriptionReady
  <2> QED
    BY <1>6, <2>1 DEF TypeOK, ConnTypes, DescriptionReady, LocalSetups
<1>7. CASE NoPort(s)
  BY <1>7 DEF TypeOK, NoPort, LocalSetups
<1>8. ASSUME NEW sdp \in RemoteSdps, SetDescription(s, sdp)
      PROVE  TypeOK'
  <2>1. /\ ConnTypes'
        /\ sdpState' \in [Sessions -> {"null", "offered", "answered"}]
        /\ offerer' \in [Sessions -> {"none", "local", "remote"}]
        /\ updated' \subseteq Sessions
    BY <1>8, DescribedType DEF TypeOK, SetDescription
  <2>2. /\ remoteSdp' \in [Sessions -> RemoteSdps \cup {NoSdp}]
        /\ calls' \in Nat /\ overtaken' \subseteq Sessions
    BY <1>8 DEF TypeOK, SetDescription
  <2>3. UNCHANGED <<registryVars, localSetup, describing, reconnectTimers, received,
                    crashed>>
    BY <1>8 DEF SetDescription
  <2> QED
    BY <2>1, <2>2, <2>3 DEF TypeOK, ConnTypes
<1>9. CASE ConnectTimedOut(s)
  <2>1. told' \in [Sessions -> SUBSET Losses]
    <3>1. told \in [Sessions -> SUBSET Losses]
      BY DEF TypeOK
    <3>2. \/ told' = told
          \/ told' = [told EXCEPT ![s] = told[s] \cup {"socketConnectTimeout"}]
      BY <1>9 DEF ConnectTimedOut
    <3> QED
      BY <3>1, <3>2 DEF Losses
  <2>2. crashed' \in BOOLEAN
    BY <1>9 DEF TypeOK, ConnectTimedOut
  <2> QED
    BY <1>9, <2>1, <2>2 DEF TypeOK, ConnectTimedOut
<1>10. CASE ReconnectTimedOut(s)
  BY <1>10 DEF TypeOK, ReconnectTimedOut, Losses
<1> QED
  BY <1>1, <1>3, <1>4, <1>5, <1>6, <1>7, <1>8, <1>9, <1>10 DEF SessionStep

\* Every step of a socket keeps it.
LEMMA SocketStepType ==
  ASSUME TypeOK, NEW u \in Sockets, SocketStep(u)
  PROVE  TypeOK'
<1> USE DEF registryVars, sdpVars, sessionVars, netVars, serverVars, inboundVars
<1>1. CASE ConnectDone(u)
  <2> DEFINE s == connector[u]
  <2>1. s \in Sessions
    BY <1>1 DEF TypeOK, ConnectDone
  <2>2. CASE ComesFrom(s, sockAddr[u])
    BY <1>1, <2>1, <2>2, SetSocketType DEF TypeOK, ConnectDone, SockStates
  <2>3. CASE ~ComesFrom(s, sockAddr[u])
    BY <1>1, <2>3 DEF TypeOK, ConnectDone, SockStates
  <2> QED
    BY <2>2, <2>3
<1>2. CASE ConnectFails(u)
  BY <1>2 DEF TypeOK, ConnectFails, SockStates
<1>3. ASSUME NEW addr \in Addrs, Connection(u, addr)
      PROVE  TypeOK'
  <2>1. CASE Waiting(addr) = {}
    BY <1>3, <2>1 DEF TypeOK, Connection, SockStates
  <2>2. CASE Waiting(addr) # {}
    <3>1. PICK s \in Sessions : SetSocket(s, u, socket, remoteSdp[s])
      BY <1>3, <2>2 DEF TypeOK, Connection, Waiting
    <3> QED
      BY <1>3, <2>2, <3>1, SetSocketType DEF TypeOK, Connection, SockStates
  <2> QED
    BY <2>1, <2>2
<1>4. CASE Destroy(u)
  BY <1>4 DEF TypeOK, Destroy, SockStates
<1>5. CASE Close(u)
  BY <1>5 DEF TypeOK, Close, StartReconnectTimers, SockStates, Losses
<1>6. ASSUME NEW s \in Sessions, Request(u, s)
      PROVE  TypeOK'
  <2>1. received + 1 \in Nat
    BY DEF TypeOK
  <2>2. ASSUME HandleRequest(s, received + 1)
        PROVE  processed' \in [Sessions -> Seq(Nat)] /\ crashed' \in BOOLEAN
    BY <2>1, <2>2 DEF TypeOK, HandleRequest
  <2>3. ASSUME Attach(s, u, socket)
        PROVE  /\ socket' \in [Sessions -> Sockets \cup {NoSocket}]
               /\ connectTimers' \subseteq Sessions
               /\ listeners' \in [Sockets -> [Sessions -> Nat]]
               /\ told' \in [Sessions -> SUBSET Losses]
    BY <2>3 DEF TypeOK, Attach
  <2>4. CASE s \notin registered \/ ~LacksSocket(s)
    BY <1>6, <2>1, <2>2, <2>4 DEF TypeOK, Request
  <2>5. CASE s \in registered /\ LacksSocket(s) /\ UseInbound
    BY <1>6, <2>1, <2>2, <2>3, <2>5 DEF TypeOK, Request, Undangle
  <2>6. CASE s \in registered /\ LacksSocket(s) /\ ~UseInbound
    <3>1. buffered' = [buffered EXCEPT ![s] = Append(buffered[s], received + 1)]
      BY <1>6, <2>6 DEF Request
    <3>2. Append(buffered[s], received + 1) \in Seq(Nat)
      BY <2>1 DEF TypeOK
    <3>3. buffered' \in [Sessions -> Seq(Nat)]
      BY <3>1, <3>2 DEF TypeOK
    <3> QED
      BY <1>6, <2>1, <2>6, <3>3 DEF TypeOK, Request
  <2> QED
    BY <2>4, <2>5, <2>6
<1>7. CASE DanglingTimedOut(u)
  BY <1>7 DEF TypeOK, DanglingTimedOut, Undangle, SockStates
<1> QED
  BY <1>1, <1>2, <1>3, <1>4, <1>5, <1>6, <1>7 DEF SocketStep

\* Every variable keeps its type, whatever the application, the peers and the
\* timers do, in any order and any number.
THEOREM TypeCorrect == Spec => []TypeOK
<1>1. TypeOK /\ [Next]_vars => TypeOK'
  <2>1. ASSUME TypeOK, UNCHANGED vars PROVE TypeOK'
    BY <2>1 DEF TypeOK, vars, registryVars, sdpVars, sessionVars, netVars,
                serverVars, inboundVars
  <2> QED
    BY <2>1, SessionStepType, SocketStepType DEF Next
<1> QED
  BY <1>1, InitType, PTL DEF Spec

-----------------------------------------------------------------------------
(* What a step of session s can do to sockets: it gives up its socket, or  *)
(* takes a dangling one, ends open sockets and starts connects.  The       *)
(* invariants below need no more of the session's actions.                 *)

SessionShape(s) ==
  /\ \A t \in Sessions : t # s => socket'[t] = socket[t]
  /\ \/ socket'[s] \in {socket[s], NoSocket} /\ dangling' = dangling
     \/ socket'[s] \in dangling /\ dangling' = dangling \ {socket'[s]}
  /\ \A u \in Sockets :
       \/ sockState'[u] = sockState[u] /\ connector'[u] = connector[u]
       \/ sockState[u] = "open" /\ sockState'[u] = "ended" /\ connector'[u] = connector[u]
       \/ sockState[u] = "unused" /\ sockState'[u] = "connecting" /\ connector'[u] = s

\* closeSocket only ends open sockets and takes the socket of its session.
LEMMA AfterCloseShape ==
  ASSUME TypeOK, NEW s \in Sessions, NEW reg
  PROVE  /\ \A t \in Sessions : WithoutSocket(s)[t]
                                  = IF t = s THEN NoSocket ELSE socket[t]
         /\ \A u \in Sockets :
              \/ AfterClose(s, reg)[u] = sockState[u]
              \/ sockState[u] = "open" /\ AfterClose(s, reg)[u] = "ended"
  BY DEF TypeOK, AfterClose, WithoutSocket

\* The end of getDescription and setDescription has this shape.
LEMMA DescribedShape ==
  ASSUME TypeOK, NEW s \in Sessions, NEW side, NEW setup, NEW sdp,
         NEW closes \in BOOLEAN, Described(s, side, setup, sdp, closes)
  PROVE  SessionShape(s)
<1> DEFINE sockets == IF closes THEN WithoutSocket(s) ELSE socket
           states == IF closes THEN AfterClose(s, registered) ELSE sockState
<1>1. /\ sockets \in [Sessions -> Sockets \cup {NoSocket}]
      /\ states \in [Sockets -> SockStates]
      /\ \A t \in Sessions : t # s => sockets[t] = socket[t]
      /\ sockets[s] \in {socket[s], NoSocket}
      /\ \A u \in Sockets : \/ states[u] = sockState[u]
                            \/ sockState[u] = "open" /\ states[u] = "ended"
  <2>1. CASE closes
    BY <2>1, AfterCloseType, AfterCloseShape
  <2>2. CASE ~closes
    BY <2>2 DEF TypeOK
  <2> QED
    BY <2>1, <2>2
<1> HIDE DEF sockets, states
<1>2. CASE NoConnection(s, sockets, states)
  BY <1>1, <1>2 DEF NoConnection, SessionShape
<1>3. CASE Connect(s, sdp, sockets, states)
  <2>1. PICK u \in Sockets : /\ IsNext(u)
                             /\ sockState' = [states EXCEPT ![u] = "connecting"]
                             /\ connector' = [connector EXCEPT ![u] = s]
                             /\ socket' = sockets
                             /\ UNCHANGED dangling
    BY <1>3 DEF Connect
  <2>2. sockState[u] = "unused"
    BY <2>1 DEF IsNext
  <2>3. connector \in [Sockets -> Sessions \cup {NoSession}]
    BY DEF TypeOK
  <2> QED
    BY <1>1, <2>1, <2>2, <2>3 DEF SessionShape
<1>4. CASE TakeDangling(s, sdp, sockets, states)
  <2>1. PICK u \in Sockets : /\ IsDanglingFor(u, sdp)
                             /\ Undangle(u)
                             /\ SetSocket(s, u, sockets, sdp)
                             /\ sockState' = states
                             /\ UNCHANGED connector
    BY <1>4 DEF TakeDangling
  <2>2. /\ u \in dangling /\ dangling' = dangling \ {u}
        /\ socket' = [sockets EXCEPT ![s] = u]
    BY <1>4, <2>1 DEF IsDanglingFor, Undangle, SetSocket, Attach
  <2> QED
    BY <1>1, <2>1, <2>2 DEF SessionShape
<1>5. CASE AwaitPeer(s, sdp, sockets, states)
  BY <1>1, <1>5 DEF AwaitPeer, SessionShape
<1>6. CASE SetupConnection(s, setup, sdp, sockets, states)
  BY <1>2, <1>3, <1>4, <1>5, <1>6 DEF SetupConnection
<1> QED
  BY <1>2, <1>6 DEF Described, sockets, states

\* So has every step of a session.
LEMMA SessionStepShape ==
  ASSUME TypeOK, NEW s \in Sessions, SessionStep(s)
  PROVE  SessionShape(s)
<1>1. ASSUME NEW reg, End(s, reg) PROVE SessionShape(s)
  <2>1. CASE s \in ended
    BY <1>1, <2>1 DEF End, SessionShape, serverVars
  <2>2. CASE s \notin ended
    BY <1>1, <2>2, AfterCloseShape
       DEF End, SessionShape, serverVars
  <2> QED
    BY <2>1, <2>2
<1>2. CASE EndSession(s) \/ RemoveSession(s)
  BY <1>1, <1>2 DEF EndSession, RemoveSession
<1>3. CASE DescriptionReady(s)
  BY <1>3, DescribedShape DEF DescriptionReady
<1>4. ASSUME NEW sdp \in RemoteSdps, SetDescription(s, sdp) PROVE SessionShape(s)
  BY <1>4, DescribedShape DEF SetDescription
<1>5. CASE \/ CreateSession(s) \/ GetDescription(s) \/ NoPort(s)
           \/ ConnectTimedOut(s) \/ ReconnectTimedOut(s)
  <2>1. UNCHANGED <<socket, sockState, connector, dangling>>
    BY <1>5 DEF CreateSession, GetDescription, NoPort, ConnectTimedOut,
                ReconnectTimedOut, sessionVars, netVars, serverVars
  <2> QED
    BY <2>1 DEF SessionShape
<1> QED
  BY <1>2, <1>3, <1>4, <1>5 DEF SessionStep

-----------------------------------------------------------------------------
(* A dangling socket is no session's socket.  Inductive with it: neither a *)
(* session's socket nor a dangling one is still unused or connecting, so   *)
(* the sockets that Connection and ConnectDone hand out are nobody's.      *)

Established(u) == sockState[u] \notin {"unused", "connecting"}

SocketInv ==
  /\ \A s \in Sessions : socket[s] # NoSocket => Established(socket[s])
  /\ \A u \in dangling : Established(u)
  /\ DanglingUnassigned

\* What a step of session s does keeps the invariant.
LEMMA SessionKeepsSocketInv ==
  ASSUME TypeOK, SocketInv, NEW s \in Sessions, SessionShape(s)
  PROVE  SocketInv'
<1>1. \A u \in Sockets : Established(u) => Established(u)'
  BY DEF SessionShape, Established
<1>2. dangling' \subseteq dangling /\ dangling \subseteq Sockets
  BY DEF SessionShape, TypeOK
<1>3. \A t \in Sessions : (socket[t] # NoSocket => Established(socket[t]))'
  <2> SUFFICES ASSUME NEW t \in Sessions, socket'[t] # NoSocket
               PROVE  Established(socket[t])'
    OBVIOUS
  <2>1. socket'[t] = socket[t] \/ socket'[t] \in dangling
    BY DEF SessionShape
  <2>2. socket'[t] \in Sockets /\ Established(socket'[t])
    BY <1>2, <2>1 DEF SocketInv, TypeOK
  <2> QED
    BY <1>1, <2>2 DEF Established
<1>4. \A t \in Sessions : socket'[t] \notin dangling'
  BY NullAssumption, <1>2 DEF SocketInv, DanglingUnassigned, SessionShape
<1> QED
  BY <1>1, <1>2, <1>3, <1>4 DEF SocketInv, DanglingUnassigned

\* The first session that waits for an address is a registered one.
LEMMA ConnectionGives ==
  ASSUME TypeOK, NEW u \in Sockets, NEW addr \in Addrs, Connection(u, addr)
  PROVE  \/ /\ dangling' = dangling \cup {u} /\ UNCHANGED socket
         \/ /\ UNCHANGED dangling
            /\ \E s \in registered : socket' = [socket EXCEPT ![s] = u]
<1>1. CASE Waiting(addr) = {}
  BY <1>1 DEF Connection
<1>2. CASE Waiting(addr) # {}
  BY <1>2 DEF Connection, Waiting, SetSocket, Attach, serverVars
<1> QED
  BY <1>1, <1>2

\* What a step of a socket does keeps the invariant.
LEMMA SocketKeepsSocketInv ==
  ASSUME TypeOK, SocketInv, NEW u \in Sockets, SocketStep(u)
  PROVE  SocketInv'
<1> USE DEF sessionVars, netVars, serverVars
<1>1. ASSUME NEW s \in Sessions, socket' = [socket EXCEPT ![s] = u],
             dangling' \subseteq dangling, u \notin dangling', Established(u)',
             \A v \in Sockets : Established(v) => Established(v)'
      PROVE  SocketInv'
  BY <1>1 DEF TypeOK, SocketInv, DanglingUnassigned
<1>2. ASSUME UNCHANGED socket, dangling' \subseteq dangling,
             \A v \in Sockets : Established(v) => Established(v)'
      PROVE  SocketInv'
  BY <1>2 DEF TypeOK, SocketInv, DanglingUnassigned
<1>3. CASE ConnectDone(u)
  <2>1. /\ u \notin dangling /\ UNCHANGED dangling /\ connector[u] \in Sessions
        /\ Established(u)'
        /\ \A v \in Sockets : Established(v) => Established(v)'
    BY <1>3 DEF ConnectDone, SocketInv, Established, TypeOK
  <2>2. UNCHANGED socket \/ socket' = [socket EXCEPT ![connector[u]] = u]
    BY <1>3 DEF ConnectDone, SetSocket, Attach
  <2> QED
    BY <1>1, <1>2, <2>1, <2>2
<1>4. ASSUME NEW addr \in Addrs, Connection(u, addr) PROVE SocketInv'
  <2>1. /\ ~Established(u) /\ Established(u)'
        /\ \A v \in Sockets : Established(v) => Established(v)'
    BY <1>4 DEF Connection, IsNext, Established, TypeOK
  <2>2. u \notin dangling /\ \A s \in Sessions : socket[s] # u
    BY <2>1, NullAssumption DEF SocketInv
  <2>3. CASE dangling' = dangling \cup {u} /\ UNCHANGED socket
    BY <2>1, <2>2, <2>3 DEF SocketInv, DanglingUnassigned, TypeOK
  <2>4. CASE /\ UNCHANGED dangling
             /\ \E s \in registered : socket' = [socket EXCEPT ![s] = u]
    BY <1>1, <2>1, <2>2, <2>4 DEF TypeOK
  <2> QED
    BY <1>4, <2>3, <2>4, ConnectionGives
<1>5. ASSUME NEW s \in Sessions, Request(u, s) PROVE SocketInv'
  <2>1. /\ Established(u)' /\ \A v \in Sockets : Established(v) => Established(v)'
    BY <1>5 DEF Request, Established, Live
  <2>2. \/ UNCHANGED <<socket, dangling>>
        \/ socket' = [socket EXCEPT ![s] = u] /\ dangling' = dangling \ {u}
    BY <1>5 DEF Request, Attach, Undangle
  <2> QED
    BY <1>1, <1>2, <2>1, <2>2
<1>6. CASE ConnectFails(u) \/ Destroy(u) \/ Close(u) \/ DanglingTimedOut(u)
  <2>1. UNCHANGED socket /\ dangling' \subseteq dangling
    BY <1>6 DEF ConnectFails, Destroy, Close, DanglingTimedOut, Undangle
  <2>2. \A v \in Sockets : Established(v) => Established(v)'
    BY <1>6 DEF ConnectFails, Destroy, Close, DanglingTimedOut, Established,
                TypeOK, Live
  <2> QED
    BY <1>2, <2>1, <2>2
<1> QED
  BY <1>3, <1>4, <1>5, <1>6 DEF SocketStep

\* The dangling timeout never ends a connection a session was given: no
\* session's socket is in danglingSockets.
THEOREM DanglingSafe == Spec => []DanglingUnassigned
<1>1. Init => SocketInv
  BY NullAssumption DEF Init, SocketInv, DanglingUnassigned
<1>2. TypeOK /\ SocketInv /\ [Next]_vars => SocketInv'
  <2>1. ASSUME SocketInv, UNCHANGED vars PROVE SocketInv'
    BY <2>1 DEF SocketInv, Established, DanglingUnassigned, vars, sessionVars,
                netVars, serverVars
  <2> QED
    BY <2>1, SessionStepShape, SessionKeepsSocketInv, SocketKeepsSocketInv DEF Next
<1>3. SocketInv => DanglingUnassigned
  BY DEF SocketInv
<1> QED
  BY <1>1, <1>2, <1>3, TypeCorrect, PTL DEF Spec

-----------------------------------------------------------------------------
(* Without useInboundMessageForSocketSetup a socket has one session: a     *)
(* session gets a new connection, its own connect or a dangling socket,    *)
(* and by SocketInv none of them is anybody's socket.                      *)

\* No two sessions have the same socket, whatever addresses they share.
THEOREM Exclusive ==
  ASSUME UseInbound = FALSE
  PROVE  Spec => []SocketExclusive
<1>1. Init => SocketInv /\ SocketExclusive
  BY NullAssumption DEF Init, SocketInv, DanglingUnassigned, SocketExclusive
<1>2. ASSUME SocketExclusive, NEW s \in Sessions, NEW u \in Sockets, TypeOK,
             \A t \in Sessions : socket[t] # u, socket' = [socket EXCEPT ![s] = u]
      PROVE  SocketExclusive'
  BY <1>2 DEF SocketExclusive, TypeOK
<1>3. ASSUME TypeOK, SocketInv, SocketExclusive, NEW s \in Sessions, SessionStep(s)
      PROVE  SocketExclusive'
  <2>1. SessionShape(s)
    BY <1>3, SessionStepShape
  <2>2. CASE socket'[s] \in {socket[s], NoSocket}
    BY <1>3, <2>1, <2>2 DEF SessionShape, SocketExclusive
  <2>3. CASE socket'[s] \in dangling
    BY <1>3, <2>1, <2>3 DEF SessionShape, SocketExclusive, SocketInv,
                            DanglingUnassigned
  <2> QED
    BY <2>1, <2>2, <2>3 DEF SessionShape
<1>4. ASSUME TypeOK, SocketInv, SocketExclusive, NEW u \in Sockets, SocketStep(u)
      PROVE  SocketExclusive'
  <2>1. ASSUME UNCHANGED socket PROVE SocketExclusive'
    BY <1>4, <2>1 DEF SocketExclusive
  <2>2. ASSUME ~Established(u) PROVE \A t \in Sessions : socket[t] # u
    BY <1>4, <2>2, NullAssumption DEF SocketInv
  <2>3. CASE ConnectDone(u)
    <3>1. ~Established(u) /\ connector[u] \in Sessions
      BY <1>4, <2>3 DEF ConnectDone, Established, TypeOK
    <3>2. UNCHANGED socket \/ socket' = [socket EXCEPT ![connector[u]] = u]
      BY <2>3 DEF ConnectDone, SetSocket, Attach
    <3> QED
      BY <1>2, <1>4, <2>1, <2>2, <3>1, <3>2
  <2>4. ASSUME NEW addr \in Addrs, Connection(u, addr) PROVE SocketExclusive'
    <3>1. ~Established(u)
      BY <2>4 DEF Connection, IsNext, Established
    <3>2. \/ UNCHANGED socket
          \/ \E s \in Sessions : socket' = [socket EXCEPT ![s] = u]
      BY <1>4, <2>4, ConnectionGives DEF TypeOK
    <3> QED
      BY <1>2, <1>4, <2>1, <2>2, <3>1, <3>2
  <2>5. CASE \/ ConnectFails(u) \/ Destroy(u) \/ Close(u) \/ DanglingTimedOut(u)
             \/ \E s \in Sessions : Request(u, s)
    <3>1. UNCHANGED socket
      BY <2>5 DEF ConnectFails, Destroy, Close, DanglingTimedOut, Request,
                  sessionVars
    <3> QED
      BY <2>1, <3>1
  <2> QED
    BY <1>4, <2>3, <2>4, <2>5 DEF SocketStep
<1>5. TypeOK /\ SocketInv /\ SocketExclusive /\ [Next]_vars
        => SocketInv' /\ SocketExclusive'
  <2>1. ASSUME SocketInv, SocketExclusive, UNCHANGED vars
        PROVE  SocketInv' /\ SocketExclusive'
    BY <2>1 DEF SocketInv, Established, DanglingUnassigned, SocketExclusive, vars,
                sessionVars, netVars, serverVars
  <2> QED
    BY <1>3, <1>4, <2>1, SessionStepShape, SessionKeepsSocketInv,
       SocketKeepsSocketInv DEF Next
<1> QED
  BY <1>1, <1>5, TypeCorrect, PTL DEF Spec

-----------------------------------------------------------------------------
(* A session talks to its remote party.  Inductive with SocketInv: what is *)
(* connected keeps its remote address, every way to a socket compares that *)
(* address with the remote description of then, and a description that     *)
(* replaces another one closes the socket first.                           *)

AddressesStay ==
  \A u \in Sockets : sockState[u] # "unused" => sockAddr'[u] = sockAddr[u]

\* The end of getDescription and of setDescription: the session keeps what
\* closeSocket has left or takes a dangling socket of the party in sdp.
LEMMA DescribedPeer ==
  ASSUME TypeOK, NEW s \in Sessions, NEW side, NEW setup, NEW sdp, NEW closes,
         Described(s, side, setup, sdp, closes)
  PROVE  /\ AddressesStay
         /\ \A t \in Sessions : t # s => socket'[t] = socket[t]
         /\ \/ socket'[s] = IF closes THEN NoSocket ELSE socket[s]
            \/ /\ sdp # NoSdp /\ socket'[s] \in Sockets
               /\ sockAddr[socket'[s]] = sdp.addr
<1> DEFINE sockets == IF closes THEN WithoutSocket(s) ELSE socket
           states == IF closes THEN AfterClose(s, registered) ELSE sockState
<1>1. /\ sockets \in [Sessions -> Sockets \cup {NoSocket}]
      /\ \A t \in Sessions : t # s => sockets[t] = socket[t]
      /\ sockets[s] = IF closes THEN NoSocket ELSE socket[s]
  BY DEF WithoutSocket, TypeOK
<1>2. sockAddr \in [Sockets -> Addrs \cup {NoAddr}]
  BY DEF TypeOK
<1> HIDE DEF sockets, states
<1>3. CASE NoConnection(s, sockets, states)
  BY <1>1, <1>3 DEF NoConnection, AddressesStay
<1>4. CASE Connect(s, sdp, sockets, states)
  BY <1>1, <1>2, <1>4 DEF Connect, IsNext, AddressesStay
<1>5. CASE sdp # NoSdp /\ TakeDangling(s, sdp, sockets, states)
  <2>1. PICK u \in Sockets : /\ sockAddr[u] = sdp.addr /\ UNCHANGED sockAddr
                             /\ socket' = [sockets EXCEPT ![s] = u]
    BY <1>5 DEF TakeDangling, IsDanglingFor, SetSocket, Attach
  <2> QED
    BY <1>1, <1>5, <2>1 DEF AddressesStay
<1>6. CASE AwaitPeer(s, sdp, sockets, states)
  BY <1>1, <1>6 DEF AwaitPeer, AddressesStay
<1>7. CASE SetupConnection(s, setup, sdp, sockets, states)
  BY <1>3, <1>4, <1>5, <1>6, <1>7 DEF SetupConnection
<1> QED
  BY <1>3, <1>7 DEF Described, sockets, states

\* What a step of session s does keeps it.
LEMMA SessionKeepsPeer ==
  ASSUME TypeOK, SocketInv, SocketOfPeer, NEW s \in Sessions, SessionStep(s)
  PROVE  SocketOfPeer'
<1>1. /\ socket \in [Sessions -> Sockets \cup {NoSocket}]
      /\ remoteSdp \in [Sessions -> RemoteSdps \cup {NoSdp}]
      /\ NoSdp \notin RemoteSdps
  BY SdpAssumption DEF TypeOK
<1>2. \A t \in Sessions : socket[t] # NoSocket
        => /\ socket[t] \in Sockets /\ sockState[socket[t]] # "unused"
           /\ remoteSdp[t] # NoSdp /\ sockAddr[socket[t]] = remoteSdp[t].addr
  BY <1>1 DEF SocketInv, Established, SocketOfPeer
<1>3. ASSUME \A t \in Sessions : t # s => socket'[t] = socket[t] /\ UNCHANGED remoteSdp[t],
             AddressesStay,
             socket'[s] # NoSocket => /\ remoteSdp'[s] # NoSdp
                                      /\ sockAddr'[socket'[s]] = remoteSdp'[s].addr
      PROVE  SocketOfPeer'
  BY <1>2, <1>3 DEF SocketOfPeer, AddressesStay
<1>4. SessionShape(s)
  BY SessionStepShape
<1>5. socket'[s] # NoSocket => sockState[socket'[s]] # "unused"
  BY <1>2, <1>4 DEF SessionShape, SocketInv, Established, TypeOK
<1>6. CASE DescriptionReady(s)
  <2> DEFINE closes == localSetup[s] # "none" /\ socket[s] # NoSocket
                         /\ PathsDiffer(localSetup[s], describing[s])
  <2>1. Described(s, "local", describing[s], remoteSdp[s], closes) /\ UNCHANGED remoteSdp
    BY <1>6 DEF DescriptionReady
  <2> HIDE DEF closes
  <2>2. /\ AddressesStay
        /\ \A t \in Sessions : t # s => socket'[t] = socket[t]
        /\ \/ socket'[s] = IF closes THEN NoSocket ELSE socket[s]
           \/ /\ remoteSdp[s] # NoSdp /\ socket'[s] \in Sockets
              /\ sockAddr[socket'[s]] = remoteSdp[s].addr
    BY <2>1, DescribedPeer
  <2>3. socket'[s] # NoSocket => remoteSdp[s] # NoSdp
                                 /\ sockAddr'[socket'[s]] = remoteSdp[s].addr
    BY <1>2, <1>5, <2>2 DEF AddressesStay
  <2> QED
    BY <1>3, <2>1, <2>2, <2>3
<1>7. ASSUME NEW sdp \in RemoteSdps, SetDescription(s, sdp) PROVE SocketOfPeer'
  <2> DEFINE closes == remoteSdp[s] # NoSdp /\ socket[s] # NoSocket
                         /\ (PathsDiffer(remoteSdp[s], sdp) \/ sdp.dir = "inactive")
  <2>1. /\ Described(s, "remote", localSetup[s], sdp, closes)
        /\ remoteSdp' = [remoteSdp EXCEPT ![s] = sdp]
    BY <1>7 DEF SetDescription
  <2>2. ~closes => socket[s] = NoSocket
    BY <1>2 DEF PathsDiffer
  <2> HIDE DEF closes
  <2>3. /\ AddressesStay
        /\ \A t \in Sessions : t # s => socket'[t] = socket[t]
        /\ \/ socket'[s] = IF closes THEN NoSocket ELSE socket[s]
           \/ /\ sdp # NoSdp /\ socket'[s] \in Sockets
              /\ sockAddr[socket'[s]] = sdp.addr
    BY <2>1, DescribedPeer
  <2>4. socket'[s] # NoSocket => sdp # NoSdp /\ sockAddr'[socket'[s]] = sdp.addr
    BY <1>5, <2>2, <2>3 DEF AddressesStay
  <2> QED
    BY <1>1, <1>3, <2>1, <2>3, <2>4
<1>8. CASE EndSession(s) \/ RemoveSession(s)
  <2>1. /\ UNCHANGED <<remoteSdp, sockAddr>>
        /\ socket' = socket \/ socket' = WithoutSocket(s)
    BY <1>8 DEF EndSession, RemoveSession, End, sdpVars
  <2>2. socket'[s] \in {socket[s], NoSocket}
    BY <1>1, <2>1 DEF WithoutSocket
  <2> QED
    BY <1>2, <1>3, <1>4, <2>1, <2>2 DEF AddressesStay, SessionShape
<1>9. CASE \/ CreateSession(s) \/ GetDescription(s) \/ NoPort(s)
           \/ ConnectTimedOut(s) \/ ReconnectTimedOut(s)
  <2>1. UNCHANGED <<socket, remoteSdp, sockAddr>>
    BY <1>9 DEF CreateSession, GetDescription, NoPort, ConnectTimedOut,
                ReconnectTimedOut, sessionVars, sdpVars, netVars
  <2> QED
    BY <2>1 DEF SocketOfPeer
<1> QED
  BY <1>6, <1>7, <1>8, <1>9 DEF SessionStep

\* What a step of a socket does keeps it, unless a request may bring one.
LEMMA SocketKeepsPeer ==
  ASSUME ~UseInbound, TypeOK, SocketInv, SocketOfPeer, NEW u \in Sockets, SocketStep(u)
  PROVE  SocketOfPeer'
<1>1. /\ socket \in [Sessions -> Sockets \cup {NoSocket}]
      /\ sockAddr \in [Sockets -> Addrs \cup {NoAddr}]
  BY DEF TypeOK
<1>2. UNCHANGED remoteSdp /\ AddressesStay
  BY <1>1 DEF SocketStep, ConnectDone, ConnectFails, Connection, Destroy, Close, Request,
              DanglingTimedOut, sdpVars, netVars, IsNext, AddressesStay
<1>3. \A t \in Sessions : socket[t] # NoSocket
        => /\ remoteSdp[t] # NoSdp /\ sockAddr'[socket[t]] = remoteSdp[t].addr
  BY <1>1, <1>2 DEF SocketInv, Established, SocketOfPeer, AddressesStay
<1>4. ASSUME UNCHANGED socket PROVE SocketOfPeer'
  BY <1>2, <1>3, <1>4 DEF SocketOfPeer
<1>5. ASSUME NEW s \in Sessions, remoteSdp[s] # NoSdp, sockAddr'[u] = remoteSdp[s].addr,
             socket' = [socket EXCEPT ![s] = u]
      PROVE  SocketOfPeer'
  BY <1>1, <1>2, <1>3, <1>5 DEF SocketOfPeer
<1>6. CASE ConnectDone(u)
  <2>1. \/ UNCHANGED socket
        \/ /\ remoteSdp[connector[u]] # NoSdp
           /\ sockAddr'[u] = remoteSdp[connector[u]].addr
           /\ socket' = [socket EXCEPT ![connector[u]] = u]
    BY <1>6 DEF ConnectDone, ComesFrom, SetSocket, Attach
  <2>2. connector[u] \in Sessions
    BY <1>6 DEF ConnectDone, TypeOK
  <2> QED
    BY <1>4, <1>5, <2>1, <2>2
<1>7. ASSUME NEW addr \in Addrs, Connection(u, addr) PROVE SocketOfPeer'
  <2>1. sockAddr'[u] = addr
    BY <1>1, <1>7 DEF Connection
  <2>2. \/ UNCHANGED socket
        \/ \E s \in Sessions : /\ remoteSdp[s] # NoSdp /\ remoteSdp[s].addr = addr
                               /\ socket' = [socket EXCEPT ![s] = u]
    BY <1>7 DEF Connection, Waiting, ComesFrom, SetSocket, Attach, TypeOK
  <2> QED
    BY <1>4, <1>5, <2>1, <2>2
<1>8. CASE \/ ConnectFails(u) \/ Destroy(u) \/ Close(u) \/ DanglingTimedOut(u)
           \/ \E s \in Sessions : Request(u, s)
  <2>1. UNCHANGED socket
    BY <1>8 DEF ConnectFails, Destroy, Close, DanglingTimedOut, Request, sessionVars
  <2> QED
    BY <1>4, <2>1
<1> QED
  BY <1>6, <1>7, <1>8 DEF SocketStep

PeerInv == SocketInv /\ SocketOfPeer

LEMMA PeerStep ==
  ASSUME ~UseInbound, TypeOK, PeerInv, [Next]_vars
  PROVE  PeerInv'
<1>1. ASSUME UNCHANGED vars PROVE PeerInv'
  BY <1>1 DEF PeerInv, SocketInv, Established, DanglingUnassigned, SocketOfPeer, vars,
              sessionVars, sdpVars, netVars, serverVars
<1> QED
  BY <1>1, SessionStepShape, SessionKeepsSocketInv, SocketKeepsSocketInv,
     SessionKeepsPeer, SocketKeepsPeer DEF Next, PeerInv

LEMMA PeerInit == Init => PeerInv
  BY NullAssumption DEF Init, PeerInv, SocketInv, DanglingUnassigned, SocketOfPeer

\* Whatever the application does and whenever a connect, a connection or the
\* timeout of a dangling socket comes, a session's socket leads to the remote
\* party of its last description.
THEOREM TalksToPeer ==
  ASSUME ~UseInbound
  PROVE  Spec => []SocketOfPeer
<1>1. PeerInv => SocketOfPeer
  BY DEF PeerInv
<1> QED
  BY <1>1, PeerInit, PeerStep, TypeCorrect, PTL DEF Spec

-----------------------------------------------------------------------------
(* The negotiation.  Inductive: the description of an offer that waits is  *)
(* set, and a getDescription that is suspended meanwhile answers an offer  *)
(* of the other party.  Unless that offer came during the await, the role  *)
(* it has chosen is the one for this offer.                                *)

\* The steps that change a description or the state of a negotiation.
Negotiates(s) ==
  \/ GetDescription(s) \/ DescriptionReady(s) \/ NoPort(s)
  \/ \E sdp \in RemoteSdps : SetDescription(s, sdp)

LEMMA OthersDoNotNegotiate ==
  ASSUME [Next]_vars
  PROVE  \/ UNCHANGED <<sdpState, offerer, localSetup, remoteSdp, describing, overtaken>>
         \/ \E s \in Sessions : Negotiates(s)
<1> USE DEF sdpVars
<1>1. CASE UNCHANGED vars
  BY <1>1 DEF vars
<1>2. ASSUME NEW s \in Sessions, SessionStep(s)
      PROVE  \/ UNCHANGED <<sdpState, offerer, localSetup, remoteSdp, describing, overtaken>>
             \/ Negotiates(s)
  BY <1>2 DEF SessionStep, Negotiates, CreateSession, EndSession, RemoveSession, End,
              ConnectTimedOut, ReconnectTimedOut
<1>3. ASSUME NEW u \in Sockets, SocketStep(u)
      PROVE  UNCHANGED <<sdpState, offerer, localSetup, remoteSdp, describing, overtaken>>
  BY <1>3 DEF SocketStep, ConnectDone, ConnectFails, Connection, Destroy, Close,
              Request, DanglingTimedOut
<1> QED
  BY <1>1, <1>2, <1>3 DEF Next

\* What such a step does to the descriptions; "throws" leaves the state of
\* the negotiation although the description is set.
LEMMA NegotiationStep ==
  ASSUME TypeOK, NEW s \in Sessions, Negotiates(s)
  PROVE  /\ \A t \in Sessions : t # s =>
              /\ UNCHANGED <<sdpState[t], offerer[t], localSetup[t], remoteSdp[t],
                             describing[t]>>
              /\ t \in overtaken' <=> t \in overtaken
         /\ \/ /\ describing[s] = "none" /\ describing'[s] = ChosenSetup(s)
               /\ InTurn(s, "local") /\ UNCHANGED overtaken
               /\ UNCHANGED <<sdpState[s], offerer[s], localSetup[s], remoteSdp[s]>>
            \/ /\ describing[s] # "none" /\ describing'[s] = "none"
               /\ UNCHANGED <<sdpState[s], offerer[s], localSetup[s], remoteSdp[s],
                              overtaken>>
            \/ /\ describing[s] # "none" /\ describing'[s] = "none"
               /\ localSetup'[s] = describing[s]
               /\ UNCHANGED <<remoteSdp[s], overtaken>>
               /\ \/ /\ sdpState'[s] = NextSdpState[sdpState[s]]
                     /\ offerer'[s] = IF sdpState[s] = "offered" THEN offerer[s] ELSE "local"
                  \/ /\ "throws" \in Liberties
                     /\ UNCHANGED <<sdpState[s], offerer[s]>>
            \/ /\ s \in overtaken' <=> describing[s] # "none"
               /\ InTurn(s, "remote") /\ remoteSdp'[s] \in RemoteSdps
               /\ UNCHANGED <<localSetup[s], describing[s]>>
               /\ \/ /\ sdpState'[s] = NextSdpState[sdpState[s]]
                     /\ offerer'[s] = IF sdpState[s] = "offered" THEN offerer[s] ELSE "remote"
                  \/ /\ "throws" \in Liberties
                     /\ UNCHANGED <<sdpState[s], offerer[s]>>
<1>0. /\ sdpState \in [Sessions -> {"null", "offered", "answered"}]
      /\ offerer \in [Sessions -> {"none", "local", "remote"}]
      /\ localSetup \in [Sessions -> LocalSetups]
      /\ remoteSdp \in [Sessions -> RemoteSdps \cup {NoSdp}]
      /\ describing \in [Sessions -> LocalSetups]
  BY DEF TypeOK
<1>1. CASE GetDescription(s)
  BY <1>0, <1>1 DEF GetDescription, MayDescribe
<1>2. CASE NoPort(s)
  BY <1>0, <1>2 DEF NoPort
<1>3. ASSUME NEW side, NEW setup, NEW sdp, NEW closes, Described(s, side, setup, sdp, closes)
      PROVE  /\ \A t \in Sessions : t # s => UNCHANGED <<sdpState[t], offerer[t]>>
             /\ \/ /\ sdpState'[s] = NextSdpState[sdpState[s]]
                   /\ offerer'[s] = IF sdpState[s] = "offered" THEN offerer[s] ELSE side
                \/ /\ "throws" \in Liberties
                   /\ UNCHANGED <<sdpState[s], offerer[s]>>
  BY <1>0, <1>3 DEF Described, UpdateSdpState
<1>4. CASE DescriptionReady(s)
  <2>1. /\ describing[s] # "none" /\ describing' = [describing EXCEPT ![s] = "none"]
        /\ localSetup' = [localSetup EXCEPT ![s] = describing[s]]
        /\ UNCHANGED <<remoteSdp, overtaken>>
    BY <1>4 DEF DescriptionReady
  <2>2. /\ \A t \in Sessions : t # s => UNCHANGED <<sdpState[t], offerer[t]>>
        /\ \/ /\ sdpState'[s] = NextSdpState[sdpState[s]]
              /\ offerer'[s] = IF sdpState[s] = "offered" THEN offerer[s] ELSE "local"
           \/ /\ "throws" \in Liberties
              /\ UNCHANGED <<sdpState[s], offerer[s]>>
    BY <1>3, <1>4 DEF DescriptionReady
  <2> QED
    BY <1>0, <2>1, <2>2
<1>5. ASSUME NEW sdp \in RemoteSdps, SetDescription(s, sdp)
      PROVE  /\ \A t \in Sessions : t # s =>
                  /\ UNCHANGED <<sdpState[t], offerer[t], localSetup[t], remoteSdp[t],
                                 describing[t]>>
                  /\ t \in overtaken' <=> t \in overtaken
             /\ s \in overtaken' <=> describing[s] # "none"
             /\ InTurn(s, "remote") /\ remoteSdp'[s] \in RemoteSdps
             /\ UNCHANGED <<localSetup[s], describing[s]>>
             /\ \/ /\ sdpState'[s] = NextSdpState[sdpState[s]]
                   /\ offerer'[s] = IF sdpState[s] = "offered" THEN offerer[s] ELSE "remote"
                \/ /\ "throws" \in Liberties
                   /\ UNCHANGED <<sdpState[s], offerer[s]>>
  <2>1. /\ remoteSdp' = [remoteSdp EXCEPT ![s] = sdp]
        /\ UNCHANGED <<localSetup, describing>>
        /\ overtaken' = IF describing[s] = "none" THEN overtaken \ {s}
                         ELSE overtaken \cup {s}
        /\ InTurn(s, "remote")
    BY <1>5 DEF SetDescription, MayDescribe
  <2>2. /\ \A t \in Sessions : t # s => UNCHANGED <<sdpState[t], offerer[t]>>
        /\ \/ /\ sdpState'[s] = NextSdpState[sdpState[s]]
              /\ offerer'[s] = IF sdpState[s] = "offered" THEN offerer[s] ELSE "remote"
           \/ /\ "throws" \in Liberties
              /\ UNCHANGED <<sdpState[s], offerer[s]>>
    BY <1>3, <1>5 DEF SetDescription
  <2> QED
    BY <1>0, <2>1, <2>2
<1> QED
  BY <1>1, <1>2, <1>4, <1>5 DEF Negotiates

NegotiationInv ==
  \A s \in Sessions :
    /\ sdpState[s] = "offered" => offerer[s] \in {"local", "remote"}
    /\ sdpState[s] = "offered" /\ offerer[s] = "local" => localSetup[s] # "none"
    /\ sdpState[s] = "offered" /\ offerer[s] = "remote" => remoteSdp[s] # NoSdp
    /\ sdpState[s] = "offered" /\ describing[s] # "none" => offerer[s] = "remote"
    /\ sdpState[s] = "answered" => localSetup[s] # "none" /\ remoteSdp[s] # NoSdp

LEMMA NegotiationInvStep ==
  ASSUME "outOfTurn" \notin Liberties, TypeOK, NegotiationInv, [Next]_vars
  PROVE  NegotiationInv'
<1>1. CASE UNCHANGED <<sdpState, offerer, localSetup, remoteSdp, describing, overtaken>>
  BY <1>1 DEF NegotiationInv
<1>2. ASSUME NEW s \in Sessions, Negotiates(s)
      PROVE  NegotiationInv'
  <2>1. /\ sdpState[s] \in {"null", "offered", "answered"}
        /\ offerer[s] \in {"none", "local", "remote"}
    BY DEF TypeOK
  <2>2. /\ NextSdpState["null"] = "offered" /\ NextSdpState["offered"] = "answered"
        /\ NextSdpState["answered"] = "offered"
    BY DEF NextSdpState
  <2>3. /\ InTurn(s, "local") <=> (sdpState[s] = "offered" => offerer[s] # "local")
        /\ InTurn(s, "remote") <=> (sdpState[s] = "offered" => offerer[s] # "remote")
    BY DEF InTurn
  <2>4. NoSdp \notin RemoteSdps
    BY SdpAssumption
  <2>5. SUFFICES ASSUME NEW t \in Sessions
                 PROVE  /\ sdpState'[t] = "offered" => offerer'[t] \in {"local", "remote"}
                        /\ sdpState'[t] = "offered" /\ offerer'[t] = "local"
                             => localSetup'[t] # "none"
                        /\ sdpState'[t] = "offered" /\ offerer'[t] = "remote"
                             => remoteSdp'[t] # NoSdp
                        /\ sdpState'[t] = "offered" /\ describing'[t] # "none"
                             => offerer'[t] = "remote"
                        /\ sdpState'[t] = "answered"
                             => localSetup'[t] # "none" /\ remoteSdp'[t] # NoSdp
    BY DEF NegotiationInv
  <2>6. CASE t # s
    BY <1>2, <2>6, NegotiationStep DEF NegotiationInv
  <2>7. CASE t = s
    BY <1>2, <2>1, <2>2, <2>3, <2>4, <2>7, NegotiationStep DEF NegotiationInv
  <2> QED
    BY <2>6, <2>7
<1> QED
  BY <1>1, <1>2, OthersDoNotNegotiate

\* A complete negotiation has both descriptions set, also when onSuccess
\* throws and when a description comes between the two halves of
\* getDescription.
THEOREM CompleteAnswer ==
  ASSUME "outOfTurn" \notin Liberties
  PROVE  Spec => []AnsweredComplete
<1>1. Init => NegotiationInv
  BY DEF Init, NegotiationInv
<1>2. NegotiationInv => AnsweredComplete
  BY DEF NegotiationInv, AnsweredComplete
<1> QED
  BY <1>1, <1>2, NegotiationInvStep, TypeCorrect, PTL DEF Spec

\* A suspended getDescription keeps the role it has chosen, and the remote
\* description it has chosen it for, unless that was replaced.
RolesInv ==
  \A s \in Sessions \ overtaken :
    /\ describing[s] # "none" /\ remoteSdp[s] # NoSdp /\ ~ForceSetup
         => describing[s] = AnswerTo[remoteSdp[s].setup]
    /\ sdpState[s] = "answered" /\ offerer[s] = "remote" /\ ~ForceSetup
         => localSetup[s] = AnswerTo[remoteSdp[s].setup]

\* The answer to an offer takes the role that complements it, when the offer
\* had come before getDescription chose the role.
THEOREM RolesOpposite ==
  ASSUME "outOfTurn" \notin Liberties, "throws" \notin Liberties
  PROVE  Spec => []RolesComplement
<1>1. Init => NegotiationInv /\ RolesInv
  BY DEF Init, NegotiationInv, RolesInv
<1>2. ASSUME TypeOK, NegotiationInv, RolesInv, [Next]_vars
      PROVE  RolesInv'
  <2>1. CASE UNCHANGED <<sdpState, offerer, localSetup, remoteSdp, describing, overtaken>>
    BY <1>2, <2>1 DEF RolesInv
  <2>2. ASSUME NEW s \in Sessions, Negotiates(s)
        PROVE  RolesInv'
    <3>1. sdpState[s] \in {"null", "offered", "answered"}
      BY <1>2 DEF TypeOK
    <3>2. /\ NextSdpState["null"] = "offered" /\ NextSdpState["offered"] = "answered"
          /\ NextSdpState["answered"] = "offered"
      BY DEF NextSdpState
    <3>3. InTurn(s, "remote") => (sdpState[s] = "offered" => offerer[s] # "remote")
      BY DEF InTurn
    <3>4. remoteSdp[s] # NoSdp /\ ~ForceSetup
            => ChosenSetup(s) = AnswerTo[remoteSdp[s].setup]
      BY DEF ChosenSetup
    <3>5. sdpState[s] = "offered" /\ offerer[s] = "remote" => remoteSdp[s] # NoSdp
      BY <1>2 DEF NegotiationInv
    <3>6. SUFFICES ASSUME NEW t \in Sessions, t \notin overtaken', ~ForceSetup
                   PROVE  /\ describing'[t] # "none" /\ remoteSdp'[t] # NoSdp
                               => describing'[t] = AnswerTo[remoteSdp'[t].setup]
                          /\ sdpState'[t] = "answered" /\ offerer'[t] = "remote"
                               => localSetup'[t] = AnswerTo[remoteSdp'[t].setup]
      BY DEF RolesInv
    <3>7. CASE t # s
      BY <1>2, <2>2, <3>6, <3>7, NegotiationStep DEF RolesInv
    <3>8. CASE t = s
      BY <1>2, <2>2, <3>1, <3>2, <3>3, <3>4, <3>5, <3>6, <3>8, NegotiationStep
         DEF RolesInv
    <3> QED
      BY <3>7, <3>8
  <2> QED
    BY <1>2, <2>1, <2>2, OthersDoNotNegotiate
<1>3. RolesInv => RolesComplement
  BY DEF RolesInv, RolesComplement
<1> QED
  BY <1>1, <1>2, <1>3, NegotiationInvStep, TypeCorrect, PTL DEF Spec

-----------------------------------------------------------------------------
(* The sockets the code ends.  closeSocket ends the socket of its own      *)
(* session and looks for other users in the registry alone, so it needs    *)
(* that a socket has no other session, or that the closing session is      *)
(* itself registered and counted.                                          *)

Ends(u) == sockState[u] = "open" /\ sockState'[u] = "ended"

\* A socket that getDescription or setDescription ends was the session's own,
\* no other registered session had it, and the session does not keep it.
LEMMA DescribedEnds ==
  ASSUME TypeOK, NEW s \in Sessions, NEW side, NEW setup, NEW sdp,
         NEW closes \in BOOLEAN, Described(s, side, setup, sdp, closes),
         NEW u \in Sockets, Ends(u)
  PROVE  /\ u = socket[s] /\ ~Reused(u, registered)
         /\ socket'[s] = NoSocket \/ socket'[s] \in dangling
<1> DEFINE sockets == IF closes THEN WithoutSocket(s) ELSE socket
           states == IF closes THEN AfterClose(s, registered) ELSE sockState
<1>1. /\ sockets \in [Sessions -> Sockets \cup {NoSocket}]
      /\ states \in [Sockets -> SockStates]
  BY AfterCloseType DEF TypeOK
<1>2. ASSUME states[u] = "ended"
      PROVE  u = socket[s] /\ ~Reused(u, registered) /\ sockets[s] = NoSocket
  <2>1. closes
    BY <1>2 DEF Ends
  <2> QED
    BY <1>2, <2>1, AfterCloseShape DEF AfterClose, Ends
<1> HIDE DEF sockets, states
<1>3. CASE sockState' = states /\ socket' = sockets
  BY <1>2, <1>3 DEF Ends
<1>4. CASE NoConnection(s, sockets, states)
  BY <1>3, <1>4 DEF NoConnection
<1>5. CASE Connect(s, sdp, sockets, states)
  <2>1. PICK v \in Sockets : /\ sockState' = [states EXCEPT ![v] = "connecting"]
                             /\ socket' = sockets
    BY <1>5 DEF Connect
  <2>2. states[u] = "ended"
    BY <1>1, <2>1 DEF Ends
  <2> QED
    BY <1>2, <2>1, <2>2
<1>6. CASE TakeDangling(s, sdp, sockets, states)
  <2>1. PICK v \in Sockets : /\ v \in dangling /\ sockState' = states
                             /\ socket' = [sockets EXCEPT ![s] = v]
    BY <1>6 DEF TakeDangling, IsDanglingFor, SetSocket, Attach
  <2> QED
    BY <1>1, <1>2, <2>1 DEF Ends
<1>7. CASE AwaitPeer(s, sdp, sockets, states)
  BY <1>3, <1>7 DEF AwaitPeer
<1>8. CASE SetupConnection(s, setup, sdp, sockets, states)
  BY <1>4, <1>5, <1>6, <1>7, <1>8 DEF SetupConnection
<1> QED
  BY <1>4, <1>8 DEF Described, sockets, states

\* While no session is removed, all that negotiate are in the registry.
AllCounted ==
  registered = created /\ \A s \in Sessions : describing[s] # "none" => s \in created

\* A socket has one session, or closeSocket counts all the sessions it has.
SharingSeen == SocketExclusive \/ ("remove" \notin Liberties /\ AllCounted)

\* A socket that a step of session s ends is used by no registered session.
LEMMA SessionEnds ==
  ASSUME TypeOK, DanglingUnassigned, NEW s \in Sessions, SessionStep(s),
         SharingSeen,
         NEW u \in Sockets, Ends(u), NEW t \in registered'
  PROVE  socket'[t] # u
<1>1. /\ socket \in [Sessions -> Sockets \cup {NoSocket}]
      /\ registered \subseteq Sessions
      /\ NoSocket \notin Sockets
  BY NullAssumption DEF TypeOK
<1>2. ASSUME u = socket[s], ~Reused(u, registered), t \in registered, s \in created,
             \A r \in Sessions : r # s => socket'[r] = socket[r],
             socket'[s] = NoSocket \/ socket'[s] \in dangling
      PROVE  socket'[t] # u
  <2>1. CASE t = s
    BY <1>1, <1>2, <2>1 DEF DanglingUnassigned
  <2>2. CASE t # s
    BY <1>1, <1>2, <2>2 DEF SharingSeen, AllCounted, Reused, SocketExclusive
  <2> QED
    BY <2>1, <2>2
<1>3. SessionShape(s)
  BY SessionStepShape
<1>4. \A r \in Sessions : r # s => socket'[r] = socket[r]
  BY <1>3 DEF SessionShape
<1>5. CASE DescriptionReady(s)
  <2>1. t \in registered
    BY <1>5 DEF DescriptionReady, registryVars
  <2>2. PICK closes \in BOOLEAN : Described(s, "local", describing[s], remoteSdp[s], closes)
    BY <1>5 DEF DescriptionReady
  <2>3. /\ u = socket[s] /\ ~Reused(u, registered)
        /\ socket'[s] = NoSocket \/ socket'[s] \in dangling
    BY <2>2, DescribedEnds
  <2>4. CASE s \in created
    BY <1>2, <1>4, <2>1, <2>3, <2>4
  <2>5. CASE SocketExclusive
    <3>1. CASE t = s
      BY <1>1, <2>3, <3>1 DEF DanglingUnassigned
    <3>2. CASE t # s
      BY <1>1, <1>4, <2>1, <2>3, <2>5, <3>2 DEF SocketExclusive
    <3> QED
      BY <3>1, <3>2
  <2> QED
    BY <1>5, <2>4, <2>5 DEF DescriptionReady, SharingSeen, AllCounted
<1>6. ASSUME NEW sdp \in RemoteSdps, SetDescription(s, sdp) PROVE socket'[t] # u
  <2>1. t \in registered
    BY <1>6 DEF SetDescription, registryVars
  <2>2. PICK closes \in BOOLEAN : Described(s, "remote", localSetup[s], sdp, closes)
    BY <1>6 DEF SetDescription
  <2>3. s \in created
    BY <1>6 DEF SetDescription, MayDescribe
  <2> QED
    BY <1>2, <1>4, <2>1, <2>2, <2>3, DescribedEnds
<1>7. ASSUME NEW reg, End(s, reg)
      PROVE  u = socket[s] /\ ~Reused(u, reg) /\ socket'[s] = NoSocket
  <2>1. s \notin ended
    BY <1>7 DEF End, Ends
  <2>2. sockState' = AfterClose(s, reg) /\ socket' = WithoutSocket(s)
    BY <1>7, <2>1 DEF End
  <2> QED
    BY <1>1, <2>2 DEF AfterClose, WithoutSocket, Ends
<1>8. CASE EndSession(s)
  <2>1. t \in registered /\ s \in created
    BY <1>8 DEF EndSession
  <2> QED
    BY <1>2, <1>4, <1>7, <1>8, <2>1 DEF EndSession
<1>9. CASE RemoveSession(s)
  <2>1. t \in registered /\ SocketExclusive
    BY <1>9 DEF RemoveSession, SharingSeen
  <2>2. u = socket[s] /\ socket'[s] = NoSocket
    BY <1>7, <1>9 DEF RemoveSession
  <2> QED
    BY <1>1, <1>4, <2>1, <2>2 DEF SocketExclusive
<1>10. CASE \/ CreateSession(s) \/ GetDescription(s) \/ NoPort(s)
            \/ ConnectTimedOut(s) \/ ReconnectTimedOut(s)
  BY <1>10 DEF CreateSession, GetDescription, NoPort, ConnectTimedOut,
               ReconnectTimedOut, netVars, Ends
<1> QED
  BY <1>5, <1>6, <1>8, <1>9, <1>10 DEF SessionStep

\* A step of a socket ends dangling sockets only.
LEMMA SocketEnds ==
  ASSUME TypeOK, DanglingUnassigned, NEW v \in Sockets, SocketStep(v),
         NEW u \in Sockets, Ends(u), NEW t \in registered'
  PROVE  socket'[t] # u
<1>1. DanglingTimedOut(v)
  BY DEF SocketStep, ConnectDone, ConnectFails, Connection, Destroy, Close, Request,
         Ends, TypeOK
<1>2. u \in dangling
  BY <1>1 DEF DanglingTimedOut, Ends, TypeOK
<1>3. t \in Sessions /\ UNCHANGED socket
  BY <1>1 DEF DanglingTimedOut, registryVars, sessionVars, TypeOK
<1> QED
  BY <1>2, <1>3 DEF DanglingUnassigned

\* That stays so.
LEMMA AllCountedStep ==
  ASSUME "remove" \notin Liberties, TypeOK, AllCounted, [Next]_vars
  PROVE  AllCounted'
<1> USE DEF registryVars, sdpVars
<1>1. ASSUME UNCHANGED <<registered, created, describing>> PROVE AllCounted'
  BY <1>1 DEF AllCounted
<1>2. ASSUME NEW s \in Sessions, SessionStep(s) PROVE AllCounted'
  <2>1. CASE CreateSession(s)
    BY <2>1 DEF CreateSession, AllCounted
  <2>2. CASE GetDescription(s)
    BY <2>2 DEF GetDescription, MayDescribe, AllCounted, TypeOK
  <2>3. CASE DescriptionReady(s) \/ NoPort(s)
    BY <2>3 DEF DescriptionReady, NoPort, AllCounted, TypeOK
  <2>4. CASE EndSession(s) \/ ConnectTimedOut(s) \/ ReconnectTimedOut(s)
             \/ \E sdp \in RemoteSdps : SetDescription(s, sdp)
    BY <1>1, <2>4 DEF EndSession, End, ConnectTimedOut, ReconnectTimedOut, SetDescription
  <2> QED
    BY <1>2, <2>1, <2>2, <2>3, <2>4 DEF SessionStep, RemoveSession
<1>3. ASSUME NEW u \in Sockets, SocketStep(u) PROVE AllCounted'
  BY <1>1, <1>3 DEF SocketStep, ConnectDone, ConnectFails, Connection, Destroy, Close,
                    Request, DanglingTimedOut
<1>4. CASE UNCHANGED vars
  BY <1>1, <1>4 DEF vars
<1> QED
  BY <1>2, <1>3, <1>4 DEF Next

\* No socket is ended under a registered session, provided that requests do
\* not bring sockets, so that none is shared, or that no session is removed:
\* removeSession takes the session from the registry before closeSocket counts.
THEOREM UsedSocketsStay ==
  ASSUME UseInbound = FALSE \/ "remove" \notin Liberties
  PROVE  Spec => NeverEndsUsedSocket
<1> DEFINE Safe == \A u \in Sockets :
                     sockState[u] = "open" /\ sockState'[u] = "ended"
                       => \A s \in registered' : socket'[s] # u
<1>1. TypeOK /\ DanglingUnassigned /\ SharingSeen /\ [Next]_vars => [Safe]_vars
  BY SessionEnds, SocketEnds DEF Next, Ends
<1>2. Spec => []SharingSeen
  <2>1. CASE UseInbound = FALSE
    <3>1. SocketExclusive => SharingSeen
      BY DEF SharingSeen
    <3>2. Spec => []SocketExclusive
      BY <2>1, Exclusive
    <3> QED
      BY <3>1, <3>2, PTL
  <2>2. CASE "remove" \notin Liberties
    <3>1. Init => AllCounted
      BY DEF Init, AllCounted
    <3>2. TypeOK /\ AllCounted /\ [Next]_vars => AllCounted'
      BY <2>2, AllCountedStep
    <3>3. AllCounted => SharingSeen
      BY <2>2 DEF SharingSeen
    <3> QED
      BY <3>1, <3>2, <3>3, TypeCorrect, PTL DEF Spec
  <2> QED
    BY <2>1, <2>2
<1>3. NeverEndsUsedSocket <=> [][Safe]_vars
  BY DEF NeverEndsUsedSocket
<1> HIDE DEF Safe
<1> QED
  BY <1>1, <1>2, <1>3, TypeCorrect, DanglingSafe, PTL DEF Spec
-----------------------------------------------------------------------------
(* The inbound requests: which sessions may have requests waiting, in which *)
(* order they are handled, and that none of them makes the process crash.   *)

-----------------------------------------------------------------------------
(* What a step other than a request does to the requests of session s:     *)
(* nothing, and then a socket the session gets is a destroyed one, or all  *)
(* that wait are handled or refused.                                       *)

InboundShape(s) ==
  /\ \A t \in Sessions : t # s => /\ UNCHANGED <<buffered[t], processed[t]>>
                                  /\ socket'[t] = socket[t]
  /\ \/ /\ UNCHANGED <<buffered[s], processed[s]>>
        /\ \/ socket'[s] \in {socket[s], NoSocket}
           \/ socket'[s] \in Sockets /\ sockState'[socket'[s]] \in Destroyed
     \/ /\ buffered'[s] = <<>>
        /\ processed'[s] \in {processed[s], processed[s] \o buffered[s]}
  /\ \A u \in Sockets : sockState[u] \in Destroyed => sockState'[u] \in Destroyed
  /\ received' = received

\* setSocket: the buffered requests wait on only if the socket is destroyed.
LEMMA SetSocketInbound ==
  ASSUME TypeOK, NEW s \in Sessions, NEW u \in Sockets, NEW sdp,
         NEW sockets \in [Sessions -> Sockets \cup {NoSocket}],
         SetSocket(s, u, sockets, sdp)
  PROVE  /\ socket' = [sockets EXCEPT ![s] = u]
         /\ \A t \in Sessions : t # s => UNCHANGED <<buffered[t], processed[t]>>
         /\ \/ UNCHANGED <<buffered[s], processed[s]>> /\ sockState[u] \in Destroyed
            \/ /\ buffered'[s] = <<>>
               /\ processed'[s] \in {processed[s], processed[s] \o buffered[s]}
<1>1. /\ buffered \in [Sessions -> Seq(Nat)]
      /\ processed \in [Sessions -> Seq(Nat)]
  BY DEF TypeOK
<1>2. socket' = [sockets EXCEPT ![s] = u]
  BY DEF SetSocket, Attach
<1>3. CASE s \in registered /\ sockState[u] \in Destroyed
  BY <1>2, <1>3 DEF SetSocket, ProcessBuffered
<1>4. CASE ~(s \in registered /\ sockState[u] \in Destroyed)
  <2>1. buffered' = [buffered EXCEPT ![s] = <<>>]
    BY <1>4 DEF SetSocket, ProcessBuffered
  <2>2. \/ processed' = processed
        \/ processed' = [processed EXCEPT ![s] = processed[s] \o buffered[s]]
    BY <1>4 DEF SetSocket, ProcessBuffered
  <2> QED
    BY <1>1, <1>2, <2>1, <2>2
<1> QED
  BY <1>3, <1>4

\* The end of getDescription and of setDescription.
LEMMA DescribedInbound ==
  ASSUME TypeOK, NEW s \in Sessions, NEW side, NEW setup, NEW sdp,
         NEW closes \in BOOLEAN, Described(s, side, setup, sdp, closes),
         received' = received
  PROVE  InboundShape(s)
<1> DEFINE sockets == IF closes THEN WithoutSocket(s) ELSE socket
           states == IF closes THEN AfterClose(s, registered) ELSE sockState
<1>1. /\ sockets \in [Sessions -> Sockets \cup {NoSocket}]
      /\ states \in [Sockets -> SockStates]
      /\ \A t \in Sessions : t # s => sockets[t] = socket[t]
      /\ sockets[s] \in {socket[s], NoSocket}
      /\ \A u \in Sockets : sockState[u] \in Destroyed => states[u] = sockState[u]
  <2>1. CASE closes
    BY <2>1, AfterCloseType, AfterCloseShape DEF Destroyed
  <2>2. CASE ~closes
    BY <2>2 DEF TypeOK
  <2> QED
    BY <2>1, <2>2
<1> HIDE DEF sockets, states
<1>2. ASSUME UNCHANGED <<buffered, processed>>, socket' = sockets,
             \/ sockState' = states
             \/ \E u \in Sockets : /\ sockState[u] = "unused"
                                   /\ sockState' = [states EXCEPT ![u] = "connecting"]
      PROVE  InboundShape(s)
  BY <1>1, <1>2 DEF InboundShape, Destroyed
<1>3. CASE NoConnection(s, sockets, states)
  BY <1>2, <1>3 DEF NoConnection
<1>4. CASE Connect(s, sdp, sockets, states)
  BY <1>2, <1>4 DEF Connect, IsNext
<1>5. CASE TakeDangling(s, sdp, sockets, states)
  <2>1. PICK u \in Sockets : SetSocket(s, u, sockets, sdp) /\ sockState' = states
    BY <1>5 DEF TakeDangling
  <2>2. /\ socket' = [sockets EXCEPT ![s] = u]
        /\ \A t \in Sessions : t # s => UNCHANGED <<buffered[t], processed[t]>>
        /\ \/ UNCHANGED <<buffered[s], processed[s]>> /\ sockState[u] \in Destroyed
           \/ /\ buffered'[s] = <<>>
              /\ processed'[s] \in {processed[s], processed[s] \o buffered[s]}
    BY <1>1, <2>1, SetSocketInbound
  <2> QED
    BY <1>1, <2>1, <2>2 DEF InboundShape
<1>6. CASE AwaitPeer(s, sdp, sockets, states)
  BY <1>2, <1>6 DEF AwaitPeer
<1>7. CASE SetupConnection(s, setup, sdp, sockets, states)
  BY <1>3, <1>4, <1>5, <1>6, <1>7 DEF SetupConnection
<1> QED
  BY <1>3, <1>7 DEF Described, sockets, states

\* Every step of a session.
LEMMA SessionStepInbound ==
  ASSUME TypeOK, NEW s \in Sessions, SessionStep(s)
  PROVE  InboundShape(s)
<1> USE DEF inboundVars
<1>1. ASSUME NEW reg, End(s, reg) PROVE InboundShape(s)
  <2>1. UNCHANGED <<buffered, processed, received>>
    BY <1>1 DEF End
  <2>2. CASE s \in ended
    BY <1>1, <2>1, <2>2 DEF End, InboundShape
  <2>3. CASE s \notin ended
    BY <1>1, <2>1, <2>3, AfterCloseShape DEF End, InboundShape, Destroyed
  <2> QED
    BY <2>2, <2>3
<1>2. CASE EndSession(s) \/ RemoveSession(s)
  BY <1>1, <1>2 DEF EndSession, RemoveSession
<1>3. CASE DescriptionReady(s)
  BY <1>3, DescribedInbound DEF DescriptionReady
<1>4. ASSUME NEW sdp \in RemoteSdps, SetDescription(s, sdp) PROVE InboundShape(s)
  BY <1>4, DescribedInbound DEF SetDescription
<1>5. CASE \/ CreateSession(s) \/ GetDescription(s) \/ NoPort(s)
           \/ ConnectTimedOut(s) \/ ReconnectTimedOut(s)
  <2>1. UNCHANGED <<socket, sockState, buffered, processed, received>>
    BY <1>5 DEF CreateSession, GetDescription, NoPort, ConnectTimedOut,
                ReconnectTimedOut, sessionVars, netVars
  <2> QED
    BY <2>1 DEF InboundShape
<1> QED
  BY <1>2, <1>3, <1>4, <1>5 DEF SessionStep

\* A step of a socket that is not a request.
LEMMA SocketStepInbound ==
  ASSUME TypeOK, NEW u \in Sockets, SocketStep(u),
         \A s \in Sessions : ~Request(u, s)
  PROVE  \/ \E s \in Sessions : InboundShape(s)
         \/ /\ UNCHANGED <<socket, buffered, processed, received>>
            /\ \A v \in Sockets : sockState[v] \in Destroyed
                                    => sockState'[v] \in Destroyed
<1> USE DEF inboundVars, sessionVars
<1>1. /\ received' = received
      /\ \A v \in Sockets : sockState[v] \in Destroyed => sockState'[v] \in Destroyed
  BY DEF SocketStep, ConnectDone, ConnectFails, Connection, Destroy, Close,
         DanglingTimedOut, IsNext, Destroyed, Live, TypeOK
<1>2. ASSUME NEW s \in Sessions, NEW sdp, SetSocket(s, u, socket, sdp),
             sockState[u] \notin Destroyed
      PROVE  InboundShape(s)
  <2>1. socket \in [Sessions -> Sockets \cup {NoSocket}]
    BY DEF TypeOK
  <2>2. /\ socket' = [socket EXCEPT ![s] = u]
        /\ \A t \in Sessions : t # s => UNCHANGED <<buffered[t], processed[t]>>
        /\ buffered'[s] = <<>>
        /\ processed'[s] \in {processed[s], processed[s] \o buffered[s]}
    BY <1>2, <2>1, SetSocketInbound
  <2> QED
    BY <1>1, <2>1, <2>2 DEF InboundShape
<1>3. CASE ConnectDone(u)
  <2>1. connector[u] \in Sessions /\ sockState[u] \notin Destroyed
    BY <1>3 DEF ConnectDone, TypeOK, Destroyed
  <2>2. \/ UNCHANGED <<socket, buffered, processed>>
        \/ SetSocket(connector[u], u, socket, remoteSdp[connector[u]])
    BY <1>3 DEF ConnectDone
  <2> QED
    BY <1>1, <1>2, <2>1, <2>2
<1>4. ASSUME NEW addr \in Addrs, Connection(u, addr)
      PROVE  \/ UNCHANGED <<socket, buffered, processed>>
             \/ \E s \in Sessions : InboundShape(s)
  <2>1. sockState[u] \notin Destroyed
    BY <1>4 DEF Connection, IsNext, Destroyed
  <2>2. \/ UNCHANGED <<socket, buffered, processed>>
        \/ \E s \in Sessions : SetSocket(s, u, socket, remoteSdp[s])
    BY <1>4 DEF Connection, Waiting, TypeOK
  <2> QED
    BY <1>2, <2>1, <2>2
<1>5. CASE ConnectFails(u) \/ Destroy(u) \/ Close(u) \/ DanglingTimedOut(u)
  BY <1>1, <1>5 DEF ConnectFails, Destroy, Close, DanglingTimedOut
<1> QED
  BY <1>1, <1>3, <1>4, <1>5 DEF SocketStep

\* So every step is a request, has this shape or leaves the requests alone.
LEMMA StepInbound ==
  ASSUME TypeOK, [Next]_vars
  PROVE  \/ \E s \in Sessions : InboundShape(s)
         \/ \E u \in Sockets, s \in Sessions : Request(u, s)
         \/ /\ UNCHANGED <<socket, buffered, processed, received>>
            /\ \A v \in Sockets : sockState[v] \in Destroyed
                                    => sockState'[v] \in Destroyed
<1>1. CASE UNCHANGED vars
  BY <1>1 DEF vars, sessionVars, netVars, inboundVars
<1> QED
  BY <1>1, SessionStepInbound, SocketStepInbound DEF Next

-----------------------------------------------------------------------------
(* Nobody's requests are left behind.  Inductive for all sessions, not     *)
(* only the registered ones, and with useInboundMessageForSocketSetup for  *)
(* no session at all: there a request brings its own socket.               *)

WaitingInv ==
  \A s \in Sessions : buffered[s] # <<>> => LacksSocket(s) /\ ~UseInbound

LEMMA WaitingStep ==
  ASSUME TypeOK, WaitingInv, [Next]_vars
  PROVE  WaitingInv'
<1> SUFFICES ASSUME NEW t \in Sessions, buffered'[t] # <<>>
             PROVE  LacksSocket(t)' /\ ~UseInbound
  BY DEF WaitingInv
<1>0. socket[t] # NoSocket => socket[t] \in Sockets
  BY DEF TypeOK
<1>1. ASSUME UNCHANGED <<socket[t], buffered[t]>>,
             \A v \in Sockets : sockState[v] \in Destroyed => sockState'[v] \in Destroyed
      PROVE  LacksSocket(t)' /\ ~UseInbound
  BY <1>0, <1>1 DEF WaitingInv, LacksSocket
<1>2. ASSUME NEW s \in Sessions, InboundShape(s)
      PROVE  LacksSocket(t)' /\ ~UseInbound
  <2>1. \A v \in Sockets : sockState[v] \in Destroyed => sockState'[v] \in Destroyed
    BY <1>2 DEF InboundShape
  <2>2. CASE t # s
    BY <1>1, <1>2, <2>1, <2>2 DEF InboundShape
  <2>3. CASE t = s
    <3>1. UNCHANGED buffered[s] /\ \/ socket'[s] \in {socket[s], NoSocket}
                                   \/ sockState'[socket'[s]] \in Destroyed
      BY <1>2, <2>3 DEF InboundShape
    <3>2. LacksSocket(s) /\ ~UseInbound
      BY <2>3, <3>1 DEF WaitingInv
    <3> QED
      BY <1>0, <2>1, <2>3, <3>1, <3>2 DEF LacksSocket
  <2> QED
    BY <2>2, <2>3
<1>3. ASSUME NEW u \in Sockets, NEW s \in Sessions, Request(u, s)
      PROVE  LacksSocket(t)' /\ ~UseInbound
  <2>1. UNCHANGED sockState
    BY <1>3 DEF Request
  <2>2. CASE UNCHANGED <<socket, buffered>>
    BY <1>1, <2>1, <2>2
  <2>3. CASE LacksSocket(s) /\ UseInbound /\ UNCHANGED buffered
    BY <2>3 DEF WaitingInv
  <2>4. CASE /\ LacksSocket(s) /\ ~UseInbound /\ UNCHANGED socket
             /\ buffered' = [buffered EXCEPT ![s] = Append(@, received + 1)]
    <3>1. t # s => UNCHANGED buffered[t]
      BY <2>4 DEF TypeOK
    <3>2. CASE t # s
      BY <1>1, <2>1, <2>4, <3>1, <3>2
    <3>3. CASE t = s
      BY <2>1, <2>4, <3>3 DEF LacksSocket
    <3> QED
      BY <3>2, <3>3
  <2> QED
    BY <1>3, <2>2, <2>3, <2>4 DEF Request, sessionVars
<1>4. CASE /\ UNCHANGED <<socket, buffered, processed, received>>
           /\ \A v \in Sockets : sockState[v] \in Destroyed
                                   => sockState'[v] \in Destroyed
  BY <1>1, <1>4
<1> QED
  BY <1>2, <1>3, <1>4, StepInbound

\* A request waits for socketSet only while its session has no usable socket,
\* in every configuration.
THEOREM NobodyLeftBehind == Spec => []NoneLeftBehind
<1>1. Init => WaitingInv
  BY DEF Init, WaitingInv
<1>2. TypeOK /\ WaitingInv => NoneLeftBehind
  BY DEF TypeOK, WaitingInv, NoneLeftBehind
<1> QED
  BY <1>1, <1>2, WaitingStep, TypeCorrect, PTL DEF Spec

-----------------------------------------------------------------------------
(* The order of requests.  A list of requests is in order up to n when it  *)
(* rises and ends at n or before.                                          *)

InOrder(q, n) ==
  /\ \A i, j \in 1..Len(q) : i < j => q[i] < q[j]
  /\ \A i \in 1..Len(q) : q[i] <= n

LEMMA AppendInOrder ==
  ASSUME NEW q \in Seq(Nat), NEW n \in Nat, InOrder(q, n)
  PROVE  InOrder(Append(q, n + 1), n + 1)
<1> DEFINE a == Append(q, n + 1)
<1>1. /\ Len(q) \in Nat /\ Len(a) = Len(q) + 1 /\ a[Len(q) + 1] = n + 1
      /\ \A i \in 1..Len(q) : a[i] = q[i] /\ q[i] \in Nat
  OBVIOUS
<1>2. /\ \A i, j \in 1..Len(q) : i < j => q[i] < q[j]
      /\ \A i \in 1..Len(q) : q[i] <= n
  BY DEF InOrder
<1> HIDE DEF a
<1>3. \A i \in 1..Len(a) : i \in 1..Len(q) \/ i = Len(q) + 1
  BY <1>1
<1>4. \A i \in 1..Len(a) : a[i] <= n + 1
  BY <1>1, <1>2, <1>3
<1>5. ASSUME NEW i \in 1..Len(a), NEW j \in 1..Len(a), i < j
      PROVE  a[i] < a[j]
  <2>1. i \in 1..Len(q)
    BY <1>1, <1>5
  <2>2. CASE j \in 1..Len(q)
    BY <1>1, <1>2, <1>5, <2>1, <2>2
  <2>3. CASE j = Len(q) + 1
    BY <1>1, <1>2, <2>1, <2>3
  <2> QED
    BY <1>3, <2>2, <2>3
<1>6. InOrder(a, n + 1)
  BY <1>4, <1>5 DEF InOrder
<1> QED
  BY <1>6 DEF a

LEMMA LaterInOrder ==
  ASSUME NEW q \in Seq(Nat), NEW n \in Nat, InOrder(q, n)
  PROVE  InOrder(q, n + 1)
<1>1. \A i \in 1..Len(q) : q[i] \in Nat
  OBVIOUS
<1> QED
  BY <1>1 DEF InOrder

LEMMA PrefixInOrder ==
  ASSUME NEW q \in Seq(Nat), NEW r \in Seq(Nat), NEW n \in Nat, InOrder(q \o r, n)
  PROVE  InOrder(q, n)
<1>1. /\ Len(q \o r) = Len(q) + Len(r)
      /\ \A i \in 1..(Len(q) + Len(r)) :
           (q \o r)[i] = IF i <= Len(q) THEN q[i] ELSE r[i - Len(q)]
  BY ConcatProperties
<1>2. Len(q) \in Nat /\ Len(r) \in Nat
  OBVIOUS
<1>3. \A i \in 1..Len(q) : i \in 1..Len(q \o r) /\ (q \o r)[i] = q[i]
  BY <1>1, <1>2
<1> QED
  BY <1>3 DEF InOrder

\* What waits follows what is handled, and nothing is later than the last
\* request received.
OrderInv ==
  \A s \in Sessions : InOrder(processed[s] \o buffered[s], received)

LEMMA OrderStep ==
  ASSUME TypeOK, WaitingInv, OrderInv, [Next]_vars
  PROVE  OrderInv'
<1> SUFFICES ASSUME NEW t \in Sessions
             PROVE  InOrder(processed'[t] \o buffered'[t], received')
  BY DEF OrderInv
<1>1. /\ processed[t] \in Seq(Nat) /\ buffered[t] \in Seq(Nat) /\ received \in Nat
      /\ processed \in [Sessions -> Seq(Nat)] /\ buffered \in [Sessions -> Seq(Nat)]
  BY DEF TypeOK
<1>2. InOrder(processed[t] \o buffered[t], received)
  BY DEF OrderInv
<1>3. ASSUME UNCHANGED <<processed[t], buffered[t], received>>
      PROVE  InOrder(processed'[t] \o buffered'[t], received')
  BY <1>2, <1>3
<1>4. ASSUME NEW s \in Sessions, InboundShape(s)
      PROVE  InOrder(processed'[t] \o buffered'[t], received')
  <2>1. received' = received
    BY <1>4 DEF InboundShape
  <2>2. CASE UNCHANGED <<processed[t], buffered[t]>>
    BY <1>3, <2>1, <2>2
  <2>3. CASE t = s /\ buffered'[s] = <<>> /\ processed'[s] = processed[s]
    <3>1. processed'[t] \o buffered'[t] = processed[t]
      BY <1>1, <2>3, ConcatEmptySeq
    <3> QED
      BY <1>1, <1>2, <2>1, <3>1, PrefixInOrder
  <2>4. CASE /\ t = s /\ buffered'[s] = <<>>
             /\ processed'[s] = processed[s] \o buffered[s]
    <3>1. processed[t] \o buffered[t] \in Seq(Nat)
      BY <1>1, ConcatProperties
    <3>2. processed'[t] \o buffered'[t] = processed[t] \o buffered[t]
      BY <2>4, <3>1, ConcatEmptySeq
    <3> QED
      BY <1>2, <2>1, <3>2
  <2> QED
    BY <1>4, <2>2, <2>3, <2>4 DEF InboundShape
<1>5. ASSUME NEW u \in Sockets, NEW s \in Sessions, Request(u, s)
      PROVE  InOrder(processed'[t] \o buffered'[t], received')
  <2>1. received' = received + 1
    BY <1>5 DEF Request
  <2>2. InOrder(processed[t] \o buffered[t], received + 1)
    BY <1>1, <1>2, ConcatProperties, LaterInOrder
  <2>3. CASE UNCHANGED <<processed[t], buffered[t]>>
    BY <2>1, <2>2, <2>3
  <2>4. CASE /\ t = s /\ buffered[t] = <<>> /\ UNCHANGED buffered
             /\ processed' = [processed EXCEPT ![s] = Append(@, received + 1)]
    <3>1. processed'[t] = Append(processed[t], received + 1) /\ buffered'[t] = <<>>
      BY <1>1, <2>4
    <3>2. processed[t] \o buffered[t] = processed[t]
      BY <1>1, <2>4, ConcatEmptySeq
    <3>3. Append(processed[t], received + 1) \in Seq(Nat)
      BY <1>1
    <3>4. processed'[t] \o buffered'[t] = Append(processed[t], received + 1)
      BY <3>1, <3>3, ConcatEmptySeq
    <3> QED
      BY <1>1, <1>2, <2>1, <3>2, <3>4, AppendInOrder
  <2>5. CASE /\ t = s /\ UNCHANGED processed
             /\ buffered' = [buffered EXCEPT ![s] = Append(@, received + 1)]
    <3>1. processed'[t] = processed[t] /\ buffered'[t] = Append(buffered[t], received + 1)
      BY <1>1, <2>5
    <3>2. /\ Append(buffered[t], received + 1) = buffered[t] \o <<received + 1>>
          /\ <<received + 1>> \in Seq(Nat)
      BY <1>1, AppendIsConcat
    <3>3. processed[t] \o (buffered[t] \o <<received + 1>>)
            = (processed[t] \o buffered[t]) \o <<received + 1>>
      BY <1>1, <3>2, ConcatAssociative
    <3>4. processed[t] \o buffered[t] \in Seq(Nat) /\ received + 1 \in Nat
      BY <1>1, ConcatProperties
    <3>5. (processed[t] \o buffered[t]) \o <<received + 1>>
            = Append(processed[t] \o buffered[t], received + 1)
      BY <3>4, AppendIsConcat
    <3> QED
      BY <1>1, <1>2, <2>1, <3>1, <3>2, <3>3, <3>4, <3>5, AppendInOrder
  <2>6. CASE s \notin registered
    BY <1>5, <2>3, <2>6 DEF Request
  <2>7. CASE s \in registered /\ LacksSocket(s) /\ ~UseInbound
    BY <1>1, <1>5, <2>3, <2>5, <2>7 DEF Request
  <2>8. CASE s \in registered /\ (~LacksSocket(s) \/ UseInbound)
    <3>1. UNCHANGED buffered /\ HandleRequest(s, received + 1)
      BY <1>5, <2>8 DEF Request
    <3>2. buffered[s] = <<>>
      BY <2>8 DEF WaitingInv
    <3>3. \/ UNCHANGED processed
          \/ processed' = [processed EXCEPT ![s] = Append(@, received + 1)]
      BY <3>1 DEF HandleRequest
    <3> QED
      BY <1>1, <2>3, <2>4, <3>1, <3>2, <3>3
  <2> QED
    BY <2>6, <2>7, <2>8
<1> QED
  BY <1>3, <1>4, <1>5, StepInbound

\* A session handles its requests in the order in which they came, none of
\* them twice, whenever its sockets come and go.
THEOREM InTheirOrder == Spec => []HandledInOrder
<1>1. Init => OrderInv
  <2> SUFFICES ASSUME Init, NEW s \in Sessions
               PROVE  InOrder(processed[s] \o buffered[s], received)
    BY DEF OrderInv
  <2>1. processed[s] = <<>> /\ buffered[s] = <<>>
    BY DEF Init
  <2>2. <<>> \o <<>> = <<>> /\ Len(<<>>) = 0
    BY ConcatEmptySeq, EmptySeq
  <2> QED
    BY <2>1, <2>2 DEF InOrder
<1>2. Init => WaitingInv
  BY DEF Init, WaitingInv
<1>3. OrderInv => HandledInOrder
  BY DEF OrderInv, InOrder, HandledInOrder
<1> QED
  BY <1>1, <1>2, <1>3, WaitingStep, OrderStep, TypeCorrect, PTL DEF Spec

-----------------------------------------------------------------------------
(* No exception reaches the event loop by default.  A request handled at   *)
(* once has found a socket, and by SocketOfPeer the session has a remote   *)
(* description then; and without a connect timeout no timer of it is ever  *)
(* pending, so what it logs does not matter.                               *)

Steady == connectTimers = {} /\ ~crashed

LEMMA TimersStayAway ==
  ASSUME ~ConnectTimeout, connectTimers = {}, [Next]_vars
  PROVE  connectTimers' = {}
<1> USE DEF sessionVars
<1>1. ASSUME NEW s, NEW setup, NEW sdp, NEW sockets, NEW states,
             SetupConnection(s, setup, sdp, sockets, states)
      PROVE  connectTimers' = {}
  BY <1>1 DEF SetupConnection, NoConnection, Connect, TakeDangling, SetSocket, Attach,
              AwaitPeer, StartConnectTimer
<1>2. ASSUME NEW s, NEW side, NEW setup, NEW sdp, NEW closes,
             Described(s, side, setup, sdp, closes)
      PROVE  connectTimers' = {}
  BY <1>1, <1>2 DEF Described, NoConnection
<1>3. ASSUME NEW s \in Sessions, SessionStep(s) PROVE connectTimers' = {}
  <2>1. CASE DescriptionReady(s)
    BY <1>2, <2>1 DEF DescriptionReady
  <2>2. ASSUME NEW sdp \in RemoteSdps, SetDescription(s, sdp) PROVE connectTimers' = {}
    BY <1>2, <2>2 DEF SetDescription
  <2> QED
    BY <1>3, <2>1, <2>2 DEF SessionStep, CreateSession, EndSession, RemoveSession, End,
                            GetDescription, NoPort, ConnectTimedOut, ReconnectTimedOut
<1>4. ASSUME NEW u \in Sockets, SocketStep(u) PROVE connectTimers' = {}
  BY <1>4 DEF SocketStep, ConnectDone, ConnectFails, Connection, Destroy, Close, Request,
              DanglingTimedOut, SetSocket, Attach
<1> QED
  BY <1>3, <1>4 DEF Next, vars

\* The process keeps running in the default configuration, whatever the
\* application, the peers and the network do and when.
THEOREM NeverCrashes == Spec => []NoCrash
<1>1. CASE ConnectTimeout \/ UseInbound
  <2>1. NoCrash
    BY <1>1 DEF NoCrash
  <2> QED
    BY <2>1, PTL
<1>2. CASE ~ConnectTimeout /\ ~UseInbound
  <2>1. Init => Steady
    BY DEF Init, Steady
  <2>2. ASSUME TypeOK, PeerInv, Steady, [Next]_vars PROVE Steady'
    <3>1. ASSUME NEW s \in Sessions, SessionStep(s) PROVE ~crashed'
      BY <2>2, <3>1 DEF Steady, SessionStep, CreateSession, EndSession, RemoveSession,
                        End, GetDescription, DescriptionReady, NoPort, SetDescription,
                        ConnectTimedOut, ReconnectTimedOut
    <3>2. ASSUME NEW u \in Sockets, NEW s \in Sessions, Request(u, s)
          PROVE  ~crashed'
      <4>1. CASE UNCHANGED crashed
        BY <2>2, <4>1 DEF Steady
      <4>2. CASE ~LacksSocket(s) /\ HandleRequest(s, received + 1)
        BY <2>2, <4>2 DEF PeerInv, SocketOfPeer, LacksSocket, HandleRequest
      <4> QED
        BY <1>2, <3>2, <4>1, <4>2 DEF Request
    <3>3. ASSUME NEW u \in Sockets, SocketStep(u) PROVE ~crashed'
      BY <2>2, <3>2, <3>3 DEF Steady, SocketStep, ConnectDone, ConnectFails, Connection,
                              Destroy, Close, DanglingTimedOut
    <3> QED
      BY <1>2, <2>2, <3>1, <3>3, TimersStayAway DEF Next, Steady, vars
  <2>3. TypeOK /\ PeerInv /\ [Next]_vars => PeerInv'
    BY <1>2, PeerStep
  <2>4. Steady => NoCrash
    BY DEF Steady, NoCrash
  <2> QED
    BY <2>1, <2>2, <2>3, <2>4, PeerInit, TypeCorrect, PTL DEF Spec
<1> QED
  BY <1>1, <1>2
=============================================================================
