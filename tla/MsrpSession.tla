---------------------------- MODULE MsrpSession ----------------------------
(***************************************************************************)
(* The life of MSRP sessions and of the TCP sockets they use: SDP          *)
(* negotiation (Session.getDescription, Session.setDescription), the       *)
(* connection it leads to (Session.setupConnection), the server that       *)
(* accepts connections (Server), the registry of sessions                  *)
(* (SessionController) and what an inbound request does to a session's     *)
(* socket (the head of handleIncomingRequest in SocketHandler).            *)
(*                                                                         *)
(* One Node.js process runs the code, so a handler is one step.  The only  *)
(* points where a handler gives way are the await in getDescription, the   *)
(* completion of a connect, and the callbacks of timers and sockets: each  *)
(* is an action of its own.                                                *)
(***************************************************************************)
EXTENDS Naturals, Sequences, FiniteSets

CONSTANTS
  Sessions,      \* sessions the application may create, in order of creation
  Sockets,       \* TCP sockets, in the order the process gets them
  Addrs,         \* addresses (host and port) of remote parties
  RemoteSdps,    \* the descriptions remote parties send
  NoSocket, NoSdp, NoSession, NoAddr,  \* JavaScript's null and undefined
  UseInbound,    \* Config.useInboundMessageForSocketSetup
  ForceSetup,    \* Config.forceSetup
  Setup,         \* Config.setup
  ConnectTimeout,    \* Config.socketConnectTimeout > 0
  ReconnectTimeout,  \* Config.socketReconnectTimeout > 0
  EnableHeartbeats,  \* Config.enableHeartbeats
  WarningLogger, \* the logger has a method named "warning"
  Liberties,     \* what the application and the peers may do; see below
  MaxCalls,      \* bound: calls of getDescription and setDescription
  MaxAccepted,   \* bound: connections the server accepts
  MaxRequests    \* bound: inbound requests

(***************************************************************************)
(* Liberties names the behaviours of the application and of its peers that *)
(* a run allows beyond a plain, alternating negotiation:                   *)
(*   remove     the application calls SessionController.removeSession      *)
(*   end        it calls session.end() and leaves the session registered   *)
(*   busy       it does either while a getDescription or a connect of the  *)
(*              session is pending                                         *)
(*   outOfTurn  it calls getDescription and setDescription in any order    *)
(*   throws     the onSuccess callback it passes throws, or is missing     *)
(*   early      a peer sends over a new connection before its description  *)
(*              is set, although UseInbound                                *)
(***************************************************************************)
AllLiberties == {"remove", "end", "busy", "outOfTurn", "throws", "early"}

Setups == {"active", "passive", "actpass", "none", "invalid"}
Directions == {"sendrecv", "recvonly", "inactive"}
Sdps == [addr : Addrs, setup : Setups, dir : Directions, heartbeats : BOOLEAN]

ASSUME OrderAssumption == Sessions \subseteq Nat /\ Sockets \subseteq Nat
ASSUME SdpAssumption == RemoteSdps \subseteq Sdps /\ NoSdp \notin RemoteSdps
ASSUME NullAssumption ==
  NoSocket \notin Sockets /\ NoSession \notin Sessions /\ NoAddr \notin Addrs
ASSUME ConfigAssumption ==
  /\ {UseInbound, ForceSetup, ConnectTimeout, ReconnectTimeout,
      EnableHeartbeats, WarningLogger} \subseteq BOOLEAN
  /\ Setup \in {"active", "passive", "actpass"}
  /\ Liberties \subseteq AllLiberties
  /\ {MaxCalls, MaxAccepted, MaxRequests} \subseteq Nat

VARIABLES
  created,         \* sessions SessionController.createSession has returned
  registered,      \* SessionController.sessions
  ended,           \* sessions with session.ended
  sdpState,        \* session.sdpState
  offerer,         \* whose description opened the last negotiation (history)
  updated,         \* sessions with session.updated
  localSetup,      \* a=setup of session.localSdp, "none" while it is null
  remoteSdp,       \* session.remoteSdp
  describing,      \* the a=setup a suspended getDescription has chosen
  overtaken,       \* sessions whose remote description came during the await of
                   \* a getDescription (history)
  calls,           \* calls of getDescription and setDescription so far
  socket,          \* session.socket
  connectTimers,   \* sessions whose socketConnectTimeoutFunc is pending
  reconnectTimers, \* number of pending reconnect timers of each session
  heartbeats,      \* sessions whose heartbeat intervals run
  told,            \* losses emitted since socketSet or a description (history)
  sockState,       \* state of each socket
  sockAddr,        \* its remote address
  connector,       \* the session that opened it, NoSession if it was accepted
  listeners,       \* close listeners setSocket has added, per session
  dangling,        \* Server.danglingSockets
  danglingTimers,  \* sockets whose dangling timeout is pending
  buffered,        \* requests waiting in session.once("socketSet")
  processed,       \* requests handled for each session, in order (history)
  received,        \* number of requests received so far
  crashed          \* an exception has reached the event loop

registryVars == <<created, registered, ended>>
sdpVars == <<sdpState, offerer, updated, localSetup, remoteSdp, describing, overtaken,
            calls>>
sessionVars == <<socket, connectTimers, reconnectTimers, heartbeats, told>>
netVars == <<sockState, sockAddr, connector, listeners>>
serverVars == <<dangling, danglingTimers>>
inboundVars == <<buffered, processed, received>>
vars == <<registryVars, sdpVars, sessionVars, netVars, serverVars, inboundVars,
          crashed>>

SockStates == {"unused", "connecting", "open", "ended", "destroyed", "closed"}
Destroyed == {"destroyed", "closed"}   \* socket.destroyed
Live == {"open", "ended"}              \* data and close can still arrive

Init ==
  /\ created = {} /\ registered = {} /\ ended = {}
  /\ sdpState = [s \in Sessions |-> "null"]
  /\ offerer = [s \in Sessions |-> "none"]
  /\ updated = {}
  /\ localSetup = [s \in Sessions |-> "none"]
  /\ remoteSdp = [s \in Sessions |-> NoSdp]
  /\ describing = [s \in Sessions |-> "none"]
  /\ overtaken = {}
  /\ calls = 0
  /\ socket = [s \in Sessions |-> NoSocket]
  /\ connectTimers = {}
  /\ reconnectTimers = [s \in Sessions |-> 0]
  /\ heartbeats = {}
  /\ told = [s \in Sessions |-> {}]
  /\ sockState = [u \in Sockets |-> "unused"]
  /\ sockAddr = [u \in Sockets |-> NoAddr]
  /\ connector = [u \in Sockets |-> NoSession]
  /\ listeners = [u \in Sockets |-> [s \in Sessions |-> 0]]
  /\ dangling = {} /\ danglingTimers = {}
  /\ buffered = [s \in Sessions |-> <<>>]
  /\ processed = [s \in Sessions |-> <<>>]
  /\ received = 0
  /\ crashed = FALSE

-----------------------------------------------------------------------------
(* Helpers of the handlers.                                                *)

\* A count of more than two sessions instead of more than one.
ReusedByThree(u, reg) == Cardinality({s \in reg : socket[s] = u}) > 2

\* Does u carry the socket of two registered sessions?  closeSocket counts
\* the sessions of the registry, so a session already removed from it is not
\* counted.
Reused(u, reg) ==
  \E s, t \in reg : s # t /\ socket[s] = u /\ socket[t] = u

\* The states of the sockets after closeSocket of session s: the socket is
\* ended unless another session reuses it.
AfterClose(s, reg) ==
  [u \in Sockets |->
     IF u = socket[s] /\ ~Reused(u, reg) /\ sockState[u] = "open"
     THEN "ended" ELSE sockState[u]]

\* The sessions' sockets after closeSocket of session s.
WithoutSocket(s) == [socket EXCEPT ![s] = NoSocket]

\* The paths of two descriptions are arrays, compared by identity: they
\* differ even when their elements do not.
PathsDiffer(old, new) == TRUE

\* Mutants: the handler waits for another event; on instead of once.
ProcessBufferedNever(s, u, sdp) == UNCHANGED <<buffered, processed>>
ProcessBufferedAlways(s, u, sdp) ==
  /\ processed' = [processed EXCEPT ![s] = @ \o buffered[s]]
  /\ UNCHANGED buffered

\* The requests buffered for s are handled again when s gets socket u: a
\* removed session answers 481, a destroyed socket buffers them again, and a
\* recvonly party gets 403.
ProcessBuffered(s, u, sdp) ==
  IF s \in registered /\ sockState[u] \in Destroyed
  THEN UNCHANGED <<buffered, processed>>
  ELSE /\ buffered' = [buffered EXCEPT ![s] = <<>>]
       /\ processed' =
            IF s \in registered /\ buffered[s] # <<>> /\ sdp.dir # "recvonly"
            THEN [processed EXCEPT ![s] = @ \o buffered[s]]
            ELSE processed

\* Session.setSocket once its check has passed; sockets is the value of
\* session.socket of every session at that point, sdp the remote description.
Attach(s, u, sockets) ==
  /\ socket' = [sockets EXCEPT ![s] = u]
  /\ connectTimers' = connectTimers \ {s}
  /\ listeners' = [listeners EXCEPT ![u][s] = @ + 1]
  /\ told' = [told EXCEPT ![s] = {}]

SetSocket(s, u, sockets, sdp) ==
  /\ Attach(s, u, sockets)
  /\ ProcessBuffered(s, u, sdp)

\* Every socket is used once; the process gets them in order.
IsNext(u) ==
  /\ sockState[u] = "unused"
  /\ \A v \in Sockets : sockState[v] = "unused" => u <= v

\* The address is not compared.
ComesFromAnyone(s, addr) == remoteSdp[s] # NoSdp

ComesFrom(s, addr) == remoteSdp[s] # NoSdp /\ remoteSdp[s].addr = addr

\* Nothing a description change does to sessions and sockets beyond the
\* given values: no socket is set, no connection made.
NoConnection(s, sockets, states) ==
  /\ socket' = sockets
  /\ sockState' = states
  /\ UNCHANGED <<sockAddr, connector, listeners, dangling, danglingTimers,
                 connectTimers, heartbeats, buffered, processed>>
  /\ told' = [told EXCEPT ![s] = {}]

\* The socket leaves danglingSockets (danglingSockets.splice).
UndangleForgotten(u) == UNCHANGED dangling

Undangle(u) == dangling' = dangling \ {u}

(***************************************************************************)
(* Session.setupConnection with the sockets and states closeSocket left.   *)
(***************************************************************************)
StartHeartbeats(s, sdp) ==
  heartbeats' = IF sdp.heartbeats /\ EnableHeartbeats
                THEN heartbeats \cup {s} ELSE heartbeats

Connect(s, sdp, sockets, states) ==
  \E u \in Sockets :
    /\ IsNext(u)
    /\ sockState' = [states EXCEPT ![u] = "connecting"]
    /\ sockAddr' = [sockAddr EXCEPT ![u] = sdp.addr]
    /\ connector' = [connector EXCEPT ![u] = s]
    /\ socket' = sockets
    /\ told' = [told EXCEPT ![s] = {}]
    /\ UNCHANGED <<listeners, dangling, danglingTimers, connectTimers, buffered,
                   processed>>

\* A socket that was destroyed while it dangled still tells its remote
\* address: Node.js keeps the one the connection handler has read.
IsDanglingFor(u, sdp) == u \in dangling /\ sockAddr[u] = sdp.addr

TakeDangling(s, sdp, sockets, states) ==
  \E u \in Sockets :
    /\ IsDanglingFor(u, sdp)
    /\ \A v \in Sockets : IsDanglingFor(v, sdp) => u <= v
    /\ Undangle(u)
    /\ SetSocket(s, u, sockets, sdp)
    /\ sockState' = states
    /\ UNCHANGED <<sockAddr, connector, danglingTimers>>

\* The timer is started at the first negotiation only.
StartConnectTimerOnce(s) ==
  connectTimers' = IF ConnectTimeout /\ s \notin updated
                   THEN connectTimers \cup {s} ELSE connectTimers

StartConnectTimer(s) ==
  connectTimers' = IF ConnectTimeout THEN connectTimers \cup {s} ELSE connectTimers

AwaitPeer(s, sdp, sockets, states) ==
  /\ ~\E u \in Sockets : IsDanglingFor(u, sdp)
  /\ StartConnectTimer(s)
  /\ socket' = sockets
  /\ sockState' = states
  /\ told' = [told EXCEPT ![s] = {}]
  /\ UNCHANGED <<sockAddr, connector, listeners, dangling, danglingTimers, buffered,
                 processed>>

SetupConnection(s, setup, sdp, sockets, states) ==
  \/ /\ setup = "none" \/ sdp = NoSdp  \* a null description: an exception
     /\ NoConnection(s, sockets, states)  \* which the caller catches
  \/ /\ setup # "none" /\ sdp # NoSdp
     /\ \/ /\ sdp.dir = "inactive"
           /\ NoConnection(s, sockets, states)
        \/ /\ sdp.dir # "inactive"
           /\ IF setup = "active"
              THEN Connect(s, sdp, sockets, states)
              ELSE \/ TakeDangling(s, sdp, sockets, states)
                   \/ AwaitPeer(s, sdp, sockets, states)
           /\ StartHeartbeats(s, sdp)

(***************************************************************************)
(* The end of getDescription and of setDescription: close the socket when  *)
(* a description is replaced, call onSuccess, advance the negotiation and, *)
(* when it is complete, set the connection up.                             *)
(***************************************************************************)
\* Mutants: an update gets a state of its own; one description is enough.
NextSdpStateUpdated == [null |-> "offered", offered |-> "answered", answered |-> "updated"]
NextSdpStateEager == [null |-> "answered", offered |-> "answered", answered |-> "offered"]

NextSdpState == [null |-> "offered", offered |-> "answered", answered |-> "offered"]

UpdateSdpState(s, side) ==
  /\ sdpState' = [sdpState EXCEPT ![s] = NextSdpState[@]]
  /\ updated' = IF sdpState[s] = "answered" THEN updated \cup {s} ELSE updated
  /\ offerer' = IF sdpState[s] = "offered" THEN offerer
                ELSE [offerer EXCEPT ![s] = side]

Described(s, side, setup, sdp, closes) ==
  LET sockets == IF closes THEN WithoutSocket(s) ELSE socket
      states == IF closes THEN AfterClose(s, registered) ELSE sockState
  IN \/ /\ UpdateSdpState(s, side)
        /\ IF sdpState[s] = "offered"
           THEN SetupConnection(s, setup, sdp, sockets, states)
           ELSE NoConnection(s, sockets, states)
     \/ /\ "throws" \in Liberties     \* onSuccess throws: the rest is skipped
        /\ UNCHANGED <<sdpState, updated, offerer>>
        /\ NoConnection(s, sockets, states)

-----------------------------------------------------------------------------
(* What the application does.                                              *)

CreateSession(s) ==
  /\ s \notin created
  /\ \A t \in Sessions \ created : s <= t
  /\ created' = created \cup {s}
  /\ registered' = registered \cup {s}
  /\ UNCHANGED <<ended, sdpVars, sessionVars, netVars, serverVars, inboundVars,
                 crashed>>

Connecting(s) == \E u \in Sockets : sockState[u] = "connecting" /\ connector[u] = s

\* Nothing of s is pending, unless the run lets the application not care.
MayEnd(s) ==
  "busy" \in Liberties \/ (describing[s] = "none" /\ ~Connecting(s))

StopHeartbeats(s) ==
  heartbeats' = IF EnableHeartbeats THEN heartbeats \ {s} ELSE heartbeats

\* Session.end; reg is the registry when it is called.
End(s, reg) ==
  /\ IF s \in ended
     THEN UNCHANGED <<ended, socket, sockState, heartbeats>>
     ELSE /\ ended' = ended \cup {s}
          /\ StopHeartbeats(s)
          /\ sockState' = AfterClose(s, reg)
          /\ socket' = WithoutSocket(s)
  /\ UNCHANGED <<created, sdpVars, connectTimers, reconnectTimers, told, sockAddr,
                 connector, listeners, serverVars, inboundVars, crashed>>

EndSession(s) ==
  /\ "end" \in Liberties
  /\ s \in created \ ended
  /\ MayEnd(s)
  /\ End(s, registered)
  /\ UNCHANGED registered

\* The session leaves the registry before it is ended.
RemoveSession(s) ==
  /\ "remove" \in Liberties
  /\ s \in registered
  /\ MayEnd(s)
  /\ registered' = registered \ {s}
  /\ End(s, registered \ {s})

\* A plain negotiation alternates an offer and its answer, on a session that
\* is not ended.  Both parties may offer at once: while getDescription waits, a
\* description may come.
InTurn(s, side) ==
  "outOfTurn" \in Liberties
    \/ (sdpState[s] = "offered" => offerer[s] # side)

MayDescribe(s, side) ==
  /\ s \in created
  /\ calls < MaxCalls
  /\ "busy" \in Liberties \/ s \notin ended
  /\ InTurn(s, side)

AnswerTo == [setup \in Setups |->
  CASE setup = "passive" -> "active"
    [] setup \in {"active", "actpass", "none"} -> "passive"
    [] setup = "invalid" -> "none"]

\* The configured role, although the remote party has offered one.
ChosenSetupOfConfig(s) == IF Setup = "passive" THEN "passive" ELSE "active"

ChosenSetup(s) ==
  IF ForceSetup THEN Setup
  ELSE IF remoteSdp[s] # NoSdp THEN AnswerTo[remoteSdp[s].setup]
  ELSE IF Setup = "passive" THEN "passive" ELSE "active"

\* getDescription up to its await: the a=setup is chosen.  An invalid remote
\* a=setup makes it call onFailure and return.
GetDescription(s) ==
  /\ MayDescribe(s, "local")
  /\ describing[s] = "none"
  /\ calls' = calls + 1
  /\ describing' = [describing EXCEPT ![s] = ChosenSetup(s)]
  /\ UNCHANGED <<registryVars, sdpState, offerer, updated, localSetup, remoteSdp,
                 overtaken, sessionVars, netVars, serverVars, inboundVars, crashed>>

\* getDescription after its await.
DescriptionReady(s) ==
  /\ describing[s] # "none"
  /\ describing' = [describing EXCEPT ![s] = "none"]
  /\ localSetup' = [localSetup EXCEPT ![s] = describing[s]]
  /\ Described(s, "local", describing[s], remoteSdp[s],
               localSetup[s] # "none" /\ socket[s] # NoSocket
                 /\ PathsDiffer(localSetup[s], describing[s]))
  /\ UNCHANGED <<registryVars, remoteSdp, overtaken, calls, reconnectTimers, received,
                 crashed>>

\* No free port: the exception is caught and onFailure is not called.
NoPort(s) ==
  /\ describing[s] = "active"
  /\ describing' = [describing EXCEPT ![s] = "none"]
  /\ UNCHANGED <<registryVars, sdpState, offerer, updated, localSetup, remoteSdp,
                 overtaken, calls, sessionVars, netVars, serverVars, inboundVars, crashed>>

SetDescription(s, sdp) ==
  /\ MayDescribe(s, "remote")
  /\ calls' = calls + 1
  /\ overtaken' = IF describing[s] = "none" THEN overtaken \ {s} ELSE overtaken \cup {s}
  /\ remoteSdp' = [remoteSdp EXCEPT ![s] = sdp]
  /\ Described(s, "remote", localSetup[s], sdp,
               remoteSdp[s] # NoSdp /\ socket[s] # NoSocket
                 /\ (PathsDiffer(remoteSdp[s], sdp) \/ sdp.dir = "inactive"))
  /\ UNCHANGED <<registryVars, localSetup, describing, reconnectTimers, received,
                 crashed>>

-----------------------------------------------------------------------------
(* What the network and the peers do.                                      *)

\* The connect callback: setSocket checks that the connection goes to the
\* session's remote endpoint of now, and its exception is caught.
ConnectDone(u) ==
  LET s == connector[u] IN
  /\ sockState[u] = "connecting"
  /\ sockState' = [sockState EXCEPT ![u] = "open"]
  /\ IF ComesFrom(s, sockAddr[u])
     THEN SetSocket(s, u, socket, remoteSdp[s])
     ELSE UNCHANGED <<socket, connectTimers, listeners, told, buffered, processed>>
  /\ UNCHANGED <<registryVars, sdpVars, reconnectTimers, heartbeats, sockAddr,
                 connector, serverVars, received, crashed>>

ConnectFails(u) ==
  /\ sockState[u] = "connecting"
  /\ sockState' = [sockState EXCEPT ![u] = "destroyed"]
  /\ UNCHANGED <<registryVars, sdpVars, sessionVars, sockAddr, connector, listeners,
                 serverVars, inboundVars, crashed>>

\* The connection handler of the server: the first session whose remote
\* endpoint has the address gets the socket, or else it dangles.
Waiting(addr) == {s \in registered : ComesFrom(s, addr)}

Accepted == {u \in Sockets : sockState[u] # "unused" /\ connector[u] = NoSession}

Connection(u, addr) ==
  /\ IsNext(u)
  /\ Cardinality(Accepted) < MaxAccepted
  /\ \A v \in Accepted : sockAddr[v] = addr => sockState[v] \in Destroyed
  /\ sockState' = [sockState EXCEPT ![u] = "open"]
  /\ sockAddr' = [sockAddr EXCEPT ![u] = addr]
  /\ IF Waiting(addr) = {}
     THEN /\ dangling' = dangling \cup {u}
          /\ danglingTimers' = danglingTimers \cup {u}
          /\ UNCHANGED <<socket, connectTimers, listeners, told, buffered, processed>>
     ELSE /\ \E s \in Waiting(addr) :
               /\ \A t \in Waiting(addr) : s <= t
               /\ SetSocket(s, u, socket, remoteSdp[s])
          /\ UNCHANGED serverVars
  /\ UNCHANGED <<registryVars, sdpVars, reconnectTimers, heartbeats, connector,
                 received, crashed>>

\* A connection is reset, or its peer closes it.
Destroy(u) ==
  /\ sockState[u] \in Live
  /\ sockState' = [sockState EXCEPT ![u] = "destroyed"]
  /\ UNCHANGED <<registryVars, sdpVars, sessionVars, sockAddr, connector, listeners,
                 serverVars, inboundVars, crashed>>

StartReconnectTimersIfEnded(u) ==
  reconnectTimers' =
    [s \in Sessions |-> IF s \in ended /\ ReconnectTimeout
                        THEN reconnectTimers[s] + listeners[u][s]
                        ELSE reconnectTimers[s]]

StartReconnectTimers(u) ==
  reconnectTimers' =
    [s \in Sessions |-> IF s \notin ended /\ ReconnectTimeout
                        THEN reconnectTimers[s] + listeners[u][s]
                        ELSE reconnectTimers[s]]

\* The close event: every listener setSocket has added to u emits socketClose
\* and starts a reconnect timer, whatever the socket of its session is now.
Close(u) ==
  /\ sockState[u] = "destroyed"
  /\ sockState' = [sockState EXCEPT ![u] = "closed"]
  /\ told' = [s \in Sessions |-> IF listeners[u][s] > 0
                                 THEN told[s] \cup {"socketClose"} ELSE told[s]]
  /\ StartReconnectTimers(u)
  /\ UNCHANGED <<registryVars, sdpVars, socket, connectTimers, heartbeats, sockAddr,
                 connector, listeners, serverVars, inboundVars, crashed>>

\* handleIncomingRequest for session s, up to the point where the method of
\* the request matters.
LacksLiveSocket(s) ==   \* forgets the session that never had a socket
  socket[s] # NoSocket /\ sockState[socket[s]] \in Destroyed

LacksSocket(s) == socket[s] # NoSocket => sockState[socket[s]] \in Destroyed

HandleRequest(s, r) ==
  /\ crashed' = (remoteSdp[s] = NoSdp)   \* remoteSdp.attributes of null
  /\ processed' = IF remoteSdp[s] # NoSdp /\ remoteSdp[s].dir # "recvonly"
                  THEN [processed EXCEPT ![s] = Append(@, r)] ELSE processed

Request(u, s) ==
  LET r == received + 1 IN
  /\ sockState[u] \in Live
  /\ s \in created
  /\ received < MaxRequests
  /\ UseInbound /\ remoteSdp[s] = NoSdp => "early" \in Liberties
  /\ received' = r
  /\ \/ /\ s \notin registered   \* 481
        /\ UNCHANGED <<sessionVars, listeners, dangling, buffered, processed, crashed>>
     \/ /\ s \in registered /\ LacksSocket(s) /\ UseInbound
        /\ Attach(s, u, socket)
        /\ Undangle(u)
        /\ HandleRequest(s, r)
        /\ UNCHANGED <<reconnectTimers, heartbeats, buffered>>
     \/ /\ s \in registered /\ LacksSocket(s) /\ ~UseInbound
        /\ buffered' = [buffered EXCEPT ![s] = Append(@, r)]
        /\ UNCHANGED <<sessionVars, listeners, dangling, processed, crashed>>
     \/ /\ s \in registered /\ ~LacksSocket(s)
        /\ HandleRequest(s, r)
        /\ UNCHANGED <<sessionVars, listeners, dangling, buffered>>
  /\ UNCHANGED <<registryVars, sdpVars, sockState, sockAddr, connector,
                 danglingTimers>>

-----------------------------------------------------------------------------
(* Timers.                                                                 *)

\* socketConnectTimeoutFunc.  It logs with Logger.warning before it emits the
\* event; a logger without that method makes the callback throw.
ConnectTimedOut(s) ==
  /\ s \in connectTimers
  /\ connectTimers' = connectTimers \ {s}
  /\ IF socket[s] = NoSocket /\ s \notin ended /\ remoteSdp[s].dir # "inactive"
     THEN IF WarningLogger
          THEN told' = [told EXCEPT ![s] = @ \cup {"socketConnectTimeout"}] /\ UNCHANGED crashed
          ELSE crashed' = TRUE /\ UNCHANGED told
     ELSE UNCHANGED <<told, crashed>>
  /\ UNCHANGED <<registryVars, sdpVars, socket, reconnectTimers, heartbeats, netVars,
                 serverVars, inboundVars>>

ReconnectTimedOut(s) ==
  /\ reconnectTimers[s] > 0
  /\ reconnectTimers' = [reconnectTimers EXCEPT ![s] = @ - 1]
  /\ told' = IF s \notin ended /\ socket[s] # NoSocket
                  /\ sockState[socket[s]] \in Destroyed
             THEN [told EXCEPT ![s] = @ \cup {"socketReconnectTimeout"}] ELSE told
  /\ UNCHANGED <<registryVars, sdpVars, socket, connectTimers, heartbeats, netVars,
                 serverVars, inboundVars, crashed>>

DanglingTimedOut(u) ==
  /\ u \in danglingTimers
  /\ danglingTimers' = danglingTimers \ {u}
  /\ sockState' = IF u \in dangling /\ sockState[u] = "open"
                  THEN [sockState EXCEPT ![u] = "ended"] ELSE sockState
  /\ Undangle(u)
  /\ UNCHANGED <<registryVars, sdpVars, sessionVars, sockAddr, connector, listeners,
                 inboundVars, crashed>>

-----------------------------------------------------------------------------
SessionStep(s) ==
  \/ CreateSession(s)
  \/ EndSession(s)
  \/ RemoveSession(s)
  \/ GetDescription(s)
  \/ DescriptionReady(s)
  \/ NoPort(s)
  \/ \E sdp \in RemoteSdps : SetDescription(s, sdp)
  \/ ConnectTimedOut(s)
  \/ ReconnectTimedOut(s)

SocketStep(u) ==
  \/ ConnectDone(u)
  \/ ConnectFails(u)
  \/ \E addr \in Addrs : Connection(u, addr)
  \/ Destroy(u)
  \/ Close(u)
  \/ \E s \in Sessions : Request(u, s)
  \/ DanglingTimedOut(u)

Next == /\ ~crashed
        /\ \/ \E s \in Sessions : SessionStep(s)
           \/ \E u \in Sockets : SocketStep(u)

Spec == Init /\ [][Next]_vars

(***************************************************************************)
(* Fairness: timers fire, a close event follows the destruction of a       *)
(* socket, a connect ends one way or the other, and the lookup of a free   *)
(* port answers.  Nothing is assumed of the application and the peers.     *)
(***************************************************************************)
SessionFairness(s) ==
  /\ WF_vars(~crashed /\ (DescriptionReady(s) \/ NoPort(s)))
  /\ WF_vars(~crashed /\ ConnectTimedOut(s))
  /\ WF_vars(~crashed /\ ReconnectTimedOut(s))

SocketFairness(u) ==
  /\ WF_vars(~crashed /\ (ConnectDone(u) \/ ConnectFails(u)))
  /\ WF_vars(~crashed /\ Close(u))
  /\ WF_vars(~crashed /\ DanglingTimedOut(u))

Fairness == /\ \A s \in Sessions : SessionFairness(s)
            /\ \A u \in Sockets : SocketFairness(u)

FairSpec == Spec /\ Fairness

-----------------------------------------------------------------------------
(* Properties.                                                             *)

LocalSetups == {"none", "active", "passive", "actpass"}
Losses == {"socketClose", "socketConnectTimeout", "socketReconnectTimeout"}

\* Every variable keeps the type its JavaScript counterpart has.
TypeOK ==
  /\ created \subseteq Sessions /\ registered \subseteq created /\ ended \subseteq created
  /\ sdpState \in [Sessions -> {"null", "offered", "answered"}]
  /\ offerer \in [Sessions -> {"none", "local", "remote"}]
  /\ updated \subseteq Sessions
  /\ localSetup \in [Sessions -> LocalSetups]
  /\ remoteSdp \in [Sessions -> RemoteSdps \cup {NoSdp}]
  /\ describing \in [Sessions -> LocalSetups] /\ overtaken \subseteq Sessions
  /\ calls \in Nat
  /\ socket \in [Sessions -> Sockets \cup {NoSocket}]
  /\ connectTimers \subseteq Sessions
  /\ reconnectTimers \in [Sessions -> Nat]
  /\ heartbeats \subseteq Sessions
  /\ told \in [Sessions -> SUBSET Losses]
  /\ sockState \in [Sockets -> SockStates]
  /\ sockAddr \in [Sockets -> Addrs \cup {NoAddr}]
  /\ connector \in [Sockets -> Sessions \cup {NoSession}]
  /\ \A u \in Sockets : sockState[u] = "connecting" => connector[u] \in Sessions
  /\ listeners \in [Sockets -> [Sessions -> Nat]]
  /\ dangling \subseteq Sockets /\ danglingTimers \subseteq Sockets
  /\ buffered \in [Sessions -> Seq(Nat)]
  /\ processed \in [Sessions -> Seq(Nat)]
  /\ received \in Nat
  /\ crashed \in BOOLEAN

\* Without useInboundMessageForSocketSetup a session talks to the remote party
\* it has been told last and to no other: a connect that ends, a connection that
\* is accepted or has dangled may be older than the description, and the session
\* may be ended, or have negotiated again, by then.
SocketOfPeer ==
  \A s \in Sessions :
    socket[s] # NoSocket =>
      remoteSdp[s] # NoSdp /\ sockAddr[socket[s]] = remoteSdp[s].addr

\* A socket in danglingSockets is no session's socket, so the dangling timeout
\* of Server.start never ends a connection a session was given.
DanglingUnassigned == \A s \in Sessions : socket[s] \notin dangling

\* Without useInboundMessageForSocketSetup no two sessions get the same
\* connection, even when their remote parties share an address.
SocketExclusive ==
  \A s, t \in Sessions : s # t /\ socket[s] = socket[t] => socket[s] = NoSocket

\* closeSocket, end and the dangling timeout end a socket only when no
\* registered session is left using it.
NeverEndsUsedSocket ==
  [][\A u \in Sockets :
       sockState[u] = "open" /\ sockState'[u] = "ended"
         => \A s \in registered' : socket'[s] # u]_vars

\* Requests wait for socketSet only while the session has no usable socket:
\* none is left behind when a socket is set.
NoneLeftBehind ==
  \A s \in registered : buffered[s] # <<>> => LacksSocket(s)

\* Buffering keeps the order: a session handles requests in the order they
\* arrived, each at most once, and what still waits came after what is done.
HandledInOrder ==
  \A s \in Sessions :
    LET all == processed[s] \o buffered[s]
    IN \A i, j \in 1..Len(all) : i < j => all[i] < all[j]

\* A negotiation counts as answered only with both descriptions set.
AnsweredComplete ==
  \A s \in Sessions :
    sdpState[s] = "answered" => localSetup[s] # "none" /\ remoteSdp[s] # NoSdp

\* The answer to a remote offer takes the other role, so that exactly one side
\* connects, although the role is chosen before the await of getDescription.
\* Left out are negotiations in which a description came during that await: the
\* code keeps the role it has chosen before, and both sides may take the same.
RolesComplement ==
  \A s \in Sessions \ overtaken :
    sdpState[s] = "answered" /\ offerer[s] = "remote" /\ ~ForceSetup
      => localSetup[s] = AnswerTo[remoteSdp[s].setup]

\* As the library is configured by default, without a connect timeout and
\* without useInboundMessageForSocketSetup, no exception reaches the event loop:
\* a request is not handled before there is a remote description, in whatever
\* order calls, connections and requests come and whatever becomes of the session.
NoCrash == ~ConnectTimeout /\ ~UseInbound => ~crashed

\* A passive session whose negotiation is complete gets a socket or is told
\* socketConnectTimeout, unless it is ended or negotiates again.
AwaitsPeer(s) ==
  /\ sdpState[s] = "answered" /\ localSetup[s] = "passive" /\ s \notin ended
  /\ remoteSdp[s] # NoSdp /\ remoteSdp[s].dir # "inactive" /\ socket[s] = NoSocket

PassiveResolved ==
  \A s \in Sessions :
    AwaitsPeer(s) ~> ("socketConnectTimeout" \in told[s] \/ ~AwaitsPeer(s))

\* A session that heard socketClose and keeps the closed socket hears
\* socketReconnectTimeout.
LostSocket(s) ==
  /\ s \notin ended /\ socket[s] # NoSocket /\ sockState[socket[s]] = "closed"
  /\ "socketClose" \in told[s]

ReconnectTold ==
  \A s \in Sessions :
    LostSocket(s) ~> ("socketReconnectTimeout" \in told[s] \/ ~LostSocket(s))
=============================================================================
