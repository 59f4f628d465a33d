SPECIFICATION Spec
CONSTANTS
  Sessions = {1}
  Sockets = {1, 2, 3}
  Addrs = {a, b}
  RemoteSdps <- CoreSdps
  NoSocket = NoSocket
  NoSdp = NoSdp
  NoSession = NoSession
  NoAddr = NoAddr
  UseInbound = FALSE
  ForceSetup = FALSE
  Setup = "active"
  ConnectTimeout = FALSE
  ReconnectTimeout = FALSE
  EnableHeartbeats = FALSE
  WarningLogger = FALSE
  Liberties = {"remove", "end", "busy", "outOfTurn", "throws"}
  MaxCalls = 4
  MaxAccepted = 1
  MaxRequests = 2
  a = a
  b = b
INVARIANT TypeOK
INVARIANT SocketOfPeer
INVARIANT NoneLeftBehind
INVARIANT HandledInOrder
 
\* The application and the peers may stop at any time.
CHECK_DEADLOCK FALSE
