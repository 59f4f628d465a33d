SPECIFICATION Spec
CONSTANTS
  Sessions = {1, 2}
  Sockets = {1, 2, 3}
  Addrs = {a}
  RemoteSdps <- PairSdps
  NoSocket = NoSocket
  NoSdp = NoSdp
  NoSession = NoSession
  NoAddr = NoAddr
  UseInbound = FALSE
  ForceSetup = FALSE
  Setup = "active"
  ConnectTimeout = FALSE
  ReconnectTimeout = FALSE
  EnableHeartbeats = TRUE
  WarningLogger = TRUE
  Liberties = {"remove"}
  MaxCalls = 4
  MaxAccepted = 1
  MaxRequests = 0
  a = a
  b = b
INVARIANT SocketExclusive
PROPERTY NeverEndsUsedSocket
\* The application and the peers may stop at any time.
CHECK_DEADLOCK FALSE
