SPECIFICATION Spec
CONSTANTS
  Sessions = {1, 2}
  Sockets = {1, 2, 3}
  Addrs = {a, b}
  RemoteSdps <- SharedSdps
  NoSocket = NoSocket
  NoSdp = NoSdp
  NoSession = NoSession
  NoAddr = NoAddr
  UseInbound = TRUE
  ForceSetup = FALSE
  Setup = "passive"
  ConnectTimeout = TRUE
  ReconnectTimeout = FALSE
  EnableHeartbeats = TRUE
  WarningLogger = TRUE
  Liberties = {"remove"}
  MaxCalls = 2
  MaxAccepted = 1
  MaxRequests = 2
  a = a
  b = b
PROPERTY NeverEndsUsedSocket
\* The application and the peers may stop at any time.
CHECK_DEADLOCK FALSE
