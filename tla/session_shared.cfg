SPECIFICATION Spec
CONSTANTS
  Sessions = {1, 2}
  Sockets = {1, 2}
  Addrs = {a}
  RemoteSdps <- SharedSdps
  NoSocket = NoSocket
  NoSdp = NoSdp
  NoSession = NoSession
  NoAddr = NoAddr
  UseInbound = TRUE
  ForceSetup = FALSE
  Setup = "passive"
  ConnectTimeout = TRUE
  ReconnectTimeout = FALSE
  EnableHeartbeats = TRUE
  WarningLogger = TRUE
  Liberties = {"end"}
  MaxCalls = 4
  MaxAccepted = 2
  MaxRequests = 2
  a = a
  b = b
INVARIANT DanglingUnassigned
PROPERTY NeverEndsUsedSocket
\* The application and the peers may stop at any time.
CHECK_DEADLOCK FALSE
