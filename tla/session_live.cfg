SPECIFICATION FairSpec
CONSTANTS
  Sessions = {1}
  Sockets = {1, 2, 3}
  Addrs = {a}
  RemoteSdps <- LiveSdps
  NoSocket = NoSocket
  NoSdp = NoSdp
  NoSession = NoSession
  NoAddr = NoAddr
  UseInbound = FALSE
  ForceSetup = FALSE
  Setup = "passive"
  ConnectTimeout = TRUE
  ReconnectTimeout = TRUE
  EnableHeartbeats = TRUE
  WarningLogger = TRUE
  Liberties = {"remove"}
  MaxCalls = 4
  MaxAccepted = 2
  MaxRequests = 0
  a = a
  b = b
INVARIANT AnsweredComplete
INVARIANT RolesComplement
PROPERTY PassiveResolved
PROPERTY ReconnectTold
\* The application and the peers may stop at any time.
CHECK_DEADLOCK FALSE
