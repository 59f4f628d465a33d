SPECIFICATION FairBothSpec
CHECK_DEADLOCK FALSE
CONSTANTS
  k1 = k1
  k2 = k2
  Messages = {1, 2, 3}
  Sockets = {k1, k2}
  SocketOf <- MCSocketOf
  Widths <- MCWidths
  Size <- MCSize
  ChunkSize = 2
  BufferSize = 3
  NoReceiver = NoReceiver
  IncontiguousLimit = 1
  Liberties <- SendsFromCallback
  EarlyRefusal = FALSE
  MaxReports = 8
  Removable = {k1}
INVARIANTS
  BothTypeOK
PROPERTIES
  ImplementsOutcome
  KeepsToSendQueue
  SentIsHeard
