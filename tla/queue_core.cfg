SPECIFICATION FairSpec
CHECK_DEADLOCK FALSE
CONSTANTS
  k1 = k1
  k2 = k2
  Messages = {1, 2, 3}
  Sockets = {k1, k2}
  SocketOf <- MCSocketOf
  Size <- MCSize
  ChunkSize = 2
  IncontiguousLimit = 1
  Liberties <- CarefulLiberties
  EarlyRefusal = FALSE
  MaxReports = 4
INVARIANTS
  TypeOK
  ChunksFollow
  NeverDropped
  CalledBackOnce
  SentIsWritten
  ReportedIsAcked
PROPERTIES
  LoopTerminates
