SPECIFICATION FairSpec
CHECK_DEADLOCK FALSE
CONSTANTS
  Messages <- MCMessages
  Parsable <- MCParsable
  Start <- MCStart
  End <- MCEnd
  Length <- MCLength
  Tids = {"t1", "t2", "t3"}
  Begins <- MCBegins
  BodyLines <- MCBodyLines
  Written <- MCWritten
  Text <- MCText
  Parsed <- MCParsed
INVARIANTS
  TypeOK
  NothingHeldBack
  HandledIsMeant
PROPERTIES
  ImplementsStream
  ArrivedHandled
