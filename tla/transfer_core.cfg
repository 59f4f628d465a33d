SPECIFICATION FairSpec
CHECK_DEADLOCK FALSE
CONSTANTS
  Messages = {1, 2, 3}
  Widths <- WholeCharacters
  ChunkSize = 2
  BufferSize = 3
  NoReceiver = NoReceiver
  Liberties = {"abort", "repeat"}
INVARIANTS
  TypeOK
  AllArrivedDelivered
  AbortedNotDelivered
PROPERTIES
  ImplementsDelivery
  ReceiverReleased
