SPECIFICATION Spec
CHECK_DEADLOCK FALSE
CONSTANTS
  Messages = {1}
  Widths <- WholeCharacters
  ChunkSize = 2
  BufferSize = 3
  NoReceiver = NoReceiver
  Liberties = {"duplicate"}
INVARIANTS
  DeliveredIntact
