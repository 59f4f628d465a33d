SPECIFICATION Spec
CHECK_DEADLOCK FALSE
CONSTANTS
  Words <- MCWords
  Locals <- MCLocals
  Foreign <- MCForeign
INVARIANTS
  DescribedIsRead
  AcceptedIsRead
  NothingUnaccepted
