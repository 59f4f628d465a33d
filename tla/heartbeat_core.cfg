SPECIFICATION Spec
CONSTANTS
  Interval = 5
  Timeout = 10
INVARIANTS
  TypeOK
  TimeoutMeansSilence
  SilenceIsTold
\* Nothing happens after the session has ended and all answers have come.
CHECK_DEADLOCK FALSE
