SPECIFICATION Spec
CONSTANTS
  SEND_CAPACITY = 2
  RECV_CAPACITY = 2
  PIPE = 1
  InBytes = 2
  OutBytes = 2
INVARIANTS
  EndOfFileIsEndOfStream
  OutboundEndsLast
  EndsWhenDone
  NeverBusyWaits
PROPERTY DestructorReturns
\* The owner and the thread are done, or the process was killed.
CHECK_DEADLOCK FALSE
