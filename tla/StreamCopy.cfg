CONSTANTS
  BUFFER_SIZE = 3
  MAX_COPY_LENGTH = 2
  PIPE = 1
  OutBytes = 4
  InBytes = 2
SPECIFICATION Spec
INVARIANTS NothingLost EndsLast
PROPERTIES EventuallyReturns
CHECK_DEADLOCK FALSE
