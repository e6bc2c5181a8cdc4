CONSTANTS
  EBADF = EBADF
  BATCH_SIZE = 2
  Errno = {EBADF}
  Running = Running
  MaxCount = 4
  MaxLen = 3
SPECIFICATION FairSpec
INVARIANTS
  BatchInBounds
PROPERTIES
  Implements
  CallReturns
