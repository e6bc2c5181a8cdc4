CONSTANTS
  b1 = b1 b2 = b2 b3 = b3 lit = lit
  EIO = EIO EBADF = EBADF
  Block = {b1, b2, b3}
  Literal = {lit}
  LitText <- MCLitText
  NULL = NULL
  GONE = GONE
  Mb64 = 6
  Errno = {EIO, EBADF}
  EINTR = EINTR EISDIR = EISDIR ENOTSUP = ENOTSUP EFBIG = EFBIG
  Running = Running
  MaxSize = 6
SPECIFICATION FairSpec
INVARIANTS
  TypeOK
  NothingLeaked
  WholeFile
  CauseReported
PROPERTIES
  ChangedOnSuccess
  CallReturns
