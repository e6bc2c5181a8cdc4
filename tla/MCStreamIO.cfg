CONSTANTS
  b1 = b1 b2 = b2 b3 = b3
  EIO = EIO ENOSPC = ENOSPC
  Block = {b1, b2, b3}
  Literal = {}
  LitText <- NoLiteral
  NULL = NULL
  GONE = GONE
  Errno = {EIO, ENOSPC}
  ENOMEM = ENOMEM EINVAL = EINVAL
  Running = Running
  MaxSize = 4
SYMMETRY Blocks
SPECIFICATION Spec
INVARIANTS
  TypeOK
  NothingLeaked
  LineDelivered
  Copied
  ErrorCloses
