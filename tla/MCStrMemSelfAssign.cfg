CONSTANTS
  a = a
  ab = ab
  empty = empty
  Block = {b1, b2, b3}
  Literal = {ab, empty}
  LitText <- MCLitText
  NULL = NULL
  GONE = GONE
  STACK = STACK
  Var = {x, y}
  SmallBuffSize = 3
  MaxArgs = 2
  MaxTimes = 2
  MaxLen = 3
SPECIFICATION CarelessSpec
PROPERTIES
  AssignmentSafe
