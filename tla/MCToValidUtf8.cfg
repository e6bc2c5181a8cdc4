CONSTANTS
  empty = empty
  one = one
  pair = pair
  ffd = ffd
  Block = {b1, b2, b3}
  Literal = {empty, one, pair, ffd}
  LitText <- MCLitText
  NULL = NULL
  GONE = GONE
  SB_SIZE = 2
  Fn = {"utf8"}
  DestText <- MCAnyText
  OtherText <- MCNoText
  UFFFD = ffd
SPECIFICATION FairSpec
INVARIANTS
  Repaired
PROPERTIES
  CallReturns
