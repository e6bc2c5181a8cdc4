CONSTANTS
  empty = empty
  one = one
  pair = pair
  ffd = ffd
  Block = {b1, b2, b3, b4}
  Literal = {empty, one, pair, ffd}
  LitText <- MCLitText
  NULL = NULL
  GONE = GONE
  SB_SIZE = 3
  Fn = {"substring", "chars", "spans"}
  DestText <- MCText
  OtherText <- MCOtherText
  UFFFD = ffd
SYMMETRY MCSymmetry
SPECIFICATION Spec
INVARIANTS
  TypeOK
  OneOwnerPerBlock
  PiecesAlive
  Replaced
