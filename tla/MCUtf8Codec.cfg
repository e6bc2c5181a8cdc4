CONSTANTS
  Input <- MCInput
  CodePoint <- MCCodePoint
  None = None
SPECIFICATION CodecSpec
INVARIANTS
  DecodesEncodings
  ErrorAtFirstBadByte
  RoundTrip
