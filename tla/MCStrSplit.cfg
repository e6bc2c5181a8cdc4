CONSTANTS
  SIZE_MAX = 15
  MaxLen = 7
  Letter = {65, 200}
  Pattern <- MCPattern
SPECIFICATION Spec
INVARIANTS
  TypeOK
  SplitRejoins
  WordsFound
  Stripped
PROPERTY
  LoopsEnd
