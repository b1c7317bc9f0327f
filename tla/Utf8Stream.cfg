\* Every answer of up to five bytes, cut into tokens in every way.
SPECIFICATION Spec
CONSTANTS
  MaxBytes = 5
  MaxPiece = 3
INVARIANTS TypeOK CutIndependent OnlyWholeCharacters ValidTextKept
CHECK_DEADLOCK FALSE
