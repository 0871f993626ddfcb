SPECIFICATION Spec
CONSTANTS
  LineLimits = { 1, 2 }
  ByteLimits = { 1 }
  MaxOutput = 8
  MaxPiece = 3
  MaxFull = 6
INVARIANT ShowsEnd
CHECK_DEADLOCK FALSE
