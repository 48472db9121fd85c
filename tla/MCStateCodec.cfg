SPECIFICATION Spec
CONSTANTS
  Base = 4
  FireBytes = 1
  LenBytes = 1
  MaxSound = 3
  MaxRaw = 7
  None = None
INVARIANTS
  RoundTrip
  DecodeIsCanonical
  TruncationInventsNothing
