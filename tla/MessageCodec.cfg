CONSTANTS
  Small = 1000
  Lengths = 600
SPECIFICATION Spec
INVARIANTS NonNegativeIsExact BodyIsWhatFollows
CHECK_DEADLOCK FALSE
