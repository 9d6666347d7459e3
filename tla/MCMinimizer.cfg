SPECIFICATION Spec
CONSTANTS
  Starts <- MCStarts
  Outcome <- MCOutcome
  MaxLen = 4
  TMIN_SET_STEPS = 128
  TMIN_SET_MIN_SIZE = 2
  TRIM_START_STEPS = 2
  TMIN_MAX_FILE = 4
  LenBits = 3
CHECK_DEADLOCK FALSE
INVARIANTS KeepsBehaviour OneMinimal
PROPERTIES Ends
