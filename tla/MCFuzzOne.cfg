SPECIFICATION Spec
CONSTANTS
  Starts <- MCStarts
  Trace <- MCTrace
  Odd <- MCOdd
  etm_mode = 3
  extras <- MCExtras
  Others <- MCOthers
  Scores <- MCScores
  TRIM_START_STEPS = 2
  TRIM_END_STEPS = 8
  TRIM_MIN_BYTES = 1
  EFF_MAP_SCALE2 = 0
  EFF_MIN_LEN = 4
  EFF_MAX_PERC = 90
  MIN_AUTO_EXTRA = 3
  MAX_AUTO_EXTRA = 3
  MAX_AUTO_EXTRAS = 2
  USE_AUTO_EXTRAS = 1
  MAX_DET_EXTRAS = 3
  MAX_FILE = 7
  HAVOC_STACK_POW2 = 1
  HAVOC_MIN = 1
  HAVOC_MAX_MULT = 1
  SPLICE_CYCLES = 2
  HAVOC_BLK <- MCBlocks
  MaxFinds = 2
CHECK_DEADLOCK FALSE
INVARIANTS BufferRestored NothingUntried EffMapExact CasesFit TrimKeepsTrace
PROPERTIES Returns
