SPECIFICATION Spec
CONSTANTS
  MinFreq = 10
  MaxFreq = 21
  FreqStep = 11
  EtmMode = 3
  MaxRepetition = 2
  MinInterval = 1
  MaxInterval = 3
  IntervalDivisor = 1
  MaxExecs = 6
INVARIANTS FreqInRange RetryBounded OverflowAcceptedNearFloor
PROPERTIES OverflowSlows
