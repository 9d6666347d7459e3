SPECIFICATION Spec
CONSTANTS
  s1 = s1
  s2 = s2
  f1 = f1
  Seeds <- MCSeeds
  Found <- MCFound
  MaxShuffled = 2
INVARIANTS CasesSurvive MarksSurvive DiskIsMemory
PROPERTIES SeekSameCase
