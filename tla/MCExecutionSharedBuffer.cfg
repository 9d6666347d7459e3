SPECIFICATION Spec
CONSTANTS
  Fuzzer = {f1, f2}
  NoFuzzer = NoFuzzer
  MaxRun = 2
  Multicore = TRUE
  uses_asan = FALSE
  Analysis = FALSE
  ServerMayDie = FALSE
INVARIANTS OwnTrace
SYMMETRY Symmetry
