SPECIFICATION FairSpec
CONSTANTS
  Fuzzer = {f1}
  NoFuzzer = NoFuzzer
  MaxRun = 4
  Multicore = FALSE
  uses_asan = TRUE
  Analysis = TRUE
  ServerMayDie = TRUE
INVARIANTS TimeoutVerdict OwnTrace
PROPERTIES ImplementsAtomicRun RunCompletes
