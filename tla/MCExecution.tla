---------------------------- MODULE MCExecution ----------------------------
(* One afl-fuzz process, or two that share the board, for a few calls of    *)
(* run_target().                                                            *)
EXTENDS Execution, TLC

Symmetry == Permutations(Fuzzer)
=============================================================================
