------------------------------ MODULE MCHybrid ------------------------------
(* Hybrid on small instances: a queue of one input and its finds, an atom   *)
(* bit and two address bits, calibrations of four or five cycles.           *)
EXTENDS Hybrid, TLC

Symmetry == Permutations(AtomBit) \union Permutations(AddressBit)
              \union Permutations(Half)
=============================================================================
