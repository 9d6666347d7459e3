----------------------------- MODULE MCFrequency -----------------------------
(* Frequency on a small range of frequencies and short intervals.           *)
EXTENDS Frequency
=============================================================================
