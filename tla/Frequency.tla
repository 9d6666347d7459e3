------------------------------ MODULE Frequency ------------------------------
(***************************************************************************)
(* The frequency controller at the end of run_target() and the retry loop  *)
(* of its callers (calibrate_case(), common_fuzz_stuff(), update_checksum_ *)
(* in_hybrid_mode()): a trace that overflowed the ETM's FIFO slows the     *)
(* core down, freq_interval clean runs in a row speed it up, and an        *)
(* address trace that overflowed is taken again, at last at the minimal    *)
(* frequency.  Each ETM mode (bb_mode: address or atom) has its own state. *)
(*                                                                         *)
(* The doubles of the code (0.2, 0.1) are exact fifths and tenths here; a  *)
(* u64 that would go below zero saturates at zero, as AArch64 converts it, *)
(* and its division by zero gives zero.                                    *)
(***************************************************************************)
EXTENDS Integers

CONSTANTS MinFreq, MaxFreq,          \* system_{min,max}_cpufreq
          FreqStep,                  \* 10000: the steps of the first analysis
          EtmMode,                   \* 1: address, 2: atom, 3: hybrid
          MaxRepetition,             \* max_repetition_num
          MinInterval, MaxInterval,  \* {MIN,MAX}_FREQ_INTERVAL
          IntervalDivisor,           \* 5
          MaxExecs                   \* bound: runs in all

ASSUME FrequencyAssumption ==
  /\ {MinFreq, FreqStep, MinInterval, IntervalDivisor} \subseteq Nat \ {0}
  /\ MaxFreq \in Nat /\ MinFreq <= MaxFreq
  /\ MaxInterval \in Nat /\ MinInterval <= MaxInterval
  /\ EtmMode \in 1..3
  /\ {MaxRepetition, MaxExecs} \subseteq Nat

VARIABLES
  pc,          \* "idle", "run", "retry" or "minrun": where the caller is
  mode,        \* bb_mode of the current call: "addr" or "atom"
  call,        \* [count_in, retries] of the current call
  cur, opt,    \* {cur,opt}_cpu_freq_{addr,atom}
  stable,      \* stable_freq_nums_{addr,atom}
  calm,        \* non_overflow_nums_{addr,atom}
  freq_interval,
  atom,        \* [execs, overflows]: other_atom_execs, other_overflow_nums_atom
  overflow,    \* overflow_nums > 0
  fault,       \* fault == crash_mode of the last run
  cur_repetition_num,
  min_freq_exec_flag,
  execs,       \* total_execs
  speed,       \* history: the frequency of the last run
  tries        \* history: the runs of the current call

control == <<cur, opt, stable, calm, freq_interval, atom>>
retry == <<cur_repetition_num, min_freq_exec_flag>>
vars == <<pc, mode, call, control, overflow, fault, retry, execs, speed, tries>>

Mode == IF EtmMode = 1 THEN {"addr"}
        ELSE IF EtmMode = 2 THEN {"atom"} ELSE {"addr", "atom"}

Freq == MinFreq..MaxFreq

\* cpu_frequency_analysis() leaves the last frequency whose trial run did not
\* overflow, the same for both modes; main() then resets the statistics.
Init ==
  /\ pc = "idle"
  /\ mode \in Mode
  /\ call = [count_in |-> FALSE, retries |-> FALSE]
  /\ \E f \in Freq : (f - MinFreq) % FreqStep = 0 /\ cur = [m \in Mode |-> f]
  /\ opt = [m \in Mode |-> MinFreq]
  /\ stable = [m \in Mode |-> 0]
  /\ calm = [m \in Mode |-> 0]
  /\ freq_interval = IF EtmMode = 1 THEN MinInterval ELSE MaxInterval
  /\ atom = [execs |-> 0, overflows |-> 0]
  /\ overflow = FALSE
  /\ fault = TRUE
  /\ cur_repetition_num = 0
  /\ min_freq_exec_flag = FALSE
  /\ execs = 0
  /\ speed = MaxFreq
  /\ tries = 0

-----------------------------------------------------------------------------
AtLeast(lo, x) == IF x < lo THEN lo ELSE x
AtMost(hi, x) == IF x > hi THEN hi ELSE x

\* (Mutant) no clamp at the minimum.
SlowerUnclamped(c, o) ==
  LET base == IF o = MinFreq THEN c ELSE o
  IN  AtLeast(0, c - (base - MinFreq + 4) \div 5)

\* (Mutant) the step is truncated instead.
SlowerTruncated(c, o) ==
  LET base == IF o = MinFreq THEN c ELSE o
  IN  AtLeast(MinFreq, c - (base - MinFreq) \div 5)

\* cur_cpu_freq after an overflow: a fifth of the way down to the minimum,
\* measured from the optimum once there is one, rounded against us.
Slower(c, o) ==
  LET base == IF o = MinFreq THEN c ELSE o
  IN  AtLeast(MinFreq, c - (base - MinFreq + 4) \div 5)

\* cur_cpu_freq after enough clean runs.
Faster(c, o) ==
  IF c < MaxFreq THEN AtMost(MaxFreq, c + (MaxFreq - o) \div 10) ELSE c

\* opt_cpu_freq: the mean of the frequencies that proved stable.
Mean(o, n, c) == (o * n + c) \div (n + 1)

\* freq_interval, from the share of atom runs that overflowed.
Interval(a) ==
  LET q == IF a.overflows = 0 THEN 0 ELSE a.execs \div a.overflows
  IN  AtMost(MaxInterval, AtLeast(MinInterval, q \div IntervalDivisor))

\* The controller's step for a run in mode m that overflowed or not.
Control(m, ovf) ==
  LET grown == calm[m] + 1
      settled == ~ovf /\ grown = freq_interval
      mean == Mean(opt[m], stable[m], cur[m])
  IN
  /\ cur' = [cur EXCEPT ![m] = IF ovf THEN Slower(@, opt[m])
                               ELSE IF settled THEN Faster(@, mean) ELSE @]
  /\ opt' = [opt EXCEPT ![m] = IF settled THEN mean ELSE @]
  /\ stable' = [stable EXCEPT ![m] = IF settled THEN @ + 1 ELSE @]
  /\ calm' = [calm EXCEPT ![m] = IF ovf \/ settled THEN 0 ELSE grown]

-----------------------------------------------------------------------------
\* A caller starts: some loop on retry_to_fuzz(), some run the target once.
Call(m, count_in, retries) ==
  /\ pc = "idle" /\ execs < MaxExecs
  /\ pc' = "run"
  /\ mode' = m
  /\ call' = [count_in |-> count_in, retries |-> retries]
  /\ tries' = 0
  /\ UNCHANGED <<control, overflow, fault, retry, execs, speed>>

\* run_target() under {address,atom,minimal}_run_target().  A run that was
\* not traced (skip_tracing) leaves overflow_nums as it was.
Run(traced, ovf, flt) ==
  /\ pc \in {"run", "minrun"} /\ execs < MaxExecs
  /\ overflow' = IF traced THEN ovf ELSE overflow
  /\ speed' = IF pc = "minrun" THEN MinFreq ELSE cur[mode]
  /\ fault' = flt
  /\ atom' = IF call.count_in /\ mode = "atom"
             THEN [execs |-> atom.execs + 1,
                   overflows |-> atom.overflows + IF overflow' THEN 1 ELSE 0]
             ELSE atom
  /\ Control(mode, overflow')
  /\ freq_interval' = IF EtmMode = 1 THEN freq_interval ELSE Interval(atom')
  /\ execs' = execs + 1
  /\ tries' = tries + 1
  /\ pc' = IF pc = "run" /\ call.retries THEN "retry" ELSE "idle"
  /\ min_freq_exec_flag' = (pc = "run" /\ min_freq_exec_flag)
  /\ UNCHANGED <<mode, call, cur_repetition_num>>

\* The condition of retry_to_fuzz(); stop_soon ends the program and is left out.
Overflowed == fault /\ mode = "addr" /\ cur["addr"] > MinFreq /\ overflow

\* (Mutant) the count of repetitions survives the call.
RetryKeepsCount ==
  /\ pc = "retry"
  /\ IF Overflowed /\ cur_repetition_num + 1 <= MaxRepetition
     THEN /\ cur_repetition_num' = cur_repetition_num + 1
          /\ pc' = "run"
          /\ UNCHANGED min_freq_exec_flag
     ELSE /\ min_freq_exec_flag' = (min_freq_exec_flag \/ Overflowed)
          /\ pc' = IF min_freq_exec_flag' THEN "minrun" ELSE "idle"
          /\ UNCHANGED cur_repetition_num
  /\ UNCHANGED <<mode, call, control, overflow, fault, execs, speed, tries>>

\* (Mutant) after the last repetition the trace is taken as it is.
RetryGivesUp ==
  /\ pc = "retry"
  /\ IF Overflowed /\ cur_repetition_num + 1 <= MaxRepetition
     THEN /\ cur_repetition_num' = cur_repetition_num + 1
          /\ pc' = "run"
     ELSE cur_repetition_num' = 0 /\ pc' = "idle"
  /\ UNCHANGED <<mode, call, control, overflow, fault, min_freq_exec_flag,
                 execs, speed, tries>>

\* "if (retry_to_fuzz(fault)) goto start_run; cur_repetition_num = 0;
\*  if (min_freq_exec_flag) minimal_run_target()"
Retry ==
  /\ pc = "retry"
  /\ IF Overflowed /\ cur_repetition_num + 1 <= MaxRepetition
     THEN /\ cur_repetition_num' = cur_repetition_num + 1
          /\ pc' = "run"
          /\ UNCHANGED min_freq_exec_flag
     ELSE /\ cur_repetition_num' = 0
          /\ min_freq_exec_flag' = (min_freq_exec_flag \/ Overflowed)
          /\ pc' = IF min_freq_exec_flag' THEN "minrun" ELSE "idle"
  /\ UNCHANGED <<mode, call, control, overflow, fault, execs, speed, tries>>

\* The bound: nothing is left to run.
Done == execs = MaxExecs /\ pc # "retry" /\ UNCHANGED vars

Next ==
  \/ \E m \in Mode, count_in, retries \in BOOLEAN : Call(m, count_in, retries)
  \/ \E traced, ovf, flt \in BOOLEAN : Run(traced, ovf, flt)
  \/ Retry
  \/ Done

Spec == Init /\ [][Next]_vars

-----------------------------------------------------------------------------
TypeOK ==
  /\ pc \in {"idle", "run", "retry", "minrun"}
  /\ mode \in Mode
  /\ call \in [count_in : BOOLEAN, retries : BOOLEAN]
  /\ cur \in [Mode -> Nat] /\ opt \in [Mode -> Nat]
  /\ stable \in [Mode -> Nat] /\ calm \in [Mode -> Nat]
  /\ freq_interval \in MinInterval..MaxInterval
  /\ atom \in [execs : Nat, overflows : Nat]
  /\ overflow \in BOOLEAN /\ fault \in BOOLEAN
  /\ cur_repetition_num \in 0..MaxRepetition
  /\ min_freq_exec_flag \in BOOLEAN
  /\ execs \in 0..MaxExecs
  /\ speed \in Nat /\ tries \in Nat

\* Both modes stay between the frequencies the hardware has: scaling_min_freq is
\* never set to a value cpufreq would refuse, whatever runs overflow.
FreqInRange == cur \in [Mode -> Freq] /\ opt \in [Mode -> Freq]

\* Every overflow slows the mode that overflowed down until it is at the
\* minimum, and leaves the other mode alone: overflow cannot persist at one
\* speed (rounding never makes the step zero).
OverflowSlows ==
  [][execs' # execs /\ overflow' =>
       /\ cur[mode] > MinFreq => cur'[mode] < cur[mode]
       /\ \A m \in Mode \ {mode} : cur'[m] = cur[m]]_vars

\* A call runs the target at most MaxRepetition + 1 times and once more at the
\* minimal frequency, and it leaves no repetition state to the next call.
RetryBounded ==
  /\ tries <= MaxRepetition + 2
  /\ pc = "idle" => cur_repetition_num = 0 /\ ~min_freq_exec_flag

\* A retrying caller keeps an overflowed address trace only if it was taken at the
\* minimal frequency or one step of the controller above it: retry_to_fuzz() looks at
\* the frequency as the run has left it, so the last step down is not run again.
OverflowAcceptedNearFloor ==
  pc = "idle" /\ call.retries /\ mode = "addr" /\ overflow /\ fault
    => Slower(speed, opt["addr"]) = MinFreq
=============================================================================
