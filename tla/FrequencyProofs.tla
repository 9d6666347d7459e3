-------------------------- MODULE FrequencyProofs --------------------------
(***************************************************************************)
(* The frequency controller, for every range of frequencies, interval and  *)
(* repetition count: both modes stay in range, an overflow always slows    *)
(* the mode that overflowed down, and every call stops retrying.           *)
(***************************************************************************)
EXTENDS Frequency, TLAPS

\* x / d lies between the bounds that x, scaled by d, lies between.
LEMMA DivBounds ==
  ASSUME NEW x \in Nat, NEW d \in Nat \ {0}, NEW lo \in Nat, NEW hi \in Nat,
         lo * d <= x, x <= hi * d
  PROVE  x \div d \in lo..hi
<1> DEFINE q == x \div d
<1>1. q \in Int /\ q * d <= x /\ x < (q + 1) * d
  OBVIOUS
<1>2. lo <= q
  <2> SUFFICES ASSUME q + 1 <= lo PROVE FALSE
    BY <1>1
  <2>1. (q + 1) * d <= lo * d
    BY <1>1
  <2> QED
    BY <1>1, <2>1
<1>3. q <= hi
  <2> SUFFICES ASSUME hi + 1 <= q PROVE FALSE
    BY <1>1
  <2>1. (hi + 1) * d <= q * d
    BY <1>1
  <2> QED
    BY <1>1, <2>1
<1> QED
  BY <1>1, <1>2, <1>3

\* The running mean of frequencies in range is in range.
LEMMA MeanInRange ==
  ASSUME NEW o \in Freq, NEW n \in Nat, NEW c \in Freq
  PROVE  Mean(o, n, c) \in Freq
<1> USE FrequencyAssumption DEF Freq
<1>1. MinFreq * n <= o * n /\ o * n <= MaxFreq * n
  OBVIOUS
<1>2. o * n \in Nat /\ MinFreq * n \in Nat /\ MaxFreq * n \in Nat
  OBVIOUS
<1>3. /\ MinFreq * (n + 1) = MinFreq * n + MinFreq
      /\ MaxFreq * (n + 1) = MaxFreq * n + MaxFreq
  OBVIOUS
<1>4. MinFreq * (n + 1) <= o * n + c /\ o * n + c <= MaxFreq * (n + 1)
  BY <1>1, <1>2, <1>3
<1>5. o * n + c \in Nat /\ n + 1 \in Nat \ {0} /\ MinFreq \in Nat /\ MaxFreq \in Nat
  BY <1>2
<1> QED
  BY <1>4, <1>5, DivBounds DEF Mean

\* Slowing down stays in range and is strict above the minimum.
LEMMA SlowerWorks ==
  ASSUME NEW c \in Freq, NEW o \in Freq
  PROVE  Slower(c, o) \in Freq /\ (c > MinFreq => Slower(c, o) < c)
BY FrequencyAssumption DEF Slower, AtLeast, Freq

LEMMA FasterWorks ==
  ASSUME NEW c \in Freq, NEW o \in Freq PROVE Faster(c, o) \in Freq
BY FrequencyAssumption DEF Faster, AtMost, Freq

-----------------------------------------------------------------------------
\* The part of TypeOK the controller's arithmetic needs, with the range.
RangeInv ==
  /\ mode \in Mode
  /\ overflow \in BOOLEAN
  /\ stable \in [Mode -> Nat]
  /\ FreqInRange

\* One step of the controller keeps the ranges.
LEMMA ControlInRange ==
  ASSUME RangeInv, NEW ovf \in BOOLEAN, Control(mode, ovf)
  PROVE  stable' \in [Mode -> Nat] /\ FreqInRange'
<1> USE DEF RangeInv, FreqInRange
<1> DEFINE mean == Mean(opt[mode], stable[mode], cur[mode])
<1>1. mean \in Freq
  BY MeanInRange
<1>2. /\ Slower(cur[mode], opt[mode]) \in Freq
      /\ Faster(cur[mode], mean) \in Freq
  BY <1>1, SlowerWorks, FasterWorks
<1>3. stable[mode] + 1 \in Nat
  OBVIOUS
<1> HIDE DEF mean
<1>4. cur' \in [Mode -> Freq]
  BY <1>2 DEF Control, mean
<1>5. opt' \in [Mode -> Freq] /\ stable' \in [Mode -> Nat]
  BY <1>1, <1>3 DEF Control, mean
<1> QED
  BY <1>4, <1>5

LEMMA RangeInvariant == Spec => []RangeInv
<1>1. Init => RangeInv
  <2> SUFFICES ASSUME Init PROVE RangeInv
    OBVIOUS
  <2>1. MinFreq \in Freq
    BY FrequencyAssumption DEF Freq
  <2>2. cur \in [Mode -> Freq]
    BY DEF Init
  <2>3. opt \in [Mode -> Freq] /\ stable \in [Mode -> Nat]
    BY <2>1 DEF Init
  <2> QED
    BY <2>2, <2>3 DEF Init, RangeInv, FreqInRange
<1>2. RangeInv /\ [Next]_vars => RangeInv'
  <2> SUFFICES ASSUME RangeInv, [Next]_vars PROVE RangeInv'
    OBVIOUS
  <2>1. ASSUME NEW m \in Mode, NEW ci \in BOOLEAN, NEW re \in BOOLEAN, Call(m, ci, re)
        PROVE RangeInv'
    BY <2>1 DEF Call, RangeInv, FreqInRange, control
  <2>2. ASSUME NEW t \in BOOLEAN, NEW ovf \in BOOLEAN, NEW flt \in BOOLEAN,
               Run(t, ovf, flt)
        PROVE RangeInv'
    <3>1. /\ Control(mode, overflow') /\ mode' = mode
      BY <2>2 DEF Run
    <3>2. overflow' \in BOOLEAN
      BY <2>2 DEF Run, RangeInv
    <3>3. stable' \in [Mode -> Nat] /\ FreqInRange'
      BY <3>1, <3>2, ControlInRange
    <3> QED
      BY <3>1, <3>2, <3>3 DEF RangeInv
  <2>3. CASE Retry
    BY <2>3 DEF Retry, RangeInv, FreqInRange, control
  <2>4. CASE Done \/ UNCHANGED vars
    BY <2>4 DEF Done, vars, RangeInv, FreqInRange, control
  <2> QED
    BY <2>1, <2>2, <2>3, <2>4 DEF Next
<1> QED
  BY <1>1, <1>2, PTL DEF Spec

\* cur_cpu_freq and opt_cpu_freq of both modes stay within the hardware's range
\* (the controller of run_target()), for every number of runs.
THEOREM FrequenciesStayInRange == Spec => []FreqInRange
<1>1. RangeInv => FreqInRange
  BY DEF RangeInv
<1> QED
  BY <1>1, RangeInvariant, PTL

\* Every overflow the controller sees strictly slows its mode down until the
\* minimum, and never touches the other mode (run_target()).
THEOREM OverflowAlwaysSlows == Spec => OverflowSlows
<1>1. RangeInv /\ [Next]_vars =>
        (execs' # execs /\ overflow' =>
           /\ cur[mode] > MinFreq => cur'[mode] < cur[mode]
           /\ \A m \in Mode \ {mode} : cur'[m] = cur[m])
  <2> SUFFICES ASSUME RangeInv, [Next]_vars, execs' # execs, overflow'
               PROVE  /\ cur[mode] > MinFreq => cur'[mode] < cur[mode]
                      /\ \A m \in Mode \ {mode} : cur'[m] = cur[m]
    OBVIOUS
  <2>1. PICK t, ovf, flt \in BOOLEAN : Run(t, ovf, flt)
    BY DEF Next, Call, Retry, Done, vars
  <2>2. Control(mode, overflow')
    BY <2>1 DEF Run
  <2>3. cur' = [cur EXCEPT ![mode] = Slower(@, opt[mode])]
    BY <2>2 DEF Control
  <2>4. cur[mode] \in Freq /\ opt[mode] \in Freq
    BY DEF RangeInv, FreqInRange
  <2> QED
    BY <2>3, <2>4, SlowerWorks DEF RangeInv, FreqInRange
<1> QED
  BY <1>1, RangeInvariant, PTL DEF Spec, OverflowSlows

-----------------------------------------------------------------------------
\* The interval is clamped, whatever the share of overflows.
LEMMA IntervalClamped ==
  ASSUME NEW a \in [execs : Nat, overflows : Nat]
  PROVE  Interval(a) \in MinInterval..MaxInterval
<1> DEFINE q == IF a.overflows = 0 THEN 0 ELSE a.execs \div a.overflows
<1>1. q \in Int
  OBVIOUS
<1>2. q \div IntervalDivisor \in Int
  BY <1>1, FrequencyAssumption
<1> HIDE DEF q
<1>3. \A x \in Int : AtMost(MaxInterval, AtLeast(MinInterval, x)) \in MinInterval..MaxInterval
  BY FrequencyAssumption DEF AtMost, AtLeast
<1> QED
  BY <1>2, <1>3 DEF Interval, q

\* One step of the controller keeps the type of its counters.
LEMMA ControlCounts ==
  ASSUME calm \in [Mode -> Nat], NEW ovf \in BOOLEAN, mode \in Mode, Control(mode, ovf)
  PROVE  calm' \in [Mode -> Nat]
<1>1. 0 \in Nat /\ calm[mode] + 1 \in Nat
  OBVIOUS
<1> QED
  BY <1>1 DEF Control

\* The variables of a run have their type: the domain of every function is the set
\* of modes, and freq_interval stays between its bounds.
THEOREM FrequencyTypes == Spec => []TypeOK
<1> USE FrequencyAssumption
<1>1. Init => TypeOK
  <2> SUFFICES ASSUME Init PROVE TypeOK
    OBVIOUS
  <2>1. cur \in [Mode -> Nat] /\ opt \in [Mode -> Nat]
    BY DEF Init, Freq
  <2>2. stable \in [Mode -> Nat] /\ calm \in [Mode -> Nat]
    BY DEF Init
  <2>3. freq_interval \in MinInterval..MaxInterval /\ cur_repetition_num \in 0..MaxRepetition
        /\ execs \in 0..MaxExecs /\ speed \in Nat /\ tries \in Nat
    BY DEF Init
  <2>4. /\ call \in [count_in : BOOLEAN, retries : BOOLEAN]
        /\ atom \in [execs : Nat, overflows : Nat]
    BY DEF Init
  <2>5. /\ pc \in {"idle", "run", "retry", "minrun"} /\ mode \in Mode
        /\ overflow \in BOOLEAN /\ fault \in BOOLEAN /\ min_freq_exec_flag \in BOOLEAN
    BY DEF Init
  <2> QED
    BY <2>1, <2>2, <2>3, <2>4, <2>5 DEF TypeOK
<1>2. TypeOK /\ FreqInRange' /\ RangeInv' /\ [Next]_vars => TypeOK'
  <2> SUFFICES ASSUME TypeOK, FreqInRange', RangeInv', [Next]_vars PROVE TypeOK'
    OBVIOUS
  <2>1. ASSUME NEW m \in Mode, NEW ci \in BOOLEAN, NEW re \in BOOLEAN, Call(m, ci, re)
        PROVE TypeOK'
    BY <2>1 DEF Call, TypeOK, control, retry
  <2>2. ASSUME NEW t \in BOOLEAN, NEW ovf \in BOOLEAN, NEW flt \in BOOLEAN,
               Run(t, ovf, flt)
        PROVE TypeOK'
    <3>1. cur' \in [Mode -> Nat] /\ opt' \in [Mode -> Nat] /\ stable' \in [Mode -> Nat]
      BY DEF FreqInRange, Freq, RangeInv
    <3>2. overflow' \in BOOLEAN /\ mode' = mode /\ call' = call
      BY <2>2 DEF Run, TypeOK
    <3>3. calm' \in [Mode -> Nat]
      BY <2>2, <3>2, ControlCounts DEF Run, TypeOK
    <3>4. atom' \in [execs : Nat, overflows : Nat]
      <4>1. \A o \in BOOLEAN : atom.overflows + (IF o THEN 1 ELSE 0) \in Nat
        BY DEF TypeOK
      <4>2. atom.execs + 1 \in Nat
        BY DEF TypeOK
      <4> QED
        BY <2>2, <3>2, <4>1, <4>2 DEF Run, TypeOK
    <3>5. freq_interval' \in MinInterval..MaxInterval
      BY <2>2, <3>4, IntervalClamped DEF Run, TypeOK
    <3>6. execs' \in 0..MaxExecs /\ tries' \in Nat
      BY <2>2 DEF Run, TypeOK
    <3>7. speed' \in Nat
      BY <2>2 DEF Run, TypeOK
    <3>8. fault' \in BOOLEAN /\ min_freq_exec_flag' \in BOOLEAN
          /\ cur_repetition_num' = cur_repetition_num
          /\ pc' \in {"idle", "retry"}
      BY <2>2 DEF Run, TypeOK
    <3> QED
      BY <3>1, <3>2, <3>3, <3>4, <3>5, <3>6, <3>7, <3>8 DEF TypeOK
  <2>3. CASE Retry
    <3>1. cur_repetition_num' \in 0..MaxRepetition
      BY <2>3 DEF Retry, TypeOK
    <3>2. min_freq_exec_flag' \in BOOLEAN /\ pc' \in {"idle", "run", "minrun"}
      BY <2>3 DEF Retry, TypeOK
    <3> QED
      BY <2>3, <3>1, <3>2 DEF Retry, TypeOK, control
  <2>4. CASE Done \/ UNCHANGED vars
    BY <2>4 DEF Done, vars, TypeOK, control, retry
  <2> QED
    BY <2>1, <2>2, <2>3, <2>4 DEF Next
<1>3. RangeInv => FreqInRange
  BY DEF RangeInv
<1> QED
  BY <1>1, <1>2, <1>3, RangeInvariant, PTL DEF Spec

-----------------------------------------------------------------------------
\* Where the caller is tells how often it has run the target.
RetryInv ==
  /\ tries \in Nat /\ cur_repetition_num \in 0..MaxRepetition
  /\ pc \in {"idle", "run", "retry", "minrun"}
  /\ pc = "idle" => cur_repetition_num = 0 /\ ~min_freq_exec_flag /\ tries <= MaxRepetition + 2
  /\ pc = "run" => ~min_freq_exec_flag /\ tries = cur_repetition_num
                     /\ (~call.retries => tries = 0)
  /\ pc = "retry" => ~min_freq_exec_flag /\ tries = cur_repetition_num + 1 /\ call.retries
  /\ pc = "minrun" => cur_repetition_num = 0 /\ tries <= MaxRepetition + 1

LEMMA RetryInvariant == Spec => []RetryInv
<1> USE FrequencyAssumption
<1>1. Init => RetryInv
  BY DEF Init, RetryInv
<1>2. RetryInv /\ [Next]_vars => RetryInv'
  <2> SUFFICES ASSUME RetryInv, [Next]_vars PROVE RetryInv'
    OBVIOUS
  <2>1. ASSUME NEW m \in Mode, NEW ci \in BOOLEAN, NEW re \in BOOLEAN, Call(m, ci, re)
        PROVE RetryInv'
    BY <2>1 DEF Call, RetryInv, retry
  <2>2. ASSUME NEW t \in BOOLEAN, NEW ovf \in BOOLEAN, NEW flt \in BOOLEAN,
               Run(t, ovf, flt)
        PROVE RetryInv'
    <3>1. /\ pc \in {"run", "minrun"} /\ ~min_freq_exec_flag' /\ tries' = tries + 1
          /\ pc' = (IF pc = "run" /\ call.retries THEN "retry" ELSE "idle")
          /\ UNCHANGED <<call, cur_repetition_num>>
      BY <2>2 DEF Run, RetryInv
    <3>2. CASE pc = "run" /\ call.retries
      BY <3>1, <3>2 DEF RetryInv
    <3>3. CASE pc = "run" /\ ~call.retries
      BY <3>1, <3>3 DEF RetryInv
    <3>4. CASE pc = "minrun"
      BY <3>1, <3>4 DEF RetryInv
    <3> QED
      BY <3>1, <3>2, <3>3, <3>4
  <2>3. CASE Retry
    <3>1. pc = "retry" /\ UNCHANGED <<call, tries>>
      BY <2>3 DEF Retry
    <3>2. CASE Overflowed /\ cur_repetition_num + 1 <= MaxRepetition
      <4>1. /\ cur_repetition_num' = cur_repetition_num + 1 /\ pc' = "run"
            /\ UNCHANGED min_freq_exec_flag
        BY <2>3, <3>2 DEF Retry
      <4> QED
        BY <3>1, <3>2, <4>1 DEF RetryInv
    <3>3. CASE ~(Overflowed /\ cur_repetition_num + 1 <= MaxRepetition)
      <4>1. /\ cur_repetition_num' = 0 /\ pc' \in {"idle", "minrun"}
            /\ pc' = "idle" => ~min_freq_exec_flag'
        BY <2>3, <3>3 DEF Retry
      <4> QED
        BY <3>1, <4>1 DEF RetryInv
    <3> QED
      BY <3>2, <3>3
  <2>4. CASE Done \/ UNCHANGED vars
    BY <2>4 DEF Done, vars, RetryInv, retry
  <2> QED
    BY <2>1, <2>2, <2>3, <2>4 DEF Next
<1> QED
  BY <1>1, <1>2, PTL DEF Spec

\* Every call ends after MaxRepetition repetitions and at most one run at the
\* minimal frequency, and leaves the globals of retry_to_fuzz() as it found them.
THEOREM RetriesAreBounded == Spec => []RetryBounded
<1>1. RetryInv => RetryBounded
  BY FrequencyAssumption DEF RetryInv, RetryBounded
<1> QED
  BY <1>1, RetryInvariant, PTL

\* From a run until its caller decides: the frequency an overflow has left is one
\* step of the controller below that of the run; an accepted one has come down.
NearFloorInv ==
  /\ pc = "retry" /\ mode = "addr" /\ overflow => cur["addr"] = Slower(speed, opt["addr"])
  /\ OverflowAcceptedNearFloor

\* The controller's step after an overflow.
LEMMA ControlAfterOverflow ==
  ASSUME RangeInv, Control(mode, TRUE)
  PROVE  opt' = opt /\ cur'[mode] = Slower(cur[mode], opt[mode])
BY DEF RangeInv, FreqInRange, Control

\* A caller that retries keeps an overflowed address trace only if one step of the
\* controller from the speed of that run is the minimal frequency (retry_to_fuzz()).
THEOREM OverflowOnlyNearFloor == Spec => []OverflowAcceptedNearFloor
<1> USE FrequencyAssumption
<1>1. Init => NearFloorInv
  BY DEF Init, NearFloorInv, OverflowAcceptedNearFloor
<1>2. NearFloorInv /\ RangeInv /\ RetryInv /\ [Next]_vars => NearFloorInv'
  <2> SUFFICES ASSUME NearFloorInv, RangeInv, RetryInv, [Next]_vars
               PROVE NearFloorInv'
    OBVIOUS
  <2> USE DEF NearFloorInv, OverflowAcceptedNearFloor
  <2>1. ASSUME NEW m \in Mode, NEW ci \in BOOLEAN, NEW re \in BOOLEAN, Call(m, ci, re)
        PROVE NearFloorInv'
    BY <2>1 DEF Call
  <2>2. ASSUME NEW t \in BOOLEAN, NEW ovf \in BOOLEAN, NEW flt \in BOOLEAN,
               Run(t, ovf, flt)
        PROVE NearFloorInv'
    <3>1. SUFFICES ASSUME mode' = "addr", overflow'
                   PROVE /\ pc' = "retry" => cur'["addr"] = Slower(speed', opt'["addr"])
                         /\ pc' = "idle" /\ call'.retries
                              => Slower(speed', opt'["addr"]) = MinFreq
      OBVIOUS
    <3>2. mode = "addr" /\ Control(mode, TRUE) /\ call' = call
      BY <2>2, <3>1 DEF Run, RangeInv
    <3>3. opt' = opt /\ cur'["addr"] = Slower(cur["addr"], opt["addr"])
      BY <3>2, ControlAfterOverflow
    <3>4. CASE pc = "run"
      BY <2>2, <3>2, <3>3, <3>4 DEF Run
    <3>5. CASE pc = "minrun"
      <4>1. speed' = MinFreq /\ pc' = "idle"
        BY <2>2, <3>5 DEF Run
      <4>2. opt["addr"] \in Freq /\ MinFreq \in Freq
        BY <3>2 DEF RangeInv, FreqInRange, Freq
      <4>3. Slower(MinFreq, opt["addr"]) = MinFreq
        BY <4>2 DEF Slower, AtLeast, Freq
      <4> QED
        BY <3>3, <4>1, <4>3
    <3> QED
      BY <2>2, <3>4, <3>5 DEF Run
  <2>3. CASE Retry
    <3> SUFFICES ASSUME pc' = "idle", mode' = "addr", overflow', fault'
                 PROVE Slower(speed', opt'["addr"]) = MinFreq
      BY <2>3 DEF Retry
    <3>1. ~Overflowed /\ pc = "retry" /\ UNCHANGED <<mode, cur, opt, speed, overflow, fault>>
      BY <2>3 DEF Retry, control
    <3>2. cur["addr"] \in Freq
      BY <3>1 DEF RangeInv, FreqInRange
    <3>3. cur["addr"] = MinFreq
      BY <3>1, <3>2 DEF Overflowed, Freq
    <3> QED
      BY <3>1, <3>3
  <2>4. CASE Done \/ UNCHANGED vars
    BY <2>4 DEF Done, vars, control
  <2> QED
    BY <2>1, <2>2, <2>3, <2>4 DEF Next
<1> QED
  BY <1>1, <1>2, RangeInvariant, RetryInvariant, PTL DEF Spec, NearFloorInv
=============================================================================
