--------------------------- MODULE FuzzOneProofs ---------------------------
(***************************************************************************)
(* Proofs about FuzzOne, for every entry, function of traces, dictionary   *)
(* and size of the steps, and whatever runs that are not whole leave       *)
(* behind: trimming keeps the trace for which the entry was queued, unless *)
(* such a run showed that very trace, and the entry's file is the case     *)
(* that the stages work on; the effector map says what was seen of the     *)
(* bytes; every stage finds the case in its buffer; no run is given an     *)
(* empty case, or one that is too long; and what the stages leave out as a *)
(* flip, a sum or a value tried before has been tried before.              *)
(***************************************************************************)
EXTENDS FuzzOne, TLAPS, SequenceTheorems, FiniteSetTheorems, WellFoundedInduction

\* The case is the one that was found, or has the trace for which it was queued.
CaseKept == entry = start.case \/ Cksum(ExecMode, entry) = exec_cksum \/ misled

\* Before trimming entry and file are the case that was found; while it runs the
\* file may be behind; after it no stage touches either.
TrimInv ==
  /\ pc = "trim" => entry = start.case /\ file = start.case
  /\ pc = "trim_loop" => CaseKept
  /\ pc \notin {"trim", "trim_loop", "abandoned"} => file = entry /\ CaseKept

-----------------------------------------------------------------------------
(* Trimming.                                                                *)

LEMMA SkipKeeps == ASSUME TrimInv, TrimSkip PROVE TrimInv'
BY DEF TrimInv, CaseKept, exec_cksum, Cksum, TrimSkip, entry_vars

LEMMA BeginKeeps == ASSUME TrimInv, TrimBegin PROVE TrimInv'
BY DEF TrimInv, CaseKept, exec_cksum, Cksum, TrimBegin, entry_vars

\* A part goes for good only without overflow: either the run was whole, and its trace
\* the entry's, or the step notes that it was not.
LEMMA TryKeeps == ASSUME TrimInv, TrimTry PROVE TrimInv'
<1> DEFINE gap == Cut(entry, remove_pos, remove_len)
           whole == Cksum(ExecMode, gap)
<1>1. PICK overflow_nums \in 0..1 :
        \E cksum : IF NoImpact(cksum, overflow_nums)
                   THEN /\ entry' = gap /\ misled' = (overflow_nums = 0 /\ cksum # whole)
                        /\ UNCHANGED remove_pos
                   ELSE remove_pos' = remove_pos + remove_len /\ UNCHANGED <<entry, misled>>
  BY Zenon DEF TrimTry
<1>2. PICK cksum : IF NoImpact(cksum, overflow_nums)
                   THEN /\ entry' = gap /\ misled' = (overflow_nums = 0 /\ cksum # whole)
                        /\ UNCHANGED remove_pos
                   ELSE remove_pos' = remove_pos + remove_len /\ UNCHANGED <<entry, misled>>
  BY <1>1
<1>3. pc = "trim_loop" /\ pc' = pc /\ start' = start
  BY DEF TrimTry
<1>4. CASE NoImpact(cksum, overflow_nums)
  <2>1. overflow_nums = 0 /\ cksum = exec_cksum /\ entry' = gap
        /\ misled' = (cksum # whole)
    BY <1>2, <1>4 DEF NoImpact
  <2>2. Cksum(ExecMode, entry)' = whole /\ exec_cksum' = exec_cksum
    BY <1>3, <2>1 DEF Cksum, exec_cksum, ExecMode
  <2> HIDE DEF gap, whole
  <2>3. CaseKept'
    BY <2>1, <2>2 DEF CaseKept
  <2> QED BY <1>3, <2>3 DEF TrimInv
<1>5. CASE ~NoImpact(cksum, overflow_nums)
  BY <1>2, <1>3, <1>5 DEF TrimInv, CaseKept, exec_cksum, Cksum
<1> QED BY <1>4, <1>5

LEMMA HalveKeeps == ASSUME TrimInv, TrimHalve PROVE TrimInv'
BY DEF TrimInv, CaseKept, exec_cksum, Cksum, TrimHalve, entry_vars

\* The file is written before any stage is reached.
LEMMA DoneKeeps == ASSUME TrimInv, TrimDone PROVE TrimInv'
BY DEF TrimInv, CaseKept, exec_cksum, Cksum, TrimDone

-----------------------------------------------------------------------------
(* The stages.                                                              *)

\* A step past trimming that leaves the entry alone and does not go back to it.
PastTrim ==
  /\ pc \notin {"trim", "trim_loop", "abandoned"} /\ pc' \notin {"trim", "trim_loop"}
  /\ UNCHANGED <<start, entry, file, misled>>

LEMMA PastTrimKeeps == ASSUME TrimInv, PastTrim PROVE TrimInv'
BY DEF TrimInv, CaseKept, exec_cksum, Cksum, PastTrim

LEMMA ScorePast == UpdateChecksum \/ Score => PastTrim
BY DEF UpdateChecksum, Score, PastTrim, entry_vars

LEMMA FollowingStage ==
  ASSUME NEW stage \in DOMAIN Stages
  PROVE  /\ Following[stage] \notin {"trim", "trim_loop"}
         /\ stage \notin {"trim", "trim_loop", "abandoned"}
BY DEF Stages, Following

LEMMA DeterministicPast == Deterministic => PastTrim
<1> USE DEF PastTrim, entry_vars
<1>1. Flip1 => PastTrim
  BY DEF Flip1
<1>2. Flip2and4 => PastTrim
  BY DEF Flip2and4
<1>3. Flip8 => PastTrim
  BY DEF Flip8
<1>4. Flip8Done => PastTrim
  BY DEF Flip8Done
<1>5. InStage => PastTrim
  BY FollowingStage DEF InStage
<1>6. EndStage => PastTrim
  BY FollowingStage DEF EndStage
<1>7. Over => PastTrim
  BY DEF Over
<1>8. OverNext => PastTrim
  BY DEF OverNext
<1>9. OverDone => PastTrim
  BY DEF OverDone
<1>10. UserInsert => PastTrim
  BY DEF UserInsert
<1>11. UserInsertDone => PastTrim
  BY DEF UserInsertDone
<1>12. MarkAsDetDone => PastTrim
  BY DEF MarkAsDetDone
<1> QED BY <1>1, <1>2, <1>3, <1>4, <1>5, <1>6, <1>7, <1>8, <1>9, <1>10, <1>11, <1>12
        DEF Deterministic

LEMMA HavocPast == Havoc => PastTrim
<1> USE DEF PastTrim, entry_vars
<1>1. havoc_stage => PastTrim
  BY DEF havoc_stage
<1>2. Stack => PastTrim
  BY DEF Stack
<1>3. Tweaks => PastTrim
  <2>1. ASSUME NEW buf, NEW n, Tweaked(buf, n) PROVE PastTrim
    BY <2>1 DEF Tweaked
  <2> HIDE DEF PastTrim
  <2>2. Overwrite => PastTrim
    BY <2>1 DEF Overwrite
  <2>3. Delete => PastTrim
    BY <2>1 DEF Delete
  <2>4. Clone => PastTrim
    BY <2>1 DEF Clone
  <2>5. InsertExtra => PastTrim
    BY <2>1 DEF InsertExtra
  <2> QED BY <2>2, <2>3, <2>4, <2>5 DEF Tweaks
<1>4. HavocRun => PastTrim
  BY DEF HavocRun
<1>5. HavocDone => PastTrim
  BY DEF HavocDone
<1> QED BY <1>1, <1>2, <1>3, <1>4, <1>5 DEF Havoc

LEMMA SplicesPast == Splices => PastTrim
<1> USE DEF PastTrim, entry_vars
<1>1. NoPartner => PastTrim
  BY DEF NoPartner
<1>2. Splice => PastTrim
  BY DEF Splice
<1>3. Done => PastTrim
  BY DEF Done, Leave
<1> QED BY <1>1, <1>2, <1>3 DEF Splices

\* An entry abandoned in the middle of trimming claims nothing about its file.
LEMMA AbandonKeeps == ASSUME TrimInv, abandon_entry PROVE TrimInv'
BY DEF TrimInv, CaseKept, abandon_entry

-----------------------------------------------------------------------------

LEMMA StepKeeps == ASSUME TrimInv, [Next]_vars PROVE TrimInv'
<1>1. CASE Trims
  BY <1>1, SkipKeeps, BeginKeeps, TryKeeps, HalveKeeps, DoneKeeps DEF Trims
<1>2. CASE UpdateChecksum \/ Score \/ Deterministic \/ Havoc \/ Splices
  BY <1>2, PastTrimKeeps, ScorePast, DeterministicPast, HavocPast, SplicesPast
<1>3. CASE abandon_entry
  BY <1>3, AbandonKeeps
<1>4. CASE UNCHANGED vars
  BY <1>4 DEF TrimInv, CaseKept, exec_cksum, Cksum, vars, entry_vars
<1> QED BY <1>1, <1>2, <1>3, <1>4 DEF Next, Stays

\* trim_case(): whatever it cuts and wherever it stops, every stage of fuzz_one()
\* works on the case that was found, or on one with the trace for which it was queued,
\* unless a run that was not whole pretended it; and the file holds that case.
THEOREM TrimmingIsSafe == Spec => []TrimKeepsTrace
<1>1. Init => TrimInv
  BY DEF Init, TrimInv, CaseKept
<1>2. TrimInv /\ [Next]_vars => TrimInv'
  BY StepKeeps
<1>3. TrimInv => TrimKeepsTrace
  BY DEF TrimInv, CaseKept, TrimKeepsTrace
<1> QED BY <1>1, <1>2, <1>3, PTL DEF Spec

-----------------------------------------------------------------------------
(* The effector map.  That a trimmed case is not empty comes first: the     *)
(* last byte has a block of the map.                                        *)

\* Trimming never cuts at the front: the position starts behind the first step.
LengthInv ==
  /\ start \in Starts
  /\ entry \in Seq(0..255) /\ Len(entry) \in 1..MAX_FILE
  /\ pc = "trim_loop" => remove_len \in Nat /\ remove_pos \in Nat /\ remove_len <= remove_pos

LEMMA MaxOfTwo ==
  ASSUME NEW a \in Int, NEW b \in Int
  PROVE  Max({a, b}) \in {a, b} /\ Max({a, b}) >= a /\ Max({a, b}) >= b
<1>1. \E x \in {a, b} : \A y \in {a, b} : x >= y
  <2>1. CASE a >= b
    BY <2>1
  <2>2. CASE b >= a
    BY <2>2
  <2> QED BY <2>1, <2>2
<1>2. Max({a, b}) = CHOOSE x \in {a, b} : \A y \in {a, b} : x >= y
  BY DEF Max
<1> QED BY <1>1, <1>2

\* A step of trim_case() is at least TRIM_MIN_BYTES.
LEMMA StepSize ==
  ASSUME NEW n \in 1..MAX_FILE, NEW steps \in Nat \ {0}
  PROVE  LET size == Max({next_p2(n) \div steps, TRIM_MIN_BYTES})
         IN size \in Nat /\ size >= 1
<1>1. next_p2(n) \div steps \in Nat
  <2>1. next_p2(n) \in Nat
    BY FuzzOneAssumption, Zenon
  <2>2. ASSUME NEW p \in Nat PROVE p \div steps \in Nat
    OBVIOUS
  <2> QED BY <2>1, <2>2, Zenon
<1>2. TRIM_MIN_BYTES \in Nat \ {0}
  BY FuzzOneAssumption
<1> DEFINE least == next_p2(n) \div steps
<1>3. least \in Int /\ TRIM_MIN_BYTES \in Int
  BY <1>1, <1>2
<1> HIDE DEF least
<1>4. /\ Max({least, TRIM_MIN_BYTES}) \in {least, TRIM_MIN_BYTES}
      /\ Max({least, TRIM_MIN_BYTES}) >= TRIM_MIN_BYTES
  BY <1>3, MaxOfTwo
<1>5. least \in Nat
  BY <1>1 DEF least
<1>6. Max({least, TRIM_MIN_BYTES}) \in Nat /\ Max({least, TRIM_MIN_BYTES}) >= 1
  BY <1>2, <1>4, <1>5
<1> QED BY <1>6 DEF least

LEMMA CutLength ==
  ASSUME NEW S, NEW buf \in Seq(S), NEW from \in 1..Len(buf), NEW n \in Nat
  PROVE  Cut(buf, from, n) \in Seq(S) /\ Len(Cut(buf, from, n)) \in 1..Len(buf)
<1> DEFINE front == SubSeq(buf, 1, from)
           back == SubSeq(buf, from + n + 1, Len(buf))
<1>1. Len(buf) \in Nat /\ \A p \in 1..Len(buf) : buf[p] \in S
  BY LenProperties, ElementOfSeq
<1>2. front \in Seq(S) /\ Len(front) = from
  <2>1. \A p \in 1..from : buf[p] \in S
    BY <1>1
  <2>2. front \in Seq(S) /\ Len(front) = IF 1 <= from THEN from - 1 + 1 ELSE 0
    BY <1>1, <2>1, SubSeqProperties
  <2> HIDE DEF front
  <2> QED BY <1>1, <2>2
<1>3. back \in Seq(S) /\ Len(back) \in 0..Len(buf) - from
  <2>1. \A p \in from + n + 1..Len(buf) : buf[p] \in S
    BY <1>1
  <2>2. from + n + 1 \in Int /\ Len(buf) \in Int
    BY <1>1
  <2>3. /\ back \in Seq(S)
        /\ Len(back) = IF from + n + 1 <= Len(buf) THEN Len(buf) - (from + n + 1) + 1 ELSE 0
    BY <2>1, <2>2, SubSeqProperties
  <2> HIDE DEF back
  <2> QED BY <1>1, <2>3
<1>4. Cut(buf, from, n) = front \o back
  BY DEF Cut
<1> HIDE DEF front, back
<1>5. front \o back \in Seq(S) /\ Len(front \o back) = Len(front) + Len(back)
  BY <1>2, <1>3, ConcatProperties
<1> QED BY <1>1, <1>2, <1>3, <1>4, <1>5

LEMMA LengthKept == LengthInv /\ [Next]_vars => LengthInv'
<1> SUFFICES ASSUME LengthInv, [Next]_vars PROVE LengthInv'
  OBVIOUS
<1> USE FuzzOneAssumption DEF LengthInv
<1>1. CASE TrimBegin
  <2>1. remove_len' \in Nat /\ remove_pos' = remove_len'
    BY <1>1, StepSize DEF TrimBegin
  <2> QED BY <1>1, <2>1 DEF TrimBegin, entry_vars
<1>2. CASE TrimTry
  <2>1. /\ pc = "trim_loop" /\ TrimGoesOn /\ remove_pos < Len(entry)
        /\ UNCHANGED <<pc, start, remove_len>>
    BY <1>2 DEF TrimTry
  <2>2. remove_len >= 1 /\ remove_pos \in 1..Len(entry)
    <3> DEFINE least == Max({next_p2(Len(entry)) \div TRIM_END_STEPS, TRIM_MIN_BYTES})
    <3>1. remove_len >= least
      BY <2>1 DEF TrimGoesOn
    <3>2. Len(entry) \in 1..MAX_FILE /\ MAX_FILE \in Nat /\ remove_len \in Nat
          /\ remove_pos \in Nat /\ remove_len <= remove_pos
      BY <2>1
    <3>3. TRIM_END_STEPS \in Nat \ {0}
      OBVIOUS
    <3> HIDE FuzzOneAssumption DEF LengthInv
    <3>4. least \in Nat /\ least >= 1
      BY <3>2, <3>3, StepSize
    <3> HIDE DEF least
    <3> QED BY <2>1, <3>1, <3>2, <3>4
  <2> DEFINE gap == Cut(entry, remove_pos, remove_len)
  <2>3. gap \in Seq(0..255) /\ Len(gap) \in 1..MAX_FILE
    BY <2>1, <2>2, CutLength, SMTT(30)
  <2>4. \/ entry' = gap /\ UNCHANGED remove_pos
        \/ remove_pos' = remove_pos + remove_len /\ UNCHANGED entry
    BY <1>2, Zenon DEF TrimTry
  <2> HIDE DEF gap
  <2> QED BY <2>1, <2>3, <2>4, SMTT(30)
<1>3. CASE TrimHalve
  <2>1. remove_len \div 2 \in Nat
    BY <1>3 DEF TrimHalve
  <2> QED BY <1>3, <2>1 DEF TrimHalve, entry_vars
<1>4. CASE TrimSkip \/ TrimDone \/ abandon_entry
  BY <1>4 DEF TrimSkip, TrimDone, abandon_entry, Leave, entry_vars
<1>5. CASE PastTrim
  BY <1>5 DEF PastTrim
<1>6. CASE UNCHANGED vars
  BY <1>6 DEF vars, entry_vars, trims
<1> QED
  BY <1>1, <1>2, <1>3, <1>4, <1>5, <1>6, ScorePast, DeterministicPast, HavocPast, SplicesPast
  DEF Next, Stays, Trims

\* What is known of a byte allows to mark it, or obliges to.
MayMark(p) == Len(in_buf) < EFF_MIN_LEN \/ (Told(p) => Changes(p))
MustMark(p) == Len(in_buf) < EFF_MIN_LEN \/ (Told(p) /\ Changes(p))
Ends == {0, EFF_APOS(Len(in_buf) - 1)}

\* The map after the first i bytes.
MapSoFar ==
  /\ i \in 0..Len(in_buf)
  /\ seen \in Seq(0..2) /\ Len(seen) = i
  /\ Ends \subseteq eff_map
  /\ \A p \in 0..i - 1 : MustMark(p) => EFF_APOS(p) \in eff_map
  /\ \A b \in eff_map : b \in Ends \/ \E p \in 0..i - 1 : b = EFF_APOS(p) /\ MayMark(p)

\* While bytes are flipped the map says what the bytes before this one did.
EffInv ==
  /\ pc \in {"flip1", "flip8", "flip16"} => in_buf = entry
  /\ pc \in {"flip1", "flip16"} => i \in Nat
  /\ pc = "flip8" => MapSoFar
  /\ EffMapExact

\* Every block has a byte, and every byte a block.
LEMMA BlocksOfBytes ==
  ASSUME NEW n \in Nat \ {0}
  PROVE  {EFF_APOS(p) : p \in 0..n - 1} = 0..EFF_APOS(n - 1)
<1> DEFINE K == 2^EFF_MAP_SCALE2
<1>1. K \in Nat \ {0}
  BY FuzzOneAssumption
<1>2. \A p : EFF_APOS(p) = p \div K
  BY DEF EFF_APOS
<1> HIDE DEF K
<1>3. \A p \in Nat : p \div K \in Nat /\ (p \div K) * K <= p /\ p < (p \div K + 1) * K
  BY <1>1
<1>4. ASSUME NEW p \in 0..n - 1 PROVE p \div K \in 0..(n - 1) \div K
  <2> DEFINE a == p \div K
             c == (n - 1) \div K
  <2>1. a \in Nat /\ c \in Nat /\ a * K <= p /\ n - 1 < (c + 1) * K
    BY <1>3
  <2> HIDE DEF a, c
  <2>2. a <= c
    <3> SUFFICES ASSUME c + 1 <= a PROVE FALSE
      BY <2>1
    <3>1. (c + 1) * K <= a * K
      BY <1>1, <2>1
    <3>2. (c + 1) * K \in Int /\ a * K \in Int
      BY <1>1, <2>1
    <3> QED BY <2>1, <3>1, <3>2
  <2> QED BY <2>1, <2>2 DEF a, c
<1>5. ASSUME NEW b \in 0..(n - 1) \div K PROVE \E p \in 0..n - 1 : b = p \div K
  <2> DEFINE c == (n - 1) \div K
             q == (b * K) \div K
  <2>1. c \in Nat /\ c * K <= n - 1
    BY <1>3
  <2>2. b \in Nat /\ b <= c /\ b * K \in Nat
    BY <1>1, <2>1
  <2>3. b * K <= c * K
    BY <1>1, <2>1, <2>2
  <2>4. b * K \in 0..n - 1
    BY <1>1, <2>1, <2>2, <2>3
  <2>5. q \in Nat /\ q * K <= b * K /\ b * K < (q + 1) * K
    BY <1>3, <2>2
  <2> HIDE DEF q
  <2>6. q <= b
    <3> SUFFICES ASSUME b + 1 <= q PROVE FALSE
      BY <2>2, <2>5
    <3>1. (b + 1) * K <= q * K
      BY <1>1, <2>2, <2>5
    <3> QED BY <1>1, <2>2, <2>5, <3>1
  <2>7. b <= q
    <3> SUFFICES ASSUME q + 1 <= b PROVE FALSE
      BY <2>2, <2>5
    <3>1. (q + 1) * K <= b * K
      BY <1>1, <2>2, <2>5
    <3> QED BY <1>1, <2>2, <2>5, <3>1
  <2> QED BY <2>2, <2>4, <2>5, <2>6, <2>7 DEF q
<1> QED BY <1>2, <1>4, <1>5

\* Steps that leave the flips behind, or have nothing to do with them.
Elsewhere == pc' \notin {"flip1", "flip8", "flip16"}

LEMMA ElsewhereKeeps == Elsewhere => EffInv'
BY DEF Elsewhere, EffInv, EffMapExact

\* A whole run compared with the case's own checksum tells whether the trace changes.
LEMMA EffectSeen ==
  ASSUME NEW mode, NEW buf, NEW own, Stored(mode) = Cksum(mode, own)
  PROVE  HasEffect(mode, Cksum(mode, buf)) <=> Trace(mode, buf) # Trace(mode, own)
<1>1. Cksum(mode, buf) = Cksum(mode, own) <=> Trace(mode, buf) = Trace(mode, own)
  BY DEF Cksum
<1> QED BY <1>1 DEF HasEffect

LEMMA ModeOfRun == ASSUME NEW buf, NEW run \in Runs(buf) PROVE run.mode \in 0..1
<1>1. Modes \subseteq 0..1
  BY DEF Modes, Address, Atoms
<1>2. run.mode \in Modes
  BY DEF Runs
<1> QED BY <1>1, <1>2

\* Flip8: byte i is marked if flipping it has an effect.
LEMMA Flip8Keeps == ASSUME LengthInv, EffInv, Flip8 PROVE EffInv'
<1> DEFINE flipped == Flip(in_buf, 8 * i, 8)
<1>1. PICK run \in Runs(flipped) :
        /\ eff_map' = IF Len(in_buf) < EFF_MIN_LEN \/ HasEffect(run.mode, run.cksum)
                      THEN eff_map \union {EFF_APOS(i)} ELSE eff_map
        /\ seen' = Append(seen, IF run.cksum = Cksum(run.mode, flipped)
                                THEN run.mode ELSE Unsure)
  BY Zenon DEF Flip8
<1>2. /\ pc = "flip8" /\ pc' = "flip8" /\ i < Len(in_buf) /\ i' = i + 1
      /\ UNCHANGED <<in_buf, entry, start, atom_cksum>>
  BY DEF Flip8, buffers, entry_vars
<1>3. in_buf = entry /\ Len(in_buf) \in Nat /\ MapSoFar
  BY <1>2 DEF EffInv, LengthInv
<1> DEFINE told == IF run.cksum = Cksum(run.mode, flipped) THEN run.mode ELSE Unsure
<1>4. told \in 0..2
  BY ModeOfRun DEF Unsure
<1> HIDE DEF told
<1>5. /\ seen' \in Seq(0..2) /\ Len(seen') = i + 1 /\ seen'[i + 1] = told
      /\ \A p \in 0..i - 1 : seen'[p + 1] = seen[p + 1]
  <2>1. seen' = Append(seen, told) /\ seen \in Seq(0..2) /\ Len(seen) = i /\ i \in Nat
    BY <1>1, <1>3 DEF MapSoFar, told
  <2>2. \A p \in 0..i - 1 : p + 1 \in 1..Len(seen)
    BY <2>1
  <2> QED BY <1>4, <2>1, <2>2, AppendProperties
<1>6. \A p \in 0..i - 1 : (MustMark(p)' <=> MustMark(p)) /\ (MayMark(p)' <=> MayMark(p))
  BY <1>2, <1>5, Zenon DEF MustMark, MayMark, Told, Changes, Stored, exec_cksum, Cksum
<1>7. PICK b \in 0..Len(in_buf) - 1 : b = i
  BY <1>2, <1>3 DEF MapSoFar
<1> DEFINE marks == Len(in_buf) < EFF_MIN_LEN \/ HasEffect(run.mode, run.cksum)
<1>8. (MustMark(b)' => marks) /\ (marks => MayMark(b)')
  <2> DEFINE knows == told # Unsure /\ Stored(told) = Cksum(told, in_buf)
             changes == Trace(told, flipped) # Trace(told, in_buf)
  <2>1. seen'[b + 1] = told
    BY <1>5, <1>7
  <2>2. (Told(b)' <=> knows) /\ (Changes(b)' <=> changes)
    BY <1>2, <1>7, <2>1, Zenon DEF Told, Changes, Stored, exec_cksum, Cksum
  <2>3. told # Unsure => run.cksum = Cksum(told, flipped) /\ run.mode = told
    BY DEF told
  <2>4. knows => (HasEffect(run.mode, run.cksum) <=> changes)
    <3> SUFFICES ASSUME knows PROVE HasEffect(run.mode, run.cksum) <=> changes
      OBVIOUS
    <3>1. HasEffect(told, Cksum(told, flipped)) <=> changes
      BY EffectSeen
    <3> QED BY <2>3, <3>1
  <2> HIDE DEF knows, changes
  <2>5. Len(in_buf)' = Len(in_buf)
    BY <1>2
  <2> QED BY <2>2, <2>4, <2>5 DEF MustMark, MayMark
<1>9. \A p \in 0..(i + 1) - 1 : p = b \/ p \in 0..i - 1
  BY <1>3, <1>7 DEF MapSoFar
<1>10. eff_map' = IF marks THEN eff_map \union {EFF_APOS(b)} ELSE eff_map
  BY <1>1, <1>7
<1> HIDE DEF marks
<1>11. MapSoFar'
  <2>1. i' = i + 1 /\ in_buf' = in_buf /\ i + 1 \in 0..Len(in_buf) /\ b \in 0..(i + 1) - 1
        /\ 0..i - 1 \subseteq 0..(i + 1) - 1
    BY <1>2, <1>3, <1>7 DEF MapSoFar
  <2>2. Ends \subseteq eff_map' /\ Ends' = Ends
    BY <1>3, <1>10, <2>1 DEF MapSoFar, Ends
  <2>3. ASSUME NEW p \in 0..(i + 1) - 1, MustMark(p)' PROVE EFF_APOS(p) \in eff_map'
    <3>1. CASE p = b
      BY <1>8, <1>10, <2>3, <3>1
    <3>2. CASE p \in 0..i - 1
      BY <1>3, <1>6, <1>10, <2>3, <3>2 DEF MapSoFar
    <3> QED BY <1>9, <3>1, <3>2
  <2>4. ASSUME NEW c \in eff_map', c \notin Ends
        PROVE  \E p \in 0..(i + 1) - 1 : c = EFF_APOS(p) /\ MayMark(p)'
    <3>1. CASE c \in eff_map
      <4>1. PICK p \in 0..i - 1 : c = EFF_APOS(p) /\ MayMark(p)
        BY <1>3, <2>4, <3>1 DEF MapSoFar
      <4> QED BY <1>6, <2>1, <4>1
    <3>2. CASE c \notin eff_map
      <4>1. marks /\ c = EFF_APOS(b)
        BY <1>10, <3>2
      <4> QED BY <1>8, <2>1, <4>1
    <3> QED BY <3>1, <3>2
  <2>5. \A q : EFF_APOS(q)' = EFF_APOS(q)
    BY DEF EFF_APOS
  <2> HIDE DEF told
  <2> QED BY <1>5, <2>1, <2>2, <2>3, <2>4, <2>5 DEF MapSoFar
<1> QED BY <1>2, <1>3, <1>11 DEF EffInv, EffMapExact

\* The map of a case, once all its bytes were seen.
ExactMap(map) ==
  LET Places == 0..Len(in_buf) - 1
      ends == {0, EFF_APOS(Len(in_buf) - 1)}
      must == ends \union {EFF_APOS(p) : p \in {q \in Places : Told(q) /\ Changes(q)}}
      may == ends \union {EFF_APOS(p) : p \in {q \in Places : Told(q) => Changes(q)}}
  IN \E marked \in SUBSET Blocks :
       /\ must \subseteq marked /\ marked \subseteq may
       /\ map = IF Len(in_buf) < EFF_MIN_LEN \/ Dense(marked) THEN Blocks ELSE marked

\* Flip8Done: the map is full if it is dense, and for a short case full already.
LEMMA Flip8DoneKeeps == ASSUME LengthInv, EffInv, Flip8Done PROVE EffInv'
<1>1. /\ pc = "flip8" /\ pc' = "flip16" /\ i = Len(in_buf) /\ i' = 0
      /\ UNCHANGED <<in_buf, entry, start, atom_cksum, seen>>
      /\ eff_map' = IF eff_map # Blocks /\ Dense(eff_map) THEN Blocks ELSE eff_map
  BY DEF Flip8Done, buffers, entry_vars
<1>2. in_buf = entry /\ Len(in_buf) \in Nat \ {0} /\ MapSoFar
  BY <1>1 DEF EffInv, LengthInv
<1> DEFINE Places == 0..Len(in_buf) - 1
           must == Ends \union {EFF_APOS(p) : p \in {q \in Places : Told(q) /\ Changes(q)}}
           may == Ends \union {EFF_APOS(p) : p \in {q \in Places : Told(q) => Changes(q)}}
<1>3. {EFF_APOS(p) : p \in Places} = Blocks
  BY <1>2, BlocksOfBytes DEF Blocks
<1>4. Ends \subseteq Blocks
  <2>1. 0 \in Places /\ Len(in_buf) - 1 \in Places
    BY <1>2
  <2>2. EFF_APOS(0) \in Blocks /\ EFF_APOS(Len(in_buf) - 1) \in Blocks
    BY <1>3, <2>1, Zenon
  <2>3. EFF_APOS(0) = 0
    BY FuzzOneAssumption DEF EFF_APOS
  <2> QED BY <2>2, <2>3 DEF Ends
<1>5. must \subseteq may /\ may \subseteq Blocks
  BY <1>3, <1>4, Zenon
<1>6. /\ \A p \in Places : MustMark(p) => EFF_APOS(p) \in eff_map
      /\ \A b \in eff_map : b \in Ends \/ \E p \in Places : b = EFF_APOS(p) /\ MayMark(p)
      /\ Ends \subseteq eff_map
  BY <1>1, <1>2 DEF MapSoFar
<1>7. ASSUME NEW map, NEW marked \in SUBSET Blocks, must \subseteq marked, marked \subseteq may,
             map = IF Len(in_buf) < EFF_MIN_LEN \/ Dense(marked) THEN Blocks ELSE marked
      PROVE  ExactMap(map)
  BY <1>7 DEF ExactMap, Ends
<1> HIDE DEF Places
<1>8. ASSUME Len(in_buf) < EFF_MIN_LEN PROVE ExactMap(eff_map')
  <2>1. eff_map = Blocks
    <3>1. \A p \in Places : EFF_APOS(p) \in eff_map
      BY <1>6, <1>8 DEF MustMark
    <3>2. Blocks \subseteq eff_map
      BY <1>3, <3>1, Zenon
    <3>3. eff_map \subseteq Blocks
      BY <1>3, <1>4, <1>6, Zenon
    <3> QED BY <3>2, <3>3
  <2>2. eff_map' = IF Len(in_buf) < EFF_MIN_LEN \/ Dense(may) THEN Blocks ELSE may
    BY <1>1, <1>8, <2>1
  <2> HIDE DEF must, may
  <2> QED BY <1>5, <1>7, <2>2
<1>9. ASSUME ~(Len(in_buf) < EFF_MIN_LEN) PROVE ExactMap(eff_map')
  <2>1. must \subseteq eff_map
    BY <1>6, Zenon DEF MustMark
  <2>2. eff_map \subseteq may
    BY <1>6, <1>9, Zenon DEF MayMark
  <2>3. eff_map' = IF Len(in_buf) < EFF_MIN_LEN \/ Dense(eff_map) THEN Blocks ELSE eff_map
    BY <1>1, <1>9
  <2> HIDE DEF must, may
  <2> QED BY <1>5, <1>7, <2>1, <2>2, <2>3
<1>10. EffMapExact'
  <2>1. ExactMap(eff_map')
    BY <1>8, <1>9
  <2>2. UNCHANGED <<in_buf, start, atom_cksum, seen>>
    BY <1>1
  <2>3. ExactMap(eff_map)' <=> ExactMap(eff_map')
    BY <2>2 DEF ExactMap, Told, Changes, Stored, exec_cksum, Cksum, Dense, Blocks, EFF_APOS
  <2> QED BY <2>1, <2>3, Zenon DEF EffMapExact, ExactMap
<1> QED BY <1>1, <1>2, <1>10 DEF EffInv

LEMMA EffKept == LengthInv /\ EffInv /\ [Next]_vars => EffInv'
<1> SUFFICES ASSUME LengthInv, EffInv, [Next]_vars PROVE EffInv'
  OBVIOUS
<1>1. CASE Trims \/ UpdateChecksum
  BY <1>1, ElsewhereKeeps
  DEF Trims, TrimSkip, TrimBegin, TrimTry, TrimHalve, TrimDone, UpdateChecksum, Elsewhere
<1>2. CASE Score
  BY <1>2 DEF Score, EffInv, EffMapExact, entry_vars
<1>3. CASE Flip1
  BY <1>3 DEF Flip1, EffInv, EffMapExact, entry_vars, buffers
<1>4. CASE Flip2and4
  <2>1. /\ pc = "flip1" /\ pc' = "flip8" /\ in_buf' = in_buf /\ entry' = entry /\ i' = 0
        /\ eff_map' = Ends /\ seen' = <<>>
    BY <1>4 DEF Flip2and4, entry_vars, buffers, Ends
  <2>2. in_buf = entry /\ Len(in_buf) \in Nat
    BY <2>1 DEF EffInv, LengthInv
  <2>3. 0 \in 0..Len(in_buf) /\ <<>> \in Seq(0..2) /\ Len(<<>>) = 0 /\ 0..0 - 1 = {}
    BY <2>2
  <2>4. Ends' = Ends
    BY <2>1 DEF Ends
  <2>5. MapSoFar'
    BY <2>1, <2>3, <2>4 DEF MapSoFar
  <2> QED BY <2>1, <2>2, <2>5 DEF EffInv, EffMapExact
<1>5. CASE Flip8 \/ Flip8Done
  BY <1>5, Flip8Keeps, Flip8DoneKeeps
<1>6. CASE InStage
  <2>1. CASE pc = "flip16"
    BY <1>6, <2>1 DEF InStage, EffInv, EffMapExact, entry_vars, buffers
  <2>2. CASE pc # "flip16"
    BY <1>6, <2>2, ElsewhereKeeps DEF InStage, Elsewhere, Stages
  <2> QED BY <2>1, <2>2
<1>7. CASE EndStage
  BY <1>7, ElsewhereKeeps DEF EndStage, Elsewhere, Stages, Following
<1>8. CASE Over \/ OverNext \/ OverDone \/ UserInsert \/ UserInsertDone \/ MarkAsDetDone
  BY <1>8, ElsewhereKeeps
  DEF Over, OverNext, OverDone, UserInsert, UserInsertDone, MarkAsDetDone, Elsewhere
<1>9. CASE Havoc
  <2>1. pc' \in {"havoc_loop", "tweak", "splice"}
    <3>1. ASSUME NEW buf, NEW n, Tweaked(buf, n) PROVE pc' = "tweak"
      BY <3>1 DEF Tweaked
    <3>2. Tweaks => pc' = "tweak"
      BY <3>1 DEF Tweaks, Overwrite, Delete, Clone, InsertExtra
    <3> QED BY <1>9, <3>2 DEF Havoc, havoc_stage, Stack, HavocRun, HavocDone
  <2> QED BY <2>1, ElsewhereKeeps DEF Elsewhere
<1>10. CASE Splices
  BY <1>10, ElsewhereKeeps DEF Splices, NoPartner, Splice, Done, Elsewhere
<1>11. CASE abandon_entry
  BY <1>11, ElsewhereKeeps DEF abandon_entry, Elsewhere
<1>12. CASE UNCHANGED vars
  <2>1. UNCHANGED <<pc, in_buf, entry, i, start, atom_cksum, seen, eff_map>>
    BY <1>12 DEF vars, entry_vars, buffers, loops, effects
  <2>2. MapSoFar' <=> MapSoFar
    BY <2>1 DEF MapSoFar, Ends, MustMark, MayMark, Told, Changes, Stored, exec_cksum, Cksum,
                EFF_APOS
  <2>3. EffMapExact' <=> EffMapExact
    BY <2>1 DEF EffMapExact, Told, Changes, Stored, exec_cksum, Cksum, Dense, Blocks, EFF_APOS
  <2> QED BY <2>1, <2>2, <2>3 DEF EffInv
<1> QED
  BY <1>1, <1>2, <1>3, <1>4, <1>5, <1>6, <1>7, <1>8, <1>9, <1>10, <1>11, <1>12
  DEF Next, Stays, Deterministic

\* The effector map: each block with a byte whose flip was seen to change the trace, in
\* whichever mode the run ended; no other block but the two ends, and those of bytes
\* of which nothing is known for sure; or everything, for a short case or a dense map.
THEOREM EffectorMapExact == Spec => []EffMapExact
<1>1. Init => LengthInv /\ EffInv
  <2>1. Init => LengthInv
    BY FuzzOneAssumption DEF Init, LengthInv
  <2>2. Init => EffInv
    BY DEF Init, EffInv, EffMapExact
  <2> QED BY <2>1, <2>2
<1>2. EffInv => EffMapExact
  BY DEF EffInv
<1> QED BY <1>1, <1>2, LengthKept, EffKept, PTL DEF Spec

-----------------------------------------------------------------------------
(* The buffers.  First what the operators on sequences return.              *)

LEMMA LeastExists ==
  ASSUME NEW S \in SUBSET Nat, S # {}
  PROVE  \E k \in S : \A y \in S : k <= y
<1>1. PICK k \in S : \A y \in S : ~(<<y, k>> \in OpToRel(<, Nat))
  BY NatLessThanWellFounded, WFMin, Zenon
<1>2. ASSUME NEW y \in S, y < k PROVE <<y, k>> \in OpToRel(<, Nat)
  <2>1. <<y, k>> \in {ss \in Nat \X Nat : ss[1] < ss[2]}
    BY <1>2
  <2> QED BY <2>1, Zenon DEF OpToRel
<1>3. ASSUME NEW y \in S PROVE ~(y < k)
  BY <1>1, <1>2, Zenon
<1> QED BY <1>3

LEMMA Extremes ==
  ASSUME NEW n \in Nat, NEW S \in SUBSET (0..n), S # {}
  PROVE  Min(S) \in S /\ Max(S) \in S
<1>1. \E k \in S : \A y \in S : k <= y
  BY LeastExists
<1>2. \E k \in S : \A y \in S : k >= y
  <2> DEFINE T == {n - y : y \in S}
  <2>1. T \in SUBSET Nat /\ T # {}
    OBVIOUS
  <2>2. PICK t \in T : \A z \in T : t <= z
    BY <2>1, LeastExists
  <2>3. PICK k \in S : t = n - k
    OBVIOUS
  <2>4. ASSUME NEW y \in S PROVE k >= y
    <3>1. n - y \in T
      OBVIOUS
    <3>2. n - k <= n - y
      BY <2>2, <2>3, <3>1
    <3> QED BY <3>2
  <2> QED BY <2>4
<1> QED BY <1>1, <1>2, Zenon DEF Min, Max

LEMMA FunctionIsSeq ==
  ASSUME NEW S, NEW n \in Nat, NEW f \in [1..n -> S]
  PROVE  f \in Seq(S) /\ Len(f) = n
<1>1. f \in Seq(S)
  BY SeqDef
<1>2. Len(f) \in Nat /\ DOMAIN f = 1..Len(f) /\ DOMAIN f = 1..n
  BY <1>1, LenProperties
<1>3. Len(f) = n
  BY <1>2
<1> QED BY <1>1, <1>3

\* A flip and a write keep the length, whatever they put into the buffer.
LEMMA LengthOfFlip ==
  ASSUME NEW buf, Len(buf) \in Nat, NEW from, NEW bits
  PROVE  Len(Flip(buf, from, bits)) = Len(buf)
<1> DEFINE f == Flip(buf, from, bits)
           S == {f[p] : p \in 1..Len(buf)}
<1>1. f \in [1..Len(buf) -> S]
  <2>1. DOMAIN f = 1..Len(buf) /\ f = [p \in 1..Len(buf) |-> f[p]]
    BY Zenon DEF Flip
  <2> HIDE DEF f
  <2> QED BY <2>1
<1> HIDE DEF f, S
<1>2. Len(f) = Len(buf)
  BY <1>1, FunctionIsSeq
<1> QED BY <1>2 DEF f

LEMMA LengthOfPut ==
  ASSUME NEW buf, Len(buf) \in Nat, NEW at, NEW word
  PROVE  Len(Put(buf, at, word)) = Len(buf)
<1> DEFINE f == Put(buf, at, word)
           S == {f[p] : p \in 1..Len(buf)}
<1>1. f \in [1..Len(buf) -> S]
  <2>1. DOMAIN f = 1..Len(buf) /\ f = [p \in 1..Len(buf) |-> f[p]]
    BY Zenon DEF Put
  <2> HIDE DEF f
  <2> QED BY <2>1
<1> HIDE DEF f, S
<1>2. Len(f) = Len(buf)
  BY <1>1, FunctionIsSeq
<1> QED BY <1>2 DEF f

LEMMA PutProperties ==
  ASSUME NEW S, NEW buf \in Seq(S), NEW word \in Seq(S), NEW at \in Nat
  PROVE  /\ Put(buf, at, word) \in Seq(S) /\ Len(Put(buf, at, word)) = Len(buf)
         /\ \A p \in 1..Len(buf) :
              Put(buf, at, word)[p] = IF p \in at + 1..at + Len(word) THEN word[p - at] ELSE buf[p]
<1> DEFINE n == Len(buf)
           f == Put(buf, at, word)
<1>1. n \in Nat /\ Len(word) \in Nat
  BY LenProperties
<1>2. f = [p \in 1..n |-> IF p \in at + 1..at + Len(word) THEN word[p - at] ELSE buf[p]]
  BY DEF Put
<1> HIDE DEF n, f
<1>3. ASSUME NEW p \in 1..n
      PROVE  (IF p \in at + 1..at + Len(word) THEN word[p - at] ELSE buf[p]) \in S
  <2>1. p \in at + 1..at + Len(word) => p - at \in 1..Len(word)
    BY <1>1
  <2> QED BY <2>1, ElementOfSeq DEF n
<1>4. f \in [1..n -> S]
  BY <1>2, <1>3
<1>5. f \in Seq(S) /\ Len(f) = n
  BY <1>1, <1>4, FunctionIsSeq
<1> QED BY <1>2, <1>5 DEF n, f

Bytes == 0..255
Cells == -1..255

\* A buffer holds bytes, or what was there before it was allocated.
LEMMA BytesInBuffer == ASSUME NEW s \in Seq(Bytes) PROVE s \in Seq(Cells)
<1>1. Bytes \subseteq Cells
  BY DEF Bytes, Cells
<1> QED BY <1>1, SeqMonotonic, Zenon

LEMMA RandomProperties ==
  ASSUME NEW n \in Int
  PROVE  Random(n) \in Seq(Cells) /\ Len(Random(n)) = IF n > 0 THEN n ELSE 0
<1>1. CASE n > 0
  <2>1. Random(n) \in [1..n -> Cells]
    BY DEF Random, Cells
  <2>2. n \in Nat
    BY <1>1
  <2>3. Random(n) \in Seq(Cells) /\ Len(Random(n)) = n
    BY <2>1, <2>2, FunctionIsSeq
  <2> QED BY <1>1, <2>3
<1>2. CASE ~(n > 0)
  <2>1. 1..n = 1..0
    BY <1>2
  <2>2. Random(n) \in [1..0 -> Cells]
    BY <2>1 DEF Random
  <2>3. Random(n) \in Seq(Cells) /\ Len(Random(n)) = 0
    BY <2>2, FunctionIsSeq
  <2> QED BY <1>2, <2>3
<1> QED BY <1>1, <1>2

\* A block that is deleted or cloned has at least one byte, and no more than asked for.
LEMMA BlockLength ==
  ASSUME NEW limit \in Nat \ {0}, NEW n \in choose_block_len(limit)
  PROVE  n \in 1..limit /\ n <= HAVOC_BLK_XL
<1> DEFINE lowest(m) == IF HAVOC_BLK[m] >= limit THEN 1 ELSE HAVOC_BLK[m]
           highest(m) == Min({HAVOC_BLK[m + 1], limit})
           K == Len(HAVOC_BLK)
<1>1. PICK m \in 1..K - 1 : n \in lowest(m)..highest(m)
  BY Zenon DEF choose_block_len
<1>2. /\ K \in Nat /\ \A k \in 1..K : HAVOC_BLK[k] \in Nat \ {0}
      /\ DOMAIN HAVOC_BLK = 1..K /\ HAVOC_BLK_XL = HAVOC_BLK[K]
  <2>1. HAVOC_BLK \in Seq(Nat \ {0})
    BY FuzzOneAssumption
  <2> QED BY <2>1, LenProperties, ElementOfSeq DEF HAVOC_BLK_XL, Last
<1>3. m \in 1..K /\ m + 1 \in 1..K /\ m + 1 <= K /\ K \in 1..K
  BY <1>2
<1>4. HAVOC_BLK[m + 1] <= HAVOC_BLK[K]
  <2>1. \A a, b \in DOMAIN HAVOC_BLK : a <= b => HAVOC_BLK[a] <= HAVOC_BLK[b]
    BY FuzzOneAssumption
  <2> QED BY <1>2, <1>3, <2>1
<1>5. highest(m) \in {HAVOC_BLK[m + 1], limit}
      /\ highest(m) <= HAVOC_BLK[m + 1] /\ highest(m) <= limit
  <2> DEFINE a == HAVOC_BLK[m + 1]
  <2>1. a \in Nat
    BY <1>2, <1>3
  <2> HIDE DEF a
  <2>2. \E x \in {a, limit} : \A y \in {a, limit} : x <= y
    <3>1. CASE a <= limit
      BY <2>1, <3>1
    <3>2. CASE limit <= a
      BY <2>1, <3>2
    <3> QED BY <2>1, <3>1, <3>2
  <2>3. Min({a, limit}) = CHOOSE x \in {a, limit} : \A y \in {a, limit} : x <= y
    BY DEF Min
  <2>4. Min({a, limit}) \in {a, limit} /\ Min({a, limit}) <= a /\ Min({a, limit}) <= limit
    BY <2>2, <2>3
  <2> QED BY <2>4 DEF a
<1>6. lowest(m) \in Nat /\ lowest(m) >= 1
  BY <1>2, <1>3
<1> HIDE DEF lowest, highest, K
<1>7. n \in Int /\ lowest(m) <= n /\ n <= highest(m)
  <2>1. highest(m) \in Nat
    BY <1>2, <1>3, <1>5
  <2> QED BY <1>1, <1>6, <2>1
<1>8. HAVOC_BLK[m + 1] \in Nat /\ HAVOC_BLK[K] \in Nat
  BY <1>2, <1>3
<1> QED BY <1>2, <1>4, <1>5, <1>6, <1>7, <1>8

Entries == [data : Seq(Bytes), hit_cnt : Nat]

\* The best tokens, without what else is known of them.
LEMMA BestTokens == ASSUME NEW dict \in Seq(Entries) PROVE Best(dict) \in Seq(Seq(Bytes))
<1> DEFINE n == Min({USE_AUTO_EXTRAS, Len(dict)})
<1>1. USE_AUTO_EXTRAS \in Nat /\ Len(dict) \in Nat
  BY FuzzOneAssumption, LenProperties
<1>2. n \in Nat /\ n <= Len(dict)
  <2> DEFINE a == USE_AUTO_EXTRAS
             b == Len(dict)
  <2>1. a \in Nat /\ b \in Nat
    BY <1>1
  <2> HIDE DEF a, b
  <2>2. \E x \in {a, b} : \A y \in {a, b} : x <= y
    <3>1. CASE a <= b
      BY <2>1, <3>1
    <3>2. CASE b <= a
      BY <2>1, <3>2
    <3> QED BY <2>1, <3>1, <3>2
  <2>3. Min({a, b}) \in {a, b} /\ Min({a, b}) <= b
    BY <2>2 DEF Min
  <2> QED BY <2>1, <2>3 DEF a, b
<1> HIDE DEF n
<1>3. ASSUME NEW m \in 1..n PROVE dict[m].data \in Seq(Bytes)
  <2>1. m \in 1..Len(dict)
    BY <1>1, <1>2
  <2>2. dict[m] \in Entries
    BY <2>1, ElementOfSeq
  <2> QED BY <2>2 DEF Entries
<1>4. Best(dict) \in [1..n -> Seq(Bytes)]
  BY <1>3 DEF Best, n
<1> QED BY <1>2, <1>4, FunctionIsSeq

\* Sorting permutes the tokens, and puts the best in the order of their lengths.
LEMMA SortedKeeps ==
  ASSUME NEW known \in Seq(Entries), NEW d \in Sorted(known)
  PROVE  d \in Seq(Entries) /\ ByLength(Best(d))
<1>1. ByLength(Best(d))
  BY DEF Sorted, Ordered
<1>2. PICK order \in Bijection(DOMAIN known, DOMAIN known) :
        d = [n \in DOMAIN known |-> known[order[n]]]
  BY Zenon DEF Sorted
<1>3. DOMAIN known = 1..Len(known) /\ Len(known) \in Nat
  BY LenProperties
<1>4. order \in [1..Len(known) -> 1..Len(known)]
  BY <1>2, <1>3 DEF Bijection, Injection
<1>5. d \in [1..Len(known) -> Entries]
  <2>1. \A n \in 1..Len(known) : known[n] \in Entries
    BY ElementOfSeq
  <2> QED BY <1>2, <1>3, <1>4, <2>1
<1> QED BY <1>1, <1>3, <1>5, FunctionIsSeq

LEMMA OneMoreHit ==
  ASSUME NEW e \in Entries PROVE [e EXCEPT !.hit_cnt = @ + 1] \in Entries
<1>1. e.data \in Seq(Bytes) /\ e.hit_cnt \in Nat
  BY DEF Entries
<1>2. [e EXCEPT !.hit_cnt = @ + 1] = [data |-> e.data, hit_cnt |-> e.hit_cnt + 1]
  BY DEF Entries
<1>3. e.hit_cnt + 1 \in Nat
  BY <1>1
<1> QED BY <1>1, <1>2, <1>3 DEF Entries

\* Whatever becomes of a token, the best of those known stay in the order of their lengths.
LEMMA TokensKept ==
  ASSUME NEW known \in Seq(Entries), ByLength(Best(known)), NEW token \in Seq(Bytes),
         NEW d \in maybe_add_auto(known, token)
  PROVE  d \in Seq(Entries) /\ ByLength(Best(d))
<1> DEFINE same == {n \in DOMAIN known : memcmp_nocase(known[n].data, token)}
           new == [data |-> token, hit_cnt |-> 0]
           counted == [known EXCEPT ![Min(same)].hit_cnt = @ + 1]
           half == MAX_AUTO_EXTRAS \div 2 + 1..MAX_AUTO_EXTRAS
<1>1. \/ d = known
      \/ same # {} /\ d \in Sorted(counted)
      \/ d \in Sorted(Append(known, new))
      \/ \E n \in half : d \in Sorted([known EXCEPT ![n] = new])
  <2> DEFINE
       dull == \/ MAX_AUTO_EXTRAS = 0 \/ USE_AUTO_EXTRAS = 0
               \/ \A p \in 1..Len(token) : token[p] = token[1]
               \/ token \in interesting_16 \union interesting_32
               \/ SWAP(token) \in interesting_16 \union interesting_32
               \/ \E n \in DOMAIN extras : memcmp_nocase(extras[n], token)
  <2>1. maybe_add_auto(known, token) =
          IF dull THEN {known}
          ELSE IF same # {} THEN Sorted(counted)
          ELSE IF Len(known) < MAX_AUTO_EXTRAS THEN Sorted(Append(known, new))
          ELSE UNION {Sorted([known EXCEPT ![n] = new]) : n \in half}
    BY Zenon DEF maybe_add_auto
  <2> HIDE DEF dull, same, new, counted
  <2> DEFINE evicted == {Sorted([known EXCEPT ![n] = new]) : n \in half}
  <2>2. \A x \in evicted : \E n \in half : x = Sorted([known EXCEPT ![n] = new])
    BY Zenon
  <2> HIDE DEF evicted, half
  <2>3. d \in {known} \/ (same # {} /\ d \in Sorted(counted))
        \/ d \in Sorted(Append(known, new)) \/ d \in UNION evicted
    BY <2>1, Zenon DEF evicted
  <2> QED BY <2>2, <2>3, Zenon
<1>2. /\ DOMAIN known = 1..Len(known) /\ Len(known) \in Nat
      /\ \A n \in 1..Len(known) : known[n] \in Entries
  BY LenProperties, ElementOfSeq
<1>3. new \in Entries
  BY DEF Entries
<1>4. CASE d = known
  BY <1>4
<1>5. CASE same # {} /\ d \in Sorted(counted)
  <2>1. ASSUME NEW n PROVE [known EXCEPT ![n].hit_cnt = @ + 1] \in Seq(Entries)
    <3> DEFINE f == [known EXCEPT ![n].hit_cnt = @ + 1]
    <3>1. \A m \in 1..Len(known) : [known[m] EXCEPT !.hit_cnt = @ + 1] \in Entries
      BY <1>2, OneMoreHit
    <3>2. f = [m \in 1..Len(known) |->
                 IF m = n THEN [known[m] EXCEPT !.hit_cnt = @ + 1] ELSE known[m]]
      BY <1>2
    <3> HIDE DEF f
    <3>3. f \in [1..Len(known) -> Entries]
      BY <1>2, <3>1, <3>2
    <3> QED BY <1>2, <3>3, FunctionIsSeq DEF f
  <2>2. counted \in Seq(Entries)
    BY <2>1
  <2> HIDE DEF counted
  <2> QED BY <1>5, <2>2, SortedKeeps
<1>6. CASE d \in Sorted(Append(known, new))
  <2>1. Append(known, new) \in Seq(Entries)
    BY <1>3, AppendProperties
  <2> HIDE DEF new
  <2> QED BY <1>6, <2>1, SortedKeeps
<1>7. CASE \E n \in half : d \in Sorted([known EXCEPT ![n] = new])
  <2> PICK n \in half : d \in Sorted([known EXCEPT ![n] = new])
    BY <1>7
  <2> HIDE DEF half, new
  <2>1. [known EXCEPT ![n] = new] \in [1..Len(known) -> Entries]
    BY <1>2, <1>3
  <2>2. [known EXCEPT ![n] = new] \in Seq(Entries)
    BY <1>2, <2>1, FunctionIsSeq
  <2> QED BY <2>2, SortedKeeps
<1> QED BY <1>1, <1>4, <1>5, <1>6, <1>7

\* Whatever is run in a stage has the length of the case.
LEMMA LengthOfTries ==
  ASSUME Len(in_buf) \in Nat, NEW stage, NEW p, NEW buf \in Tries(stage, p)
  PROVE  Len(buf) = Len(in_buf)
<1>1. CASE stage \in {"flip16", "flip32"}
  BY <1>1, LengthOfFlip DEF Tries, FlipBytes
<1>2. CASE stage \in {"arith8", "arith16", "arith32"}
  <2>1. buf \in Arith(in_buf, p, Stages[stage])
    BY <1>2 DEF Tries
  <2>2. \E word : buf = Put(in_buf, p, word)
    BY <2>1, Zenon DEF Arith
  <2> QED BY <2>2, LengthOfPut
<1>3. CASE stage \notin {"flip16", "flip32", "arith8", "arith16", "arith32"}
  <2>1. buf \in Interest(in_buf, p, Stages[stage])
    BY <1>3 DEF Tries
  <2>2. \E word : buf = Put(in_buf, p, word)
    BY <2>1, Zenon DEF Interest
  <2> QED BY <2>2, LengthOfPut
<1> QED BY <1>1, <1>2, <1>3

\* A spliced case ends where its partner does.
LEMMA SpliceLength ==
  ASSUME entry \in Seq(Bytes), NEW target \in Seq(Bytes), Suits(target),
         NEW at \in Min(locate_diffs(target))..Max(locate_diffs(target)) - 1
  PROVE  LET spliced == SubSeq(entry, 1, at) \o SubSeq(target, at + 1, Len(target))
         IN spliced \in Seq(Bytes) /\ Len(spliced) = Len(target)
<1> DEFINE diffs == locate_diffs(target)
           shorter == Min({Len(entry), Len(target)})
           front == SubSeq(entry, 1, at)
           back == SubSeq(target, at + 1, Len(target))
<1>1. Len(entry) \in Nat /\ Len(target) \in Nat
  BY LenProperties
<1>2. shorter \in Nat /\ shorter <= Len(entry) /\ shorter <= Len(target)
  <2> DEFINE a == Len(entry)
             b == Len(target)
  <2>1. a \in Nat /\ b \in Nat
    BY <1>1
  <2> HIDE DEF a, b
  <2>2. \E x \in {a, b} : \A y \in {a, b} : x <= y
    <3>1. CASE a <= b
      BY <2>1, <3>1
    <3>2. CASE b <= a
      BY <2>1, <3>2
    <3> QED BY <2>1, <3>1, <3>2
  <2>3. Min({a, b}) = CHOOSE x \in {a, b} : \A y \in {a, b} : x <= y
    BY DEF Min
  <2>4. Min({a, b}) \in {a, b} /\ Min({a, b}) <= a /\ Min({a, b}) <= b
    BY <2>2, <2>3
  <2>5. Min({a, b}) \in Nat
    BY <2>1, <2>4
  <2> QED BY <2>4, <2>5 DEF a, b
<1>3. diffs # {} /\ diffs \subseteq 0..shorter - 1
  BY DEF Suits, locate_diffs
<1> HIDE DEF diffs, shorter
<1>4. Min(diffs) \in diffs /\ Max(diffs) \in diffs
  <2>1. diffs \in SUBSET (0..shorter)
    BY <1>2, <1>3
  <2> QED BY <1>2, <1>3, <2>1, Extremes
<1>5. at \in 0..Len(entry) /\ at \in 0..Len(target)
  <2>1. Min(diffs) \in 0..shorter - 1 /\ Max(diffs) \in 0..shorter - 1
    BY <1>3, <1>4
  <2>2. at \in Min(diffs)..Max(diffs) - 1
    BY DEF diffs
  <2> QED BY <1>1, <1>2, <2>1, <2>2
<1>6. front \in Seq(Bytes) /\ Len(front) = at
  <2>1. \A p \in 1..at : entry[p] \in Bytes
    BY <1>1, <1>5, ElementOfSeq
  <2>2. front \in Seq(Bytes) /\ Len(front) = IF 1 <= at THEN at - 1 + 1 ELSE 0
    BY <1>5, <2>1, SubSeqProperties
  <2> HIDE DEF front
  <2> QED BY <1>5, <2>2
<1>7. back \in Seq(Bytes) /\ Len(back) = Len(target) - at
  <2>1. \A p \in at + 1..Len(target) : target[p] \in Bytes
    BY <1>1, <1>5, ElementOfSeq
  <2>2. /\ back \in Seq(Bytes)
        /\ Len(back) = IF at + 1 <= Len(target) THEN Len(target) - (at + 1) + 1 ELSE 0
    BY <1>1, <1>5, <2>1, SubSeqProperties
  <2> HIDE DEF back
  <2> QED BY <1>1, <1>5, <2>2
<1> HIDE DEF front, back
<1>8. front \o back \in Seq(Bytes) /\ Len(front \o back) = Len(target)
  <2>1. front \o back \in Seq(Bytes) /\ Len(front \o back) = Len(front) + Len(back)
    BY <1>6, <1>7, ConcatProperties
  <2> QED BY <1>1, <1>5, <1>6, <1>7, <2>1
<1> QED BY <1>8 DEF front, back

-----------------------------------------------------------------------------
(* The invariant of the buffers.                                            *)

InOver == pc \in {"user_over", "auto_over"}
Aside == {"trim", "trim_loop", "checksum", "score", "splice", "done", "abandoned"}

\* Before it is put back, out_buf may be shorter than the case, or longer.
BufferTypes ==
  /\ in_buf \in Seq(Bytes) /\ Len(in_buf) \in 1..MAX_FILE
  /\ out_buf \in Seq(Cells)
  /\ pc = "havoc_loop" => temp_len = Len(in_buf)
  /\ pc = "tweak" => temp_len \in 1..MAX_FILE /\ Len(out_buf) >= temp_len

\* Between two runs out_buf is the case, but for the token that lies over it.
OnlyTokenOver ==
  pc \notin Aside \union {"tweak"} =>
    /\ Len(out_buf) >= Len(in_buf)
    /\ \A p \in 1..Len(in_buf) : out_buf[p] = in_buf[p] \/ (InOver /\ p \in i + 1..i + last_len)

\* That token lies within the case, and the tokens to come are no shorter.
Overlays ==
  /\ ~InOver => last_len = 0
  /\ ~InOver /\ pc # "tweak" => j = 0
  /\ InOver => /\ i \in 0..Len(in_buf) /\ last_len \in 0..Len(in_buf) - i /\ j \in 0..Len(Dict)
               /\ j = 0 => last_len = 0
               /\ i = Len(in_buf) => j = 0
               /\ \A m \in j + 1..Len(Dict) : last_len <= Len(Dict[m])
  /\ pc = "user_insert" => i \in Nat

\* The best of the tokens found stay sorted.
TokensSorted ==
  /\ a_extras \in Seq(Entries) /\ ByLength(Best(a_extras))
  /\ pc \in {"trim", "trim_loop", "checksum", "score"} => a_collect = <<>>
  /\ pc = "flip1" => i \in 0..Len(in_buf) /\ a_collect \in Seq(0..Len(in_buf) - 1)

TriedFit == \A buf \in tried : Len(buf) \in 1..MAX_FILE

BufInv == BufferTypes /\ OnlyTokenOver /\ Overlays /\ TokensSorted /\ TriedFit

\* A dictionary, whichever is being tried.
LEMMA DictSorted ==
  ASSUME TokensSorted PROVE Dict \in Seq(Seq(Bytes)) /\ ByLength(Dict)
<1>1. Best(a_extras) \in Seq(Seq(Bytes)) /\ ByLength(Best(a_extras))
  BY BestTokens DEF TokensSorted
<1> QED BY <1>1, FuzzOneAssumption DEF Dict, Bytes

-----------------------------------------------------------------------------
(* Every action keeps it.                                                   *)

\* The steps that collect no bytes.
LEMMA NoCollecting ==
  ASSUME TokensSorted, UNCHANGED a_extras,
         pc' \notin {"trim", "trim_loop", "checksum", "score", "flip1"}
  PROVE  TokensSorted'
BY DEF TokensSorted, ByLength, Best

\* A step to where no stage is at work.
LEMMA AsideKeeps ==
  ASSUME BufInv, LengthInv, pc' \in Aside,
         in_buf' \in {in_buf, entry}, out_buf' \in {out_buf, <<>>}, j' = 0, last_len' = 0,
         tried' \in {tried, {}}, TokensSorted'
  PROVE  BufInv'
<1>1. /\ in_buf' \in Seq(Bytes) /\ Len(in_buf)' \in 1..MAX_FILE
      /\ out_buf' \in Seq(Cells)
  <2>1. <<>> \in Seq(Cells)
    BY EmptySeq
  <2>2. entry \in Seq(Bytes) /\ Len(entry) \in 1..MAX_FILE
    BY DEF LengthInv, Bytes
  <2>3. in_buf \in Seq(Bytes) /\ Len(in_buf) \in 1..MAX_FILE /\ out_buf \in Seq(Cells)
    BY DEF BufInv, BufferTypes
  <2>4. in_buf' = in_buf \/ in_buf' = entry
    OBVIOUS
  <2>5. out_buf' = out_buf \/ out_buf' = <<>>
    OBVIOUS
  <2>6. in_buf' \in Seq(Bytes) /\ Len(in_buf') \in 1..MAX_FILE
    BY <2>2, <2>3, <2>4
  <2> QED BY <2>1, <2>3, <2>5, <2>6
<1>2. /\ pc' \notin {"havoc_loop", "tweak", "user_over", "auto_over", "user_insert", "flip1"}
      /\ pc' \in Aside
  BY DEF Aside
<1>3. TriedFit'
  BY DEF BufInv, TriedFit
<1> QED BY <1>1, <1>2, <1>3
        DEF BufInv, BufferTypes, OnlyTokenOver, Overlays, InOver

LEMMA TrimsAside ==
  ASSUME BufInv, LengthInv, Trims \/ UpdateChecksum PROVE BufInv'
<1>1. pc \in {"trim", "trim_loop", "checksum"} /\ pc' \in {"trim_loop", "checksum", "score"}
  BY DEF Trims, TrimSkip, TrimBegin, TrimTry, TrimHalve, TrimDone, UpdateChecksum
<1>2. UNCHANGED <<in_buf, out_buf, j, last_len, tried, a_collect, a_extras>>
  BY DEF Trims, TrimSkip, TrimBegin, TrimTry, TrimHalve, TrimDone, UpdateChecksum, buffers,
         loops, tokens
<1>3. j = 0 /\ last_len = 0
  BY <1>1 DEF BufInv, Overlays, InOver
<1>4. pc' \in Aside
  BY <1>1 DEF Aside
<1>5. TokensSorted'
  BY <1>1, <1>2 DEF BufInv, TokensSorted, ByLength, Best
<1> QED BY <1>2, <1>3, <1>4, <1>5, AsideKeeps

LEMMA OthersAside ==
  ASSUME BufInv, LengthInv, HavocDone \/ NoPartner \/ Done \/ abandon_entry PROVE BufInv'
<1>1. CASE HavocDone \/ NoPartner
  <2>1. pc \in {"havoc_loop", "splice"} /\ pc' = "splice" /\ in_buf' \in {in_buf, entry}
        /\ UNCHANGED <<out_buf, j, last_len, tried, a_extras>>
    BY <1>1 DEF HavocDone, NoPartner, buffers, loops, tokens
  <2>2. j = 0 /\ last_len = 0
    BY <2>1 DEF BufInv, Overlays, InOver
  <2>3. pc' \in Aside /\ TokensSorted'
    BY <2>1, NoCollecting DEF Aside, BufInv
  <2> QED BY <2>1, <2>2, <2>3, AsideKeeps
<1>2. CASE Done \/ abandon_entry
  <2>1. pc' \in {"done", "abandoned"} /\ Leave
    BY <1>2 DEF Done, abandon_entry
  <2>2. pc' \in Aside /\ TokensSorted'
    BY <2>1, NoCollecting DEF Aside, BufInv, Leave
  <2> QED BY <2>1, <2>2, AsideKeeps DEF Leave
<1> QED BY <1>1, <1>2

\* A step of a stage that runs cases as long as this one, and leaves out_buf alone.
InPlace ==
  /\ pc \notin Aside \union {"tweak", "user_over", "auto_over"}
  /\ UNCHANGED <<in_buf, out_buf, j, last_len>>
  /\ \A buf \in tried' : buf \in tried \/ Len(buf) = Len(in_buf)

LEMMA InPlaceKeeps ==
  ASSUME BufInv, InPlace, TokensSorted', pc' \notin {"tweak", "user_insert"},
         pc' \in {"user_over", "auto_over"} => i' = 0,
         pc' = "havoc_loop" => temp_len' = Len(in_buf)
  PROVE  BufInv'
<1>1. BufferTypes'
  BY DEF BufInv, BufferTypes, InPlace
<1>2. /\ Len(in_buf) \in Nat /\ Len(out_buf) >= Len(in_buf)
      /\ \A p \in 1..Len(in_buf) : out_buf[p] = in_buf[p]
      /\ j = 0 /\ last_len = 0
  BY DEF InPlace, BufInv, BufferTypes, OnlyTokenOver, Overlays, InOver
<1>3. OnlyTokenOver'
  BY <1>2 DEF InPlace, OnlyTokenOver
<1>4. Overlays'
  <2>1. CASE pc' \in {"user_over", "auto_over"}
    <3>1. Dict' \in Seq(Seq(Bytes))
      <4>1. a_extras' \in Seq(Entries)
        BY DEF TokensSorted
      <4>2. Best(a_extras') \in Seq(Seq(Bytes))
        BY <4>1, BestTokens
      <4>3. Dict' \in {extras, Best(a_extras')}
        BY DEF Dict, Best
      <4> QED BY <4>2, <4>3, FuzzOneAssumption DEF Bytes
    <3>2. \A m \in 1..Len(Dict') : Dict'[m] \in Seq(Bytes)
      BY <3>1, ElementOfSeq
    <3>3. Len(Dict') \in Nat /\ \A m \in 1..Len(Dict') : Len(Dict'[m]) \in Nat
      BY <3>1, <3>2, LenProperties
    <3>4. i' = 0 /\ j' = 0 /\ last_len' = 0 /\ in_buf' = in_buf
      BY <1>2, <2>1 DEF InPlace
    <3>5. Len(in_buf)' \in Nat
      BY <1>2, <3>4
    <3>6. 0 \in 0..Len(in_buf)' /\ 0 \in 0..Len(in_buf)' - 0 /\ 0 \in 0..Len(Dict')
      BY <3>3, <3>5
    <3>7. \A m \in 0 + 1..Len(Dict') : 0 <= Len(Dict'[m])
      BY <3>3
    <3> QED BY <2>1, <3>4, <3>6, <3>7 DEF Overlays, InOver
  <2>2. CASE pc' \notin {"user_over", "auto_over"}
    BY <1>2, <2>2 DEF InPlace, Overlays, InOver
  <2> QED BY <2>1, <2>2
<1>5. TriedFit'
  BY DEF InPlace, TriedFit, BufInv, BufferTypes
<1> QED BY <1>1, <1>3, <1>4, <1>5 DEF BufInv

\* Flip1: the bytes collected are positions of the case, and a token they make goes
\* where its length belongs.
LEMMA Flip1Sorts == ASSUME BufInv, Flip1 PROVE TokensSorted'
<1>1. /\ pc = "flip1" /\ pc' = "flip1" /\ i < Len(in_buf) /\ i' = i + 1
      /\ UNCHANGED <<in_buf, start>>
  BY DEF Flip1, buffers, entry_vars
<1>10. PICK cksum : Collect(cksum)
  BY DEF Flip1
<1> DEFINE S == 0..Len(in_buf) - 1
           last == i = Len(in_buf) - 1
           ended == IF last /\ cksum = prev_cksum THEN Append(a_collect, i) ELSE a_collect
           rest == IF cksum # prev_cksum THEN <<>> ELSE ended
<1>2. /\ a_extras' \in maybe_add_auto(a_extras, Token(ended)) \union {a_extras}
      /\ a_collect' \in {Append(rest, i), rest}
  BY <1>10, Zenon DEF Collect
<1>3. /\ i \in S /\ a_collect \in Seq(S) /\ Len(in_buf) \in Nat /\ i + 1 \in 0..Len(in_buf)
      /\ a_extras \in Seq(Entries) /\ ByLength(Best(a_extras))
      /\ in_buf \in Seq(Bytes)
  BY <1>1 DEF BufInv, BufferTypes, TokensSorted
<1> HIDE DEF S, last
<1>4. ended \in Seq(S)
  BY <1>3, AppendProperties
<1>5. rest \in Seq(S)
  BY <1>4
<1> HIDE DEF ended, rest
<1>6. a_collect' \in Seq(S)
  <2>1. Append(rest, i) \in Seq(S)
    BY <1>3, <1>5, AppendProperties
  <2> QED BY <1>2, <1>5, <2>1
<1>7. Token(ended) \in Seq(Bytes)
  <2> DEFINE n == Len(ended)
  <2>1. n \in Nat /\ DOMAIN ended = 1..n
    BY <1>4, LenProperties
  <2>2. ASSUME NEW m \in 1..n PROVE in_buf[ended[m] + 1] \in Bytes
    <3>1. ended[m] \in S
      BY <1>4, ElementOfSeq
    <3>2. ended[m] + 1 \in 1..Len(in_buf)
      BY <1>3, <3>1 DEF S
    <3> QED BY <1>3, <3>2, ElementOfSeq
  <2>3. Token(ended) \in [1..n -> Bytes]
    BY <2>1, <2>2 DEF Token
  <2> QED BY <2>1, <2>3, FunctionIsSeq
<1>8. a_extras' \in Seq(Entries) /\ ByLength(Best(a_extras'))
  BY <1>2, <1>3, <1>7, TokensKept
<1>9. ByLength(Best(a_extras))' /\ S' = S
  <2>1. ByLength(Best(a_extras))' <=> ByLength(Best(a_extras'))
    BY DEF ByLength, Best
  <2> QED BY <1>1, <1>8, <2>1 DEF S
<1> QED BY <1>1, <1>3, <1>6, <1>8, <1>9 DEF TokensSorted, S

LEMMA Flip1KeepsBuffers == ASSUME BufInv, Flip1 PROVE BufInv'
<1>1. /\ pc = "flip1" /\ pc' = "flip1" /\ UNCHANGED <<in_buf, out_buf, j, last_len>>
      /\ tried' = tried \union {Flip(in_buf, 8 * i + n, 1) : n \in 0..7}
  BY DEF Flip1, buffers
<1>2. InPlace
  <2>1. Len(in_buf) \in Nat
    BY DEF BufInv, BufferTypes
  <2>2. \A n : Len(Flip(in_buf, 8 * i + n, 1)) = Len(in_buf)
    BY <2>1, LengthOfFlip
  <2> QED BY <1>1, <2>2 DEF InPlace, Aside
<1> QED BY <1>1, <1>2, Flip1Sorts, InPlaceKeeps

LEMMA FlipsInPlace ==
  ASSUME BufInv, Flip2and4 \/ Flip8 \/ Flip8Done \/ MarkAsDetDone \/ havoc_stage PROVE BufInv'
<1>1. /\ pc \in {"flip1", "flip8", "mark", "havoc"}
      /\ pc' \in {"flip8", "flip16", "havoc", "havoc_loop"}
      /\ UNCHANGED <<in_buf, out_buf, j, last_len, a_extras>>
  BY DEF Flip2and4, Flip8, Flip8Done, MarkAsDetDone, havoc_stage, buffers, loops, tokens
<1>2. Len(in_buf) \in Nat
  BY DEF BufInv, BufferTypes
<1>3. \A buf \in tried' : buf \in tried \/ Len(buf) = Len(in_buf)
  <2>1. CASE Flip2and4
    <3>1. tried' = tried \union (FlipBits(in_buf, 2) \union FlipBits(in_buf, 4))
      BY <2>1 DEF Flip2and4
    <3>2. \A n : \A buf \in FlipBits(in_buf, n) : \E from : buf = Flip(in_buf, from, n)
      BY DEF FlipBits
    <3> QED BY <1>2, <3>1, <3>2, LengthOfFlip
  <2>2. CASE Flip8
    <3>1. tried' = tried \union FlipBytes(in_buf, i, 1)
      BY <2>2 DEF Flip8
    <3>2. FlipBytes(in_buf, i, 1) = {Flip(in_buf, 8 * i, 8 * 1)}
      BY DEF FlipBytes
    <3> QED BY <1>2, <3>1, <3>2, LengthOfFlip
  <2>3. CASE Flip8Done \/ MarkAsDetDone \/ havoc_stage
    BY <2>3 DEF Flip8Done, MarkAsDetDone, havoc_stage
  <2> QED BY <2>1, <2>2, <2>3
<1>4. pc' = "havoc_loop" => temp_len' = Len(in_buf)
  BY DEF Flip2and4, Flip8, Flip8Done, MarkAsDetDone, havoc_stage
<1>5. InPlace
  BY <1>1, <1>3 DEF InPlace, Aside
<1>6. TokensSorted'
  BY <1>1, NoCollecting DEF BufInv
<1> QED BY <1>1, <1>4, <1>5, <1>6, InPlaceKeeps

LEMMA StagesInPlace == ASSUME BufInv, InStage \/ EndStage PROVE BufInv'
<1>1. /\ pc \in DOMAIN Stages /\ pc' \in {pc, Following[pc]} /\ (pc' # pc => i' = 0)
      /\ UNCHANGED <<in_buf, out_buf, j, last_len, a_extras>>
  BY DEF InStage, EndStage, buffers, tokens
<1>2. /\ pc \notin Aside \union {"tweak", "user_over", "auto_over"}
      /\ pc' \notin {"tweak", "user_insert", "flip1", "havoc_loop", "trim", "trim_loop",
                  "checksum", "score"}
      /\ pc' \in {"user_over", "auto_over"} => i' = 0
  BY <1>1 DEF Stages, Following, Aside
<1>3. Len(in_buf) \in Nat
  BY DEF BufInv, BufferTypes
<1>4. \A buf \in tried' : buf \in tried \/ Len(buf) = Len(in_buf)
  <2>1. tried' \in {tried, tried \union Tries(pc, i)}
    BY DEF InStage, EndStage
  <2> QED BY <1>3, <2>1, LengthOfTries
<1>5. InPlace
  BY <1>1, <1>2, <1>4 DEF InPlace
<1>6. TokensSorted'
  BY <1>1, <1>2, NoCollecting DEF BufInv
<1> QED BY <1>2, <1>5, <1>6, InPlaceKeeps

\* The stages begin with a copy of the trimmed case; what is behind it was allocated
\* for the case as it was found.
LEMMA ScoreKeepsBuffers == ASSUME BufInv, LengthInv, Score PROVE BufInv'
<1>1. /\ pc = "score" /\ pc' \in {"havoc", "flip1"} /\ i' = 0
      /\ in_buf' = entry /\ out_buf' = entry \o Random(Len(start.case) - Len(entry))
      /\ UNCHANGED <<j, last_len, tried, a_collect, a_extras>>
  BY DEF Score
<1> DEFINE pad == Random(Len(start.case) - Len(entry))
<1>2. /\ entry \in Seq(Bytes) /\ Len(entry) \in 1..MAX_FILE /\ MAX_FILE \in Nat
      /\ Len(start.case) \in Nat
  BY FuzzOneAssumption DEF LengthInv, Bytes
<1>3. pad \in Seq(Cells) /\ Len(pad) \in Nat
  <2>1. Len(start.case) - Len(entry) \in Int
    BY <1>2
  <2>2. pad \in Seq(Cells)
    BY <2>1, RandomProperties
  <2> QED BY <2>2, LenProperties
<1>4. entry \in Seq(Cells)
  BY <1>2, BytesInBuffer
<1> HIDE DEF pad
<1>5. /\ out_buf' \in Seq(Cells) /\ Len(out_buf') = Len(entry) + Len(pad)
      /\ \A p \in 1..Len(entry) + Len(pad) :
           out_buf'[p] = IF p <= Len(entry) THEN entry[p] ELSE pad[p - Len(entry)]
  BY <1>1, <1>3, <1>4, ConcatProperties DEF pad
<1>6. /\ Len(out_buf') >= Len(entry)
      /\ \A p \in 1..Len(entry) : out_buf'[p] = entry[p]
  BY <1>2, <1>3, <1>5
<1>7. BufferTypes'
  BY <1>1, <1>2, <1>5 DEF BufferTypes
<1>8. OnlyTokenOver'
  BY <1>1, <1>6 DEF OnlyTokenOver
<1>9. Overlays'
  BY <1>1 DEF BufInv, Overlays, InOver
<1>10. TokensSorted' /\ TriedFit'
  <2>1. a_collect = <<>> /\ a_extras \in Seq(Entries) /\ ByLength(Best(a_extras))
    BY <1>1 DEF BufInv, TokensSorted
  <2>2. ByLength(Best(a_extras))'
    BY <1>1, <2>1 DEF ByLength, Best
  <2> QED BY <1>1, <1>2, <2>1, <2>2 DEF BufInv, TokensSorted, TriedFit
<1> QED BY <1>7, <1>8, <1>9, <1>10 DEF BufInv

\* What Overlays and OnlyTokenOver say while a dictionary is written over the case.
LEMMA WhileOver ==
  ASSUME BufInv, InOver
  PROVE  /\ Len(in_buf) \in Nat /\ Len(out_buf) \in Nat /\ Len(out_buf) >= Len(in_buf)
         /\ i \in 0..Len(in_buf) /\ last_len \in 0..Len(in_buf) - i /\ j \in 0..Len(Dict)
         /\ j = 0 => last_len = 0
         /\ i = Len(in_buf) => j = 0
         /\ \A m \in j + 1..Len(Dict) : last_len <= Len(Dict[m])
         /\ \A p \in 1..Len(in_buf) : out_buf[p] = in_buf[p] \/ p \in i + 1..i + last_len
<1>1. Len(in_buf) \in Nat /\ Len(out_buf) \in Nat
  BY LenProperties DEF BufInv, BufferTypes
<1>2. pc \notin Aside \union {"tweak"}
  BY DEF InOver, Aside
<1> QED BY <1>1, <1>2 DEF BufInv, OnlyTokenOver, Overlays

\* The tokens of a dictionary are sequences of bytes, each at least as long as the last.
LEMMA TokensOfDict ==
  ASSUME TokensSorted
  PROVE  /\ Len(Dict) \in Nat
         /\ \A m \in 1..Len(Dict) : Dict[m] \in Seq(Bytes) /\ Len(Dict[m]) \in Nat
         /\ \A m, n \in 1..Len(Dict) : m <= n => Len(Dict[m]) <= Len(Dict[n])
<1>1. Dict \in Seq(Seq(Bytes)) /\ ByLength(Dict)
  BY DictSorted
<1>2. Len(Dict) \in Nat /\ DOMAIN Dict = 1..Len(Dict)
  BY <1>1, LenProperties
<1>3. ASSUME NEW m \in 1..Len(Dict) PROVE Dict[m] \in Seq(Bytes) /\ Len(Dict[m]) \in Nat
  <2>1. Dict[m] \in Seq(Bytes)
    BY <1>1, ElementOfSeq
  <2> QED BY <2>1, LenProperties
<1> QED BY <1>1, <1>2, <1>3 DEF ByLength

\* A part of a buffer.
LEMMA PartOf ==
  ASSUME NEW buf \in Seq(Cells), NEW from \in Nat, NEW to \in from..Len(buf)
  PROVE  LET part == SubSeq(buf, from + 1, to)
         IN /\ part \in Seq(Cells) /\ Len(part) = to - from
            /\ \A m \in 1..to - from : part[m] = buf[from + m]
<1> DEFINE part == SubSeq(buf, from + 1, to)
<1>1. Len(buf) \in Nat /\ to \in Int /\ from <= to
  BY LenProperties
<1>2. ASSUME NEW p \in from + 1..to PROVE buf[p] \in Cells
  <2>1. p \in 1..Len(buf)
    BY <1>1
  <2> QED BY <2>1, ElementOfSeq
<1>3. /\ part \in Seq(Cells)
      /\ Len(part) = IF from + 1 <= to THEN to - (from + 1) + 1 ELSE 0
      /\ \A m \in 1..to - (from + 1) + 1 : part[m] = buf[(from + 1) + m - 1]
  BY <1>1, <1>2, SubSeqProperties
<1> HIDE DEF part
<1>4. Len(part) = to - from /\ to - (from + 1) + 1 = to - from
  BY <1>1, <1>3
<1>5. ASSUME NEW m \in 1..to - from PROVE part[m] = buf[from + m]
  <2>1. (from + 1) + m - 1 = from + m
    BY <1>1
  <2> QED BY <1>3, <1>4, <2>1, Zenon
<1>6. part \in Seq(Cells) /\ Len(part) = to - from
      /\ \A m \in 1..to - from : part[m] = buf[from + m]
  BY <1>3, <1>4, <1>5
<1> QED BY <1>6 DEF part

LEMMA FrontFits ==
  ASSUME BufInv, NEW buf \in Seq(Cells), Len(buf) >= Len(in_buf)
  PROVE  Len(SubSeq(buf, 1, Len(in_buf))) = Len(in_buf)
<1>1. Len(in_buf) \in Nat /\ Len(buf) \in Nat
  BY LenProperties DEF BufInv, BufferTypes
<1>2. Len(SubSeq(buf, 0 + 1, Len(in_buf))) = Len(in_buf) - 0
  <2>1. Len(in_buf) \in 0..Len(buf)
    BY <1>1
  <2> QED BY <2>1, PartOf
<1> QED BY <1>1, <1>2

\* A token covers the one before it: what lay beside that is still the case.
LEMMA OverKeeps == ASSUME BufInv, Over PROVE BufInv'
<1>1. /\ InOver /\ pc' = pc /\ i < Len(in_buf) /\ j < Len(Dict) /\ j' = j + 1
      /\ UNCHANGED <<in_buf, temp_len, i, a_extras>>
  BY DEF Over, InOver, tokens
<1> DEFINE token == Dict[j + 1]
           K == Len(Dict)
<1>2. \/ /\ Len(token) <= Len(in_buf) - i /\ out_buf' = Put(out_buf, i, token)
         /\ last_len' = Len(token) /\ tried' = {SubSeq(out_buf', 1, Len(in_buf))}
      \/ tried' = {} /\ UNCHANGED <<out_buf, last_len>>
  BY DEF Over
<1>3. /\ Len(in_buf) \in Nat /\ Len(out_buf) \in Nat /\ Len(out_buf) >= Len(in_buf)
      /\ i \in 0..Len(in_buf) /\ last_len \in 0..Len(in_buf) - i /\ j \in 0..K
      /\ \A m \in j + 1..K : last_len <= Len(Dict[m])
      /\ \A p \in 1..Len(in_buf) : out_buf[p] = in_buf[p] \/ p \in i + 1..i + last_len
  BY <1>1, WhileOver
<1>4. /\ K \in Nat /\ \A m \in 1..K : Dict[m] \in Seq(Bytes) /\ Len(Dict[m]) \in Nat
      /\ \A m, n \in 1..K : m <= n => Len(Dict[m]) <= Len(Dict[n])
  BY TokensOfDict DEF BufInv
<1>5. /\ token \in Seq(Bytes) /\ token \in Seq(Cells) /\ Len(token) \in Nat
      /\ last_len <= Len(token)
      /\ \A m \in (j + 1) + 1..K : Len(token) <= Len(Dict[m])
  <2>1. j + 1 \in 1..K /\ j + 1 \in j + 1..K
    BY <1>1, <1>3, <1>4
  <2>2. token \in Seq(Bytes) /\ Len(token) \in Nat /\ last_len <= Len(token)
    BY <1>3, <1>4, <2>1
  <2>3. token \in Seq(Cells)
    BY <2>2, BytesInBuffer
  <2>4. ASSUME NEW m \in (j + 1) + 1..K PROVE Len(token) <= Len(Dict[m])
    <3>1. m \in 1..K /\ j + 1 <= m
      BY <1>3, <1>4
    <3> QED BY <1>4, <2>1, <3>1
  <2> QED BY <2>2, <2>3, <2>4
<1>6. Dict' = Dict
  BY <1>1 DEF Dict
<1> HIDE DEF token, K
<1>7. out_buf \in Seq(Cells) /\ i \in Nat
  BY <1>3 DEF BufInv, BufferTypes
<1>8. /\ out_buf' \in Seq(Cells) /\ Len(out_buf') = Len(out_buf)
      /\ last_len' \in 0..Len(in_buf) - i
      /\ \A m \in (j + 1) + 1..K : last_len' <= Len(Dict[m])
      /\ \A p \in 1..Len(in_buf) : out_buf'[p] = in_buf[p] \/ p \in i + 1..i + last_len'
  <2>1. CASE UNCHANGED <<out_buf, last_len>>
    <3>1. \A m \in (j + 1) + 1..K : m \in j + 1..K
      BY <1>3, <1>4
    <3> QED BY <1>3, <1>7, <2>1, <3>1
  <2>2. CASE /\ Len(token) <= Len(in_buf) - i /\ out_buf' = Put(out_buf, i, token)
             /\ last_len' = Len(token)
    <3>1. /\ out_buf' \in Seq(Cells) /\ Len(out_buf') = Len(out_buf)
          /\ \A p \in 1..Len(out_buf) :
               out_buf'[p] = IF p \in i + 1..i + Len(token) THEN token[p - i] ELSE out_buf[p]
      <4>1. token \in Seq(Cells) /\ out_buf \in Seq(Cells) /\ i \in Nat
            /\ out_buf' = Put(out_buf, i, token)
        BY <1>5, <1>7, <2>2
      <4> QED BY <4>1, PutProperties
    <3>2. ASSUME NEW p \in 1..Len(in_buf)
          PROVE  out_buf'[p] = in_buf[p] \/ p \in i + 1..i + last_len'
      <4>1. p \in 1..Len(out_buf)
        BY <1>3
      <4>2. p \in i + 1..i + last_len => p \in i + 1..i + Len(token)
        BY <1>3, <1>5
      <4> QED BY <1>3, <2>2, <3>1, <4>1, <4>2
    <3>3. last_len' \in 0..Len(in_buf) - i
      BY <1>3, <1>5, <2>2
    <3> QED BY <1>5, <2>2, <3>1, <3>2, <3>3
  <2> QED BY <1>2, <2>1, <2>2
<1>9. BufferTypes'
  BY <1>1, <1>8 DEF BufInv, BufferTypes, InOver
<1>10. OnlyTokenOver'
  BY <1>1, <1>3, <1>8 DEF OnlyTokenOver, InOver
<1>11. Overlays'
  <2>1. j + 1 \in 0..K /\ j + 1 # 0 /\ i # Len(in_buf)
    BY <1>1, <1>3, <1>4 DEF K
  <2> QED BY <1>1, <1>3, <1>6, <1>8, <2>1 DEF Overlays, InOver, K
<1>12. TokensSorted'
  BY <1>1, NoCollecting DEF BufInv, InOver
<1>13. TriedFit'
  <2>1. Len(SubSeq(out_buf', 1, Len(in_buf))) = Len(in_buf)
    BY <1>3, <1>8, FrontFits
  <2>2. \A buf \in tried' : Len(buf) = Len(in_buf)
    BY <1>2, <2>1
  <2> QED BY <2>2 DEF TriedFit, BufInv, BufferTypes
<1> QED BY <1>9, <1>10, <1>11, <1>12, <1>13 DEF BufInv

\* The last token is taken off again.
LEMMA OverNextKeeps == ASSUME BufInv, OverNext PROVE BufInv'
<1>1. /\ InOver /\ pc' = pc /\ i < Len(in_buf)
      /\ out_buf' = Put(out_buf, i, SubSeq(in_buf, i + 1, i + last_len))
      /\ i' = i + 1 /\ j' = 0 /\ last_len' = 0 /\ tried' = {}
      /\ UNCHANGED <<in_buf, temp_len, a_extras>>
  BY DEF OverNext, InOver, tokens, Restore
<1>2. /\ Len(in_buf) \in Nat /\ Len(out_buf) \in Nat /\ Len(out_buf) >= Len(in_buf)
      /\ i \in 0..Len(in_buf) /\ last_len \in 0..Len(in_buf) - i
      /\ \A p \in 1..Len(in_buf) : out_buf[p] = in_buf[p] \/ p \in i + 1..i + last_len
  BY <1>1, WhileOver
<1> DEFINE word == SubSeq(in_buf, i + 1, i + last_len)
<1>3. in_buf \in Seq(Cells) /\ out_buf \in Seq(Cells)
  BY BytesInBuffer DEF BufInv, BufferTypes
<1>4. /\ word \in Seq(Cells) /\ Len(word) = last_len
      /\ \A m \in 1..last_len : word[m] = in_buf[i + m]
  <2>1. i \in Nat /\ last_len \in Nat /\ i + last_len \in i..Len(in_buf)
    BY <1>2
  <2>2. (i + last_len) - i = last_len
    BY <2>1
  <2> QED BY <1>3, <2>1, <2>2, PartOf
<1> HIDE DEF word
<1>5. /\ out_buf' \in Seq(Cells) /\ Len(out_buf') = Len(out_buf)
      /\ \A p \in 1..Len(out_buf) :
           out_buf'[p] = IF p \in i + 1..i + last_len THEN word[p - i] ELSE out_buf[p]
  <2>1. i \in Nat
    BY <1>2
  <2>2. out_buf' = Put(out_buf, i, word)
    BY <1>1 DEF word
  <2> DEFINE put == Put(out_buf, i, word)
  <2>3. word \in Seq(Cells) /\ Len(word) = last_len
    BY <1>4
  <2>4. /\ put \in Seq(Cells) /\ Len(put) = Len(out_buf)
        /\ \A p \in 1..Len(out_buf) :
             put[p] = IF p \in i + 1..i + Len(word) THEN word[p - i] ELSE out_buf[p]
    BY <1>3, <2>1, <2>3, PutProperties
  <2> HIDE DEF put
  <2> QED BY <2>2, <2>3, <2>4 DEF put
<1>6. ASSUME NEW p \in 1..Len(in_buf) PROVE out_buf'[p] = in_buf[p]
  <2>1. p \in 1..Len(out_buf)
    BY <1>2
  <2>2. p \in i + 1..i + last_len => p - i \in 1..last_len /\ i + (p - i) = p
    BY <1>2
  <2> QED BY <1>2, <1>4, <1>5, <2>1, <2>2
<1>7. BufferTypes'
  BY <1>1, <1>5 DEF BufInv, BufferTypes, InOver
<1>8. OnlyTokenOver'
  BY <1>1, <1>2, <1>5, <1>6 DEF OnlyTokenOver
<1>9. Overlays'
  <2>1. Dict' = Dict
    BY <1>1 DEF Dict
  <2>2. /\ Len(Dict) \in Nat /\ \A m \in 1..Len(Dict) : Len(Dict[m]) \in Nat
    BY TokensOfDict DEF BufInv
  <2>3. i + 1 \in 0..Len(in_buf) /\ 0 \in 0..Len(in_buf) - (i + 1) /\ 0 \in 0..Len(Dict)
        /\ \A m \in 0 + 1..Len(Dict) : 0 <= Len(Dict[m])
    BY <1>1, <1>2, <2>2
  <2> QED BY <1>1, <2>1, <2>3 DEF Overlays, InOver
<1>10. TokensSorted'
  BY <1>1, NoCollecting DEF BufInv, InOver
<1>11. TriedFit'
  BY <1>1 DEF TriedFit
<1> QED BY <1>7, <1>8, <1>9, <1>10, <1>11 DEF BufInv

LEMMA OverDoneKeeps == ASSUME BufInv, OverDone PROVE BufInv'
<1>1. /\ InOver /\ pc' \in {"user_insert", "mark"} /\ i = Len(in_buf) /\ i' = 0
      /\ UNCHANGED <<in_buf, out_buf, temp_len, j, last_len, tried, a_extras>>
  BY DEF OverDone, InOver, tokens, buffers
<1>2. /\ Len(in_buf) \in Nat /\ Len(out_buf) \in Nat /\ Len(out_buf) >= Len(in_buf)
      /\ i = Len(in_buf) /\ last_len \in 0..Len(in_buf) - i /\ j = 0
      /\ \A p \in 1..Len(in_buf) : out_buf[p] = in_buf[p] \/ p \in i + 1..i + last_len
  BY <1>1, WhileOver
<1>3. last_len = 0 /\ \A p \in 1..Len(in_buf) : out_buf[p] = in_buf[p]
  BY <1>2
<1>4. BufferTypes'
  BY <1>1 DEF BufInv, BufferTypes
<1>5. OnlyTokenOver'
  BY <1>1, <1>2, <1>3 DEF OnlyTokenOver
<1>6. Overlays'
  BY <1>1, <1>2, <1>3 DEF Overlays, InOver
<1>7. TokensSorted'
  BY <1>1, NoCollecting DEF BufInv
<1>8. TriedFit'
  BY <1>1 DEF TriedFit, BufInv
<1> QED BY <1>4, <1>5, <1>6, <1>7, <1>8 DEF BufInv

\* What a token makes of the case is measured before it is run.
LEMMA InsertKeeps == ASSUME BufInv, UserInsert \/ UserInsertDone PROVE BufInv'
<1>1. CASE UserInsertDone
  <2>1. /\ pc = "user_insert" /\ pc' = "auto_over" /\ i' = 0
        /\ UNCHANGED <<in_buf, out_buf, j, last_len, tried, a_extras>>
    BY <1>1 DEF UserInsertDone, buffers, tokens
  <2>2. InPlace /\ TokensSorted'
    BY <2>1, NoCollecting DEF InPlace, Aside, BufInv
  <2> QED BY <2>1, <2>2, InPlaceKeeps
<1>2. CASE UserInsert
  <2>1. /\ pc = "user_insert" /\ pc' = "user_insert" /\ i <= Len(in_buf) /\ i' = i + 1
        /\ UNCHANGED <<in_buf, out_buf, j, last_len, a_extras>>
        /\ tried' = {SubSeq(out_buf, 1, i) \o token \o SubSeq(out_buf, i + 1, Len(in_buf)) :
                       token \in {e \in {extras[n] : n \in DOMAIN extras} : Fits(e)}}
    BY <1>2 DEF UserInsert, buffers, tokens
  <2>2. /\ Len(in_buf) \in 1..MAX_FILE /\ MAX_FILE \in Nat /\ i \in Nat
        /\ out_buf \in Seq(Cells) /\ Len(out_buf) \in Nat /\ Len(out_buf) >= Len(in_buf)
    <3>1. pc \notin Aside \union {"tweak"}
      BY <2>1 DEF Aside
    <3> QED BY <2>1, <3>1, FuzzOneAssumption, LenProperties
            DEF BufInv, BufferTypes, OnlyTokenOver, Overlays
  <2>3. ASSUME NEW token, token \in {extras[n] : n \in DOMAIN extras}, Fits(token)
        PROVE  Len(SubSeq(out_buf, 1, i) \o token \o SubSeq(out_buf, i + 1, Len(in_buf)))
                 \in 1..MAX_FILE
    <3> DEFINE front == SubSeq(out_buf, 1, i)
               back == SubSeq(out_buf, i + 1, Len(in_buf))
    <3>1. token \in Seq(Cells) /\ Len(token) \in Nat
      <4>1. extras \in Seq(Seq(Bytes))
        BY FuzzOneAssumption DEF Bytes
      <4>2. token \in Seq(Bytes)
        BY <2>3, <4>1, LenProperties, ElementOfSeq
      <4> QED BY <4>2, BytesInBuffer, LenProperties
    <3>2. Len(in_buf) + Len(token) <= MAX_FILE
      BY <2>3 DEF Fits
    <3>3. front \in Seq(Cells) /\ Len(front) = i
      <4>1. i \in 0..Len(out_buf) /\ i - 0 = i /\ 0 + 1 = 1
        BY <2>1, <2>2
      <4>2. /\ SubSeq(out_buf, 0 + 1, i) \in Seq(Cells)
            /\ Len(SubSeq(out_buf, 0 + 1, i)) = i - 0
        BY <2>2, <4>1, PartOf
      <4> QED BY <4>1, <4>2
    <3>4. back \in Seq(Cells) /\ Len(back) = Len(in_buf) - i
      <4>1. Len(in_buf) \in i..Len(out_buf)
        BY <2>1, <2>2
      <4> QED BY <2>2, <4>1, PartOf
    <3> HIDE DEF front, back
    <3>5. front \o token \in Seq(Cells) /\ Len(front \o token) = i + Len(token)
      <4>1. /\ front \o token \in Seq(Cells)
            /\ Len(front \o token) = Len(front) + Len(token)
        BY <3>1, <3>3, ConcatProperties
      <4> QED BY <3>3, <4>1
    <3>6. Len((front \o token) \o back) = Len(front \o token) + Len(back)
      BY <3>4, <3>5, ConcatProperties
    <3>7. Len((front \o token) \o back) = (i + Len(token)) + (Len(in_buf) - i)
      BY <3>4, <3>5, <3>6, Zenon
    <3>8. Len((front \o token) \o back) \in 1..MAX_FILE
      BY <2>1, <2>2, <3>1, <3>2, <3>7
    <3> QED BY <3>8 DEF front, back
  <2>4. TriedFit'
    BY <2>1, <2>3 DEF TriedFit
  <2>5. BufferTypes' /\ OnlyTokenOver'
    BY <2>1 DEF BufInv, BufferTypes, OnlyTokenOver, Aside, InOver
  <2>6. Overlays'
    BY <2>1, <2>2 DEF BufInv, Overlays, InOver
  <2>7. TokensSorted'
    BY <2>1, NoCollecting DEF BufInv
  <2> QED BY <2>4, <2>5, <2>6, <2>7 DEF BufInv
<1> QED BY <1>1, <1>2

\* Havoc: no tweak makes the buffer empty, or longer than may be read again.
LEMMA StackKeeps == ASSUME BufInv, Stack PROVE BufInv'
<1>1. /\ pc = "havoc_loop" /\ pc' = "tweak"
      /\ UNCHANGED <<in_buf, out_buf, temp_len, last_len, tried, a_extras>>
  BY DEF Stack, buffers, tokens
<1>2. Len(in_buf) \in 1..MAX_FILE /\ Len(out_buf) >= Len(in_buf) /\ temp_len = Len(in_buf)
      /\ last_len = 0
  BY <1>1 DEF BufInv, BufferTypes, OnlyTokenOver, Overlays, Aside, InOver
<1>3. BufferTypes'
  BY <1>1, <1>2 DEF BufInv, BufferTypes
<1>4. OnlyTokenOver' /\ Overlays'
  BY <1>1, <1>2 DEF OnlyTokenOver, Overlays, InOver
<1>5. TokensSorted' /\ TriedFit'
  BY <1>1, NoCollecting DEF BufInv, TriedFit
<1> QED BY <1>3, <1>4, <1>5 DEF BufInv

LEMMA TweakedKeeps ==
  ASSUME BufInv, NEW n \in 1..MAX_FILE, NEW size \in Nat, size >= n, Tweaked(Random(size), n)
  PROVE  BufInv'
<1>1. /\ pc = "tweak" /\ pc' = "tweak" /\ out_buf' = Random(size) /\ temp_len' = n
      /\ UNCHANGED <<in_buf, last_len, tried, a_extras>>
  BY DEF Tweaked, tokens
<1>2. n >= 1 /\ size > 0 /\ size \in Int
  BY FuzzOneAssumption
<1>3. out_buf' \in Seq(Cells) /\ Len(out_buf') = size
  BY <1>1, <1>2, RandomProperties
<1>4. BufferTypes'
  BY <1>1, <1>3 DEF BufInv, BufferTypes
<1>5. OnlyTokenOver' /\ Overlays'
  BY <1>1 DEF BufInv, OnlyTokenOver, Overlays, InOver
<1>6. TokensSorted' /\ TriedFit'
  BY <1>1, NoCollecting DEF BufInv, TriedFit
<1> QED BY <1>4, <1>5, <1>6 DEF BufInv

LEMMA TweaksKeep == ASSUME BufInv, Tweaks PROVE BufInv'
<1>1. pc = "tweak"
  BY DEF Tweaks, Overwrite, Delete, Clone, InsertExtra, Tweaked
<1>2. /\ temp_len \in 1..MAX_FILE /\ Len(out_buf) \in Nat /\ Len(out_buf) >= temp_len
      /\ MAX_FILE \in Nat /\ temp_len \in Nat
  BY <1>1, LenProperties, FuzzOneAssumption DEF BufInv, BufferTypes
<1>3. CASE Overwrite
  BY <1>2, <1>3, TweakedKeeps DEF Overwrite
<1>4. CASE Delete
  <2>1. PICK del_len \in choose_block_len(temp_len - 1) :
          temp_len >= 2 /\ Tweaked(Random(Len(out_buf)), temp_len - del_len)
    BY <1>4 DEF Delete
  <2>2. temp_len - 1 \in Nat \ {0}
    BY <1>2, <2>1
  <2>3. del_len \in 1..temp_len - 1
    BY <2>2, BlockLength
  <2>4. temp_len - del_len \in 1..MAX_FILE /\ Len(out_buf) >= temp_len - del_len
    BY <1>2, <2>3
  <2> QED BY <1>2, <2>1, <2>4, TweakedKeeps
<1>5. CASE Clone
  <2>1. PICK clone_len \in choose_block_len(temp_len) \union choose_block_len(HAVOC_BLK_XL) :
          /\ temp_len + HAVOC_BLK_XL < MAX_FILE
          /\ Tweaked(Random(temp_len + clone_len), temp_len + clone_len)
    BY <1>5 DEF Clone
  <2>2. temp_len \in Nat \ {0} /\ HAVOC_BLK_XL \in Nat \ {0}
    <3>1. HAVOC_BLK \in Seq(Nat \ {0}) /\ HAVOC_BLK # <<>>
      BY FuzzOneAssumption
    <3>2. Len(HAVOC_BLK) \in Nat \ {0}
      BY <3>1, EmptySeq
    <3>3. Len(HAVOC_BLK) \in 1..Len(HAVOC_BLK)
      BY <3>2
    <3> QED BY <1>2, <3>1, <3>3, ElementOfSeq DEF HAVOC_BLK_XL, Last
  <2>3. clone_len \in Nat /\ clone_len <= HAVOC_BLK_XL
    <3>1. clone_len \in 1..temp_len \union 1..HAVOC_BLK_XL /\ clone_len <= HAVOC_BLK_XL
      BY <2>2, BlockLength
    <3> QED BY <2>2, <3>1
  <2>4. temp_len + clone_len \in 1..MAX_FILE /\ temp_len + clone_len \in Nat
    BY <1>2, <2>1, <2>2, <2>3
  <2> QED BY <2>1, <2>4, TweakedKeeps
<1>6. CASE InsertExtra
  <2>1. PICK token \in {extras[n] : n \in DOMAIN extras}
                         \union {a_extras[n].data : n \in DOMAIN a_extras} :
          /\ temp_len + Len(token) < MAX_FILE
          /\ Tweaked(Random(temp_len + Len(token)), temp_len + Len(token))
    BY <1>6 DEF InsertExtra
  <2>2. token \in Seq(Bytes)
    <3>1. extras \in Seq(Seq(Bytes)) /\ a_extras \in Seq(Entries)
      BY FuzzOneAssumption DEF BufInv, TokensSorted, Bytes
    <3>2. \A n \in DOMAIN extras : extras[n] \in Seq(Bytes)
      BY <3>1, LenProperties, ElementOfSeq
    <3>3. \A n \in DOMAIN a_extras : a_extras[n] \in Entries
      BY <3>1, LenProperties, ElementOfSeq
    <3> QED BY <3>2, <3>3 DEF Entries
  <2>3. Len(token) \in Nat
    BY <2>2, LenProperties
  <2>4. temp_len + Len(token) \in 1..MAX_FILE /\ temp_len + Len(token) \in Nat
    BY <1>2, <2>1, <2>3
  <2> QED BY <2>1, <2>4, TweakedKeeps
<1> QED BY <1>3, <1>4, <1>5, <1>6 DEF Tweaks

\* The run takes the tweaks back: the buffer is the case again, and no shorter.
LEMMA HavocRunKeeps == ASSUME BufInv, HavocRun PROVE BufInv'
<1>1. /\ pc = "tweak" /\ j = 0 /\ pc' = "havoc_loop"
      /\ out_buf' = Restored /\ temp_len' = Len(in_buf)
      /\ UNCHANGED <<in_buf, j, last_len, tried, a_extras>>
  BY DEF HavocRun, tokens
<1> DEFINE size == IF temp_len < Len(in_buf) THEN Len(in_buf) ELSE Len(out_buf)
<1>2. /\ in_buf \in Seq(Cells) /\ out_buf \in Seq(Cells)
      /\ temp_len \in Nat /\ Len(out_buf) >= temp_len /\ Len(out_buf) \in Nat
      /\ Len(in_buf) \in Nat /\ last_len = 0
  <2>1. in_buf \in Seq(Cells) /\ out_buf \in Seq(Cells)
    BY BytesInBuffer DEF BufInv, BufferTypes
  <2>2. last_len = 0
    BY <1>1 DEF BufInv, Overlays, InOver
  <2>3. temp_len \in 1..MAX_FILE /\ Len(out_buf) >= temp_len
    BY <1>1 DEF BufInv, BufferTypes
  <2> QED BY <2>1, <2>2, <2>3, LenProperties
<1>3. size \in Nat /\ size >= Len(in_buf)
  BY <1>2
<1>4. Restored = [p \in 1..size |-> IF p <= Len(in_buf) THEN in_buf[p] ELSE out_buf[p]]
  BY DEF Restored
<1>5. ASSUME NEW p \in 1..size
      PROVE  (IF p <= Len(in_buf) THEN in_buf[p] ELSE out_buf[p]) \in Cells
  <2>1. CASE p <= Len(in_buf)
    <3>1. p \in 1..Len(in_buf)
      BY <1>2, <1>3, <2>1
    <3> QED BY <1>2, <2>1, <3>1, ElementOfSeq
  <2>2. CASE ~(p <= Len(in_buf))
    <3>1. p \in 1..Len(out_buf)
      BY <1>2, <2>2
    <3> QED BY <1>2, <2>2, <3>1, ElementOfSeq
  <2> QED BY <2>1, <2>2
<1> HIDE DEF size
<1>6. Restored \in [1..size -> Cells]
  BY <1>4, <1>5
<1>7. Restored \in Seq(Cells) /\ Len(Restored) = size
  BY <1>3, <1>6, FunctionIsSeq
<1>8. \A p \in 1..Len(in_buf) : Restored[p] = in_buf[p]
  <2>1. \A p \in 1..Len(in_buf) : p \in 1..size /\ p <= Len(in_buf)
    BY <1>2, <1>3
  <2> QED BY <1>4, <2>1
<1>9. BufferTypes'
  BY <1>1, <1>7 DEF BufInv, BufferTypes
<1>10. OnlyTokenOver' /\ Overlays'
  BY <1>1, <1>2, <1>3, <1>7, <1>8 DEF OnlyTokenOver, Overlays, InOver
<1>11. TokensSorted' /\ TriedFit'
  BY <1>1, NoCollecting DEF BufInv, TriedFit
<1> QED BY <1>9, <1>10, <1>11 DEF BufInv

LEMMA SpliceKeeps == ASSUME BufInv, LengthInv, Splice PROVE BufInv'
<1>1. PICK target \in {t \in Others : Suits(t)} :
        /\ pc = "splice" /\ pc' = "havoc"
        /\ \E split_at \in Min(locate_diffs(target))..Max(locate_diffs(target)) - 1 :
             in_buf' = SubSeq(entry, 1, split_at)
                         \o SubSeq(target, split_at + 1, Len(target))
        /\ out_buf' = in_buf'
        /\ UNCHANGED <<temp_len, j, last_len, tried, a_extras>>
  BY DEF Splice, loops, tokens
<1>2. /\ entry \in Seq(Bytes) /\ target \in Seq(Bytes) /\ Len(target) \in 1..MAX_FILE
      /\ Suits(target)
  BY FuzzOneAssumption DEF LengthInv, Bytes
<1>3. PICK split_at \in Min(locate_diffs(target))..Max(locate_diffs(target)) - 1 :
        in_buf' = SubSeq(entry, 1, split_at) \o SubSeq(target, split_at + 1, Len(target))
  BY <1>1
<1>4. in_buf' \in Seq(Bytes) /\ Len(in_buf') = Len(target)
  BY <1>2, <1>3, SpliceLength
<1>5. out_buf' \in Seq(Cells) /\ Len(out_buf') \in Nat
  BY <1>1, <1>4, BytesInBuffer, LenProperties
<1>6. BufferTypes'
  BY <1>1, <1>2, <1>4, <1>5 DEF BufferTypes
<1>7. OnlyTokenOver'
  BY <1>1, <1>5 DEF OnlyTokenOver
<1>8. Overlays' /\ TokensSorted' /\ TriedFit'
  BY <1>1, NoCollecting DEF BufInv, Overlays, InOver, TriedFit
<1> QED BY <1>6, <1>7, <1>8 DEF BufInv

-----------------------------------------------------------------------------

LEMMA BufKept == LengthInv /\ BufInv /\ [Next]_vars => BufInv'
<1> SUFFICES ASSUME LengthInv, BufInv, [Next]_vars PROVE BufInv'
  OBVIOUS
<1>1. CASE Trims \/ UpdateChecksum \/ Score
  BY <1>1, TrimsAside, ScoreKeepsBuffers
<1>2. CASE Deterministic
  BY <1>2, Flip1KeepsBuffers, FlipsInPlace, StagesInPlace, OverKeeps, OverNextKeeps,
     OverDoneKeeps, InsertKeeps
  DEF Deterministic
<1>3. CASE Havoc
  BY <1>3, FlipsInPlace, StackKeeps, TweaksKeep, HavocRunKeeps, OthersAside DEF Havoc
<1>4. CASE Splices \/ abandon_entry
  BY <1>4, OthersAside, SpliceKeeps DEF Splices
<1>5. CASE UNCHANGED vars
  BY <1>5 DEF vars, entry_vars, buffers, loops, tokens, BufInv, BufferTypes, OnlyTokenOver,
              Overlays, TokensSorted, TriedFit, InOver, Dict, Best, ByLength
<1> QED BY <1>1, <1>2, <1>3, <1>4, <1>5 DEF Next, Stays

LEMMA BufInit == Init => LengthInv /\ BufInv
<1> SUFFICES ASSUME Init PROVE LengthInv /\ BufInv
  OBVIOUS
<1>1. /\ pc = "trim" /\ start \in Starts /\ entry = start.case /\ in_buf = start.case
      /\ out_buf = <<>> /\ j = 0 /\ last_len = 0 /\ tried = {} /\ a_collect = <<>>
      /\ a_extras = start.tokens
  BY DEF Init
<1>2. start.case \in Seq(Bytes) /\ Len(start.case) \in 1..MAX_FILE
  BY <1>1, FuzzOneAssumption DEF Bytes
<1>3. <<>> \in Seq(Cells) /\ a_extras \in Seq(Entries) /\ ByLength(Best(a_extras))
  BY <1>1, EmptySeq, FuzzOneAssumption DEF Entries, Bytes
<1>4. LengthInv
  BY <1>1, <1>2 DEF LengthInv, Bytes
<1> QED BY <1>1, <1>2, <1>3, <1>4
        DEF BufInv, BufferTypes, OnlyTokenOver, Overlays, TokensSorted, TriedFit, InOver, Aside

LEMMA BufAlways == Spec => []BufInv
BY BufInit, LengthKept, BufKept, PTL DEF Spec

\* Every stage, and every round of havoc, starts with the case in out_buf: whichever
\* tokens were written over it, and whatever the tweaks did to its contents and size.
THEOREM BuffersAreRestored == Spec => []BufferRestored
<1>1. BufInv => BufferRestored
  <2> SUFFICES ASSUME BufInv, pc \notin Aside \union {"tweak"}, j = 0
               PROVE  /\ Len(out_buf) >= Len(in_buf)
                      /\ SubSeq(out_buf, 1, Len(in_buf)) = in_buf
    BY DEF BufferRestored, Aside
  <2>1. /\ in_buf \in Seq(Cells) /\ out_buf \in Seq(Cells)
        /\ Len(in_buf) \in Nat /\ Len(out_buf) \in Nat /\ Len(out_buf) >= Len(in_buf)
    BY BytesInBuffer, LenProperties DEF BufInv, BufferTypes, OnlyTokenOver
  <2>2. \A p \in 1..Len(in_buf) : out_buf[p] = in_buf[p]
    <3>1. CASE InOver
      <4>1. last_len = 0 /\ i \in Nat
        BY <2>1, <3>1, WhileOver
      <4>2. i + 1..i + last_len = {}
        BY <4>1
      <4> QED BY <3>1, <4>2, WhileOver
    <3>2. CASE ~InOver
      BY <3>2 DEF BufInv, OnlyTokenOver
    <3> QED BY <3>1, <3>2
  <2> DEFINE front == SubSeq(out_buf, 0 + 1, Len(in_buf))
  <2>3. /\ front \in Seq(Cells) /\ Len(front) = Len(in_buf)
        /\ \A m \in 1..Len(in_buf) : front[m] = out_buf[m]
    <3>1. Len(in_buf) \in 0..Len(out_buf) /\ Len(in_buf) - 0 = Len(in_buf)
      BY <2>1
    <3>2. /\ front \in Seq(Cells) /\ Len(front) = Len(in_buf) - 0
          /\ \A m \in 1..Len(in_buf) - 0 : front[m] = out_buf[0 + m]
      BY <2>1, <3>1, PartOf
    <3> HIDE DEF front
    <3> QED BY <3>1, <3>2
  <2> HIDE DEF front
  <2>4. front = in_buf
    BY <2>1, <2>2, <2>3, SeqEqual
  <2>5. front = SubSeq(out_buf, 1, Len(in_buf))
    BY DEF front
  <2> QED BY <2>1, <2>4, <2>5
<1> QED BY <1>1, BufAlways, PTL

\* No run, deterministic or random, is given an empty case or one longer than MAX_FILE:
\* each length is measured before it is made.
THEOREM AllCasesFit == Spec => []CasesFit
<1>1. BufInv => CasesFit
  BY DEF BufInv, BufferTypes, TriedFit, CasesFit
<1> QED BY <1>1, BufAlways, PTL

-----------------------------------------------------------------------------
(* Bytes, and words of a buffer.                                            *)

\* A byte is the sum of its bits.
LEMMA SumOfBits ==
  ASSUME NEW b \in Bytes
  PROVE  /\ \A n \in 0..7 : Bit(b, n) \in {0, 1}
         /\ b = Bit(b, 0) + 2 * Bit(b, 1) + 4 * Bit(b, 2) + 8 * Bit(b, 3) + 16 * Bit(b, 4)
                + 32 * Bit(b, 5) + 64 * Bit(b, 6) + 128 * Bit(b, 7)
<1>1. /\ Bit(b, 0) = b % 2 /\ Bit(b, 1) = (b \div 2) % 2
      /\ Bit(b, 2) = (b \div 4) % 2 /\ Bit(b, 3) = (b \div 8) % 2
      /\ Bit(b, 4) = (b \div 16) % 2 /\ Bit(b, 5) = (b \div 32) % 2
      /\ Bit(b, 6) = (b \div 64) % 2 /\ Bit(b, 7) = (b \div 128) % 2
  BY DEF Bit, Bytes
<1>2. \A n \in 0..7 : Bit(b, n) \in {0, 1}
  <2> SUFFICES ASSUME NEW n \in 0..7 PROVE Bit(b, n) \in {0, 1}
    OBVIOUS
  <2> QED BY <1>1 DEF Bytes
<1>3. b \in Nat /\ b < 256
  BY DEF Bytes
<1>4. \A m \in Nat : m = (m % 2) + 2 * (m \div 2) /\ m \div 2 \in Nat
  OBVIOUS
<1>5. /\ b \div 4 = (b \div 2) \div 2 /\ b \div 8 = (b \div 4) \div 2
      /\ b \div 16 = (b \div 8) \div 2 /\ b \div 32 = (b \div 16) \div 2
      /\ b \div 64 = (b \div 32) \div 2 /\ b \div 128 = (b \div 64) \div 2
      /\ b \div 128 < 2 /\ b \div 128 \in Nat
  BY <1>3
<1>6. b = (b % 2) + 2 * ((b \div 2) % 2) + 4 * ((b \div 4) % 2) + 8 * ((b \div 8) % 2)
          + 16 * ((b \div 16) % 2) + 32 * ((b \div 32) % 2) + 64 * ((b \div 64) % 2)
          + 128 * ((b \div 128) % 2)
  BY <1>3, <1>5
<1> QED BY <1>1, <1>2, <1>6

\* Flipping the bits in which two bytes differ turns one into the other.
LEMMA FlippedByte ==
  ASSUME NEW a \in Bytes, NEW b \in Bytes, NEW S,
         \A n \in 0..7 : n \in S <=> Bit(a, n) # Bit(b, n)
  PROVE  FlipByte(a, S) = b
<1> DEFINE Value(n) == IF n \in S THEN 2^n - Bit(a, n) * 2^n ELSE Bit(a, n) * 2^n
<1>1. \A n \in 0..7 : Bit(a, n) \in {0, 1} /\ Bit(b, n) \in {0, 1}
  BY SumOfBits
<1>2. \A n \in 0..7 : 2^n \in Nat
  <2> DEFINE E(n) == 2^n
  <2>1. E(0) = 1 /\ E(1) = 2 /\ E(2) = 4 /\ E(3) = 8 /\ E(4) = 16 /\ E(5) = 32
        /\ E(6) = 64 /\ E(7) = 128
    OBVIOUS
  <2>2. \A n : 2^n = E(n)
    OBVIOUS
  <2> HIDE DEF E
  <2> QED BY <2>1, <2>2
<1>3. ASSUME NEW n \in 0..7 PROVE Value(n) = Bit(b, n) * 2^n
  <2>1. Bit(a, n) \in {0, 1} /\ Bit(b, n) \in {0, 1} /\ (n \in S <=> Bit(a, n) # Bit(b, n))
    BY <1>1
  <2>2. 2^n - 0 * 2^n = 1 * 2^n /\ 2^n - 1 * 2^n = 0 * 2^n
    BY <1>2
  <2> QED BY <2>1, <2>2
<1>4. FlipByte(a, S) = Value(0) + Value(1) + Value(2) + Value(3) + Value(4) + Value(5)
                       + Value(6) + Value(7)
  BY DEF FlipByte
<1>5. /\ Value(0) = Bit(b, 0) * 2^0 /\ Value(1) = Bit(b, 1) * 2^1
      /\ Value(2) = Bit(b, 2) * 2^2 /\ Value(3) = Bit(b, 3) * 2^3
      /\ Value(4) = Bit(b, 4) * 2^4 /\ Value(5) = Bit(b, 5) * 2^5
      /\ Value(6) = Bit(b, 6) * 2^6 /\ Value(7) = Bit(b, 7) * 2^7
  BY <1>3
<1> HIDE DEF Value
<1>6. /\ Value(0) = Bit(b, 0) /\ Value(1) = 2 * Bit(b, 1) /\ Value(2) = 4 * Bit(b, 2)
      /\ Value(3) = 8 * Bit(b, 3) /\ Value(4) = 16 * Bit(b, 4) /\ Value(5) = 32 * Bit(b, 5)
      /\ Value(6) = 64 * Bit(b, 6) /\ Value(7) = 128 * Bit(b, 7)
  BY <1>1, <1>5
<1> QED BY <1>4, <1>6, SumOfBits

\* The words of n bytes; at pos a buffer has one if it is long enough.
WordsOf(n) == [1..n -> Bytes]
Inside(buf, pos, n) == pos \in Nat /\ n \in Nat \ {0} /\ pos + n <= Len(buf)

\* A word read from a buffer.
LEMMA WordAt ==
  ASSUME NEW buf \in Seq(Bytes), NEW pos, NEW n, Inside(buf, pos, n)
  PROVE  /\ Word(buf, pos, n) = [k \in 1..n |-> buf[pos + k]]
         /\ Word(buf, pos, n) \in WordsOf(n) /\ Len(Word(buf, pos, n)) = n
<1> DEFINE w == SubSeq(buf, pos + 1, pos + n)
<1>1. pos \in Nat /\ n \in Nat /\ n > 0 /\ pos + n <= Len(buf) /\ Len(buf) \in Nat
  BY LenProperties DEF Inside
<1>2. \A m \in pos + 1..pos + n : buf[m] \in Bytes
  BY <1>1, ElementOfSeq
<1>3. /\ w \in Seq(Bytes)
      /\ Len(w) = IF pos + 1 <= pos + n THEN pos + n - (pos + 1) + 1 ELSE 0
      /\ \A k \in 1..pos + n - (pos + 1) + 1 : w[k] = buf[pos + 1 + k - 1]
  BY <1>1, <1>2, SubSeqProperties
<1>4. Len(w) = n /\ \A k \in 1..n : w[k] = buf[pos + k]
  <2> HIDE DEF w
  <2>1. pos + n - (pos + 1) + 1 = n /\ pos + 1 <= pos + n
    BY <1>1
  <2>2. \A k \in 1..n : pos + 1 + k - 1 = pos + k
    BY <1>1
  <2> QED BY <1>3, <2>1, <2>2
<1>5. DOMAIN w = 1..n /\ w = [k \in 1..Len(w) |-> w[k]]
  BY <1>3, <1>4, LenProperties
<1> HIDE DEF w
<1>6. w = [k \in 1..n |-> buf[pos + k]]
  BY <1>4, <1>5
<1>7. w \in [1..n -> Bytes]
  BY <1>3, <1>4, <1>5, ElementOfSeq
<1> QED BY <1>4, <1>6, <1>7 DEF w, Word, WordsOf

\* What a buffer is after a word was written.
Written(buf, pos, n, w) ==
  /\ Len(w) = n /\ Put(buf, pos, w) \in Seq(Bytes) /\ Len(Put(buf, pos, w)) = Len(buf)
  /\ Put(buf, pos, w) =
       [p \in 1..Len(buf) |-> IF p \in pos + 1..pos + n THEN w[p - pos] ELSE buf[p]]

\* A word written into a buffer, which keeps its length.
LEMMA PutAt ==
  ASSUME NEW buf \in Seq(Bytes), NEW pos, NEW n, Inside(buf, pos, n), NEW w, w \in WordsOf(n)
  PROVE  Written(buf, pos, n, w)
<1> DEFINE L == Len(buf)
<1>1. pos \in Nat /\ n \in Nat /\ n > 0 /\ pos + n <= L /\ L \in Nat
  BY LenProperties DEF Inside
<1>2. w \in [1..n -> Bytes]
  BY DEF WordsOf
<1>3. w \in Seq(Bytes) /\ Len(w) = n
  BY <1>1, <1>2, FunctionIsSeq
<1>4. Put(buf, pos, w) = [p \in 1..L |-> IF p \in pos + 1..pos + n THEN w[p - pos] ELSE buf[p]]
  BY <1>3 DEF Put
<1> HIDE DEF L
<1>5. ASSUME NEW p \in 1..L
      PROVE  (IF p \in pos + 1..pos + n THEN w[p - pos] ELSE buf[p]) \in Bytes
  <2>1. p \in pos + 1..pos + n => p - pos \in 1..n
    BY <1>1
  <2>2. buf[p] \in Bytes
    BY ElementOfSeq DEF L
  <2> QED BY <1>2, <2>1, <2>2
<1>6. Put(buf, pos, w) \in [1..L -> Bytes]
  BY <1>4, <1>5
<1>7. Put(buf, pos, w) \in Seq(Bytes) /\ Len(Put(buf, pos, w)) = L
  BY <1>1, <1>6, FunctionIsSeq
<1> QED BY <1>3, <1>4, <1>7 DEF L, Written

\* The bits of a buffer, numbered within their bytes.
LEMMA BitOfWord ==
  ASSUME NEW n \in Nat, NEW old \in WordsOf(n), NEW new \in WordsOf(n),
         NEW k \in 1..n, NEW b \in 0..7
  PROVE  8 * (k - 1) + b \in Changed(old, new) <=> Bit(old[k], b) # Bit(new[k], b)
<1> DEFINE m == 8 * (k - 1) + b
<1>1. Len(old) = n
  BY FunctionIsSeq DEF WordsOf
<1>2. m \in 0..8 * n - 1 /\ m \div 8 + 1 = k /\ m % 8 = b
  OBVIOUS
<1> HIDE DEF m
<1> QED BY <1>1, <1>2 DEF m, Changed

\* A flip visits the bits that change when a word is replaced.
Visits(buf, pos, n, new, from, bits) ==
  /\ \A k \in 1..n : \A b \in 0..7 :
       8 * (k - 1) + b \in Changed(Word(buf, pos, n), new)
         <=> 8 * (pos + k - 1) + 7 - b \in from..from + bits - 1
  /\ \A p \in 1..Len(buf) : \A b \in 0..7 :
       8 * (p - 1) + 7 - b \in from..from + bits - 1 => p \in pos + 1..pos + n

\* A flip of the bits in which a word and its replacement differ replaces it.
LEMMA FlipIsPut ==
  ASSUME NEW buf \in Seq(Bytes), NEW pos, NEW n, Inside(buf, pos, n), NEW new \in WordsOf(n),
         NEW from, NEW bits, Visits(buf, pos, n, new, from, bits)
  PROVE  Flip(buf, from, bits) = Put(buf, pos, new)
<1> DEFINE L == Len(buf)
           Flipped(p) == {b \in 0..7 : 8 * (p - 1) + 7 - b \in from..from + bits - 1}
<1>1. pos \in Nat /\ n \in Nat /\ n > 0 /\ pos + n <= L /\ L \in Nat
  BY LenProperties DEF Inside
<1>2. Flip(buf, from, bits) = [p \in 1..L |-> FlipByte(buf[p], Flipped(p))]
  BY Zenon DEF Flip
<1>3. Put(buf, pos, new) =
        [p \in 1..L |-> IF p \in pos + 1..pos + n THEN new[p - pos] ELSE buf[p]]
  BY PutAt DEF Written
<1>4. \A p \in 1..L : buf[p] \in Bytes
  BY ElementOfSeq
<1>5. ASSUME NEW p \in 1..L, p \in pos + 1..pos + n
      PROVE  FlipByte(buf[p], Flipped(p)) = new[p - pos]
  <2>1. PICK k \in 1..n : p = pos + k /\ p - pos = k
    <3>1. p - pos \in 1..n /\ p = pos + (p - pos)
      BY <1>1, <1>5
    <3> QED BY <3>1
  <2>2. Word(buf, pos, n)[k] = buf[p] /\ Word(buf, pos, n) \in WordsOf(n)
    BY <2>1, WordAt
  <2>3. new[k] \in Bytes
    BY DEF WordsOf
  <2>4. ASSUME NEW b \in 0..7 PROVE b \in Flipped(p) <=> Bit(buf[p], b) # Bit(new[k], b)
    <3> USE DEF Visits
    <3>1. 8 * (k - 1) + b \in Changed(Word(buf, pos, n), new) <=> Bit(buf[p], b) # Bit(new[k], b)
      <4> DEFINE old == Word(buf, pos, n)
      <4>1. old \in WordsOf(n) /\ old[k] = buf[p]
        BY <2>2
      <4> HIDE DEF old
      <4>2. 8 * (k - 1) + b \in Changed(old, new) <=> Bit(old[k], b) # Bit(new[k], b)
        BY <1>1, <4>1, BitOfWord
      <4> QED BY <4>1, <4>2 DEF old
    <3>2. 8 * (p - 1) + 7 - b = 8 * (pos + k - 1) + 7 - b
      BY <1>1, <2>1
    <3> QED BY <3>1, <3>2
  <2> HIDE DEF Flipped
  <2>5. FlipByte(buf[p], Flipped(p)) = new[k]
    BY <1>4, <2>3, <2>4, FlippedByte
  <2> QED BY <2>1, <2>5
<1>6. ASSUME NEW p \in 1..L, p \notin pos + 1..pos + n
      PROVE  FlipByte(buf[p], Flipped(p)) = buf[p]
  <2>1. \A b \in 0..7 : b \notin Flipped(p)
    BY <1>6 DEF Visits
  <2> HIDE DEF Flipped
  <2> QED BY <1>4, <2>1, FlippedByte
<1> HIDE DEF L, Flipped
<1> QED BY <1>2, <1>3, <1>5, <1>6

-----------------------------------------------------------------------------
(* could_be_bitflip().                                                      *)

\* The flips, of bits and of bytes.
IsFlip(buf, v) ==
  \E n \in {1, 2, 4} :
    v \in FlipBits(buf, n) \/ \E pos \in 0..Len(buf) - n : v \in FlipBytes(buf, pos, n)

\* The variants that the stages try, and those that NothingUntried asks for.
Reached(buf, v) ==
  \/ IsFlip(buf, v)
  \/ \E n \in {1, 2, 4} : \E pos \in 0..Len(buf) - n :
       v \in Arith(buf, pos, n) \/ v \in Interest(buf, pos, n)
Covered(buf, v) == v = buf \/ Reached(buf, v) \/ Straddles(buf, v)

\* Words without a bit between them are equal.
LEMMA SameBits ==
  ASSUME NEW n \in Nat, NEW old \in WordsOf(n), NEW new \in WordsOf(n), Changed(old, new) = {}
  PROVE  old = new
<1>1. ASSUME NEW k \in 1..n PROVE old[k] = new[k]
  <2>1. old[k] \in Bytes /\ new[k] \in Bytes
    BY DEF WordsOf
  <2>2. \A b \in 0..7 : Bit(old[k], b) = Bit(new[k], b)
    BY BitOfWord
  <2>3. FlipByte(old[k], {}) = new[k] /\ FlipByte(old[k], {}) = old[k]
    BY <2>1, <2>2, FlippedByte
  <2> QED BY <2>3
<1> QED BY <1>1 DEF WordsOf

\* A word put where it was read changes nothing.
LEMMA PutBack ==
  ASSUME NEW buf \in Seq(Bytes), NEW pos, NEW n, Inside(buf, pos, n)
  PROVE  Put(buf, pos, Word(buf, pos, n)) = buf
<1> DEFINE L == Len(buf)
           w == Word(buf, pos, n)
<1>1. pos \in Nat /\ n \in Nat /\ pos + n <= L /\ L \in Nat
  BY LenProperties DEF Inside
<1>2. w \in WordsOf(n) /\ w = [k \in 1..n |-> buf[pos + k]]
  BY WordAt
<1> HIDE DEF w
<1>3. Put(buf, pos, w) = [p \in 1..L |-> IF p \in pos + 1..pos + n THEN w[p - pos] ELSE buf[p]]
  <2>1. w \in WordsOf(n)
    BY <1>2
  <2> QED BY <2>1, PutAt DEF Written
<1>4. ASSUME NEW p \in 1..L, p \in pos + 1..pos + n PROVE w[p - pos] = buf[p]
  <2>1. p - pos \in 1..n /\ pos + (p - pos) = p
    BY <1>1, <1>4
  <2> QED BY <1>2, <2>1
<1>5. buf = [p \in 1..L |-> buf[p]]
  BY LenProperties
<1> HIDE DEF L
<1>6. Put(buf, pos, w) = [p \in 1..L |-> buf[p]]
  BY <1>3, <1>4
<1> QED BY <1>5, <1>6 DEF w

\* What changes of a buffer when a word of it is replaced.
LEMMA ChangedByPut ==
  ASSUME NEW buf \in Seq(Bytes), NEW pos, NEW n, Inside(buf, pos, n), NEW new \in WordsOf(n)
  PROVE  Changed(buf, Put(buf, pos, new)) = {8 * pos + m : m \in Changed(Word(buf, pos, n), new)}
<1> DEFINE L == Len(buf)
           old == Word(buf, pos, n)
           put == Put(buf, pos, new)
<1>1. pos \in Nat /\ n \in Nat /\ n > 0 /\ pos + n <= L /\ L \in Nat
  BY LenProperties DEF Inside
<1>2. old = [k \in 1..n |-> buf[pos + k]] /\ Len(old) = n
  BY WordAt
<1>3. put = [p \in 1..L |-> IF p \in pos + 1..pos + n THEN new[p - pos] ELSE buf[p]]
  BY PutAt DEF Written
<1>4. Changed(buf, put) =
        {m \in 0..8 * L - 1 : Bit(buf[m \div 8 + 1], m % 8) # Bit(put[m \div 8 + 1], m % 8)}
  BY DEF Changed
<1>5. Changed(old, new) =
        {m \in 0..8 * n - 1 : Bit(old[m \div 8 + 1], m % 8) # Bit(new[m \div 8 + 1], m % 8)}
  BY <1>2 DEF Changed
<1> HIDE DEF L, old, put
<1>6. ASSUME NEW m \in Changed(old, new) PROVE 8 * pos + m \in Changed(buf, put)
  <2> DEFINE k == m \div 8 + 1
             b == m % 8
             p == pos + k
  <2>1. m \in 0..8 * n - 1 /\ Bit(old[k], b) # Bit(new[k], b)
    BY <1>5
  <2>2. /\ 8 * pos + m \in 0..8 * L - 1 /\ (8 * pos + m) \div 8 + 1 = p /\ (8 * pos + m) % 8 = b
        /\ k \in 1..n /\ p \in 1..L /\ p \in pos + 1..pos + n /\ p - pos = k
    BY <1>1, <2>1
  <2> HIDE DEF k, b, p
  <2>3. old[k] = buf[p] /\ put[p] = new[k]
    BY <1>2, <1>3, <2>2 DEF p
  <2> QED BY <1>4, <2>1, <2>2, <2>3
<1>7. ASSUME NEW m \in Changed(buf, put)
      PROVE  m - 8 * pos \in Changed(old, new) /\ m = 8 * pos + (m - 8 * pos)
  <2> DEFINE p == m \div 8 + 1
             b == m % 8
             k == p - pos
  <2>1. m \in 0..8 * L - 1 /\ Bit(buf[p], b) # Bit(put[p], b) /\ p \in 1..L
    BY <1>1, <1>4
  <2>2. p \in pos + 1..pos + n
    BY <1>3, <2>1
  <2>3. /\ m - 8 * pos \in 0..8 * n - 1 /\ (m - 8 * pos) \div 8 + 1 = k /\ (m - 8 * pos) % 8 = b
        /\ k \in 1..n /\ pos + k = p /\ m = 8 * pos + (m - 8 * pos)
    BY <1>1, <2>1, <2>2
  <2> HIDE DEF p, b, k
  <2>4. old[k] = buf[p] /\ put[p] = new[k]
    BY <1>2, <1>3, <2>1, <2>2, <2>3 DEF k
  <2> QED BY <1>5, <2>1, <2>3, <2>4
<1> QED BY <1>6, <1>7 DEF old, put

\* Neighbouring bits of a word that are neither in one byte nor whole bytes straddle two.
LEMMA Crossing ==
  ASSUME NEW buf \in Seq(Bytes), NEW pos, NEW n, Inside(buf, pos, n), NEW new \in WordsOf(n),
         NEW sh \in Nat, NEW w \in {1, 2, 4},
         Changed(Word(buf, pos, n), new) = sh..sh + w - 1,
         (sh % 8) + w > 8
  PROVE  Straddles(buf, Put(buf, pos, new))
<1> DEFINE bits == Changed(buf, Put(buf, pos, new))
           at == 8 * pos + sh
<1>1. pos \in Nat /\ n \in Nat /\ w \in {2, 4}
  BY DEF Inside
<1>2. bits = {8 * pos + m : m \in sh..sh + w - 1}
  BY ChangedByPut
<1> HIDE DEF bits
<1>3. bits = at..at + w - 1
  <2>1. ASSUME NEW m \in at..at + w - 1 PROVE m \in bits
    <3>1. m - 8 * pos \in sh..sh + w - 1 /\ m = 8 * pos + (m - 8 * pos)
      BY <1>1, <2>1
    <3> QED BY <1>2, <3>1
  <2>2. ASSUME NEW m \in sh..sh + w - 1 PROVE 8 * pos + m \in at..at + w - 1
    BY <1>1
  <2> QED BY <1>2, <2>1, <2>2
<1>4. at \in bits /\ at + w - 1 \in bits /\ at \in Nat
  BY <1>1, <1>3
<1>5. Contiguous(bits, {2, 4})
  BY <1>1, <1>3, <1>4 DEF Contiguous
<1> DEFINE B == {m \div 8 : m \in bits}
           a == at \div 8
           b == (at + w - 1) \div 8
<1>6. a \in B /\ b \in B
  BY <1>4
<1>7. a # b
  BY <1>1
<1>8. Cardinality(B) > 1
  <2>1. B \subseteq 0..at + w /\ a..b \subseteq B /\ a \in Nat /\ b = a + 1
    <3>1. \A m \in at..at + w - 1 : m \div 8 \in 0..at + w
      BY <1>1, <1>4
    <3>2. a \in Nat /\ b = a + 1
      BY <1>1, <1>4
    <3>3. B \subseteq 0..at + w
      BY <1>3, <3>1
    <3> HIDE DEF a, b, B
    <3>4. \A m \in a..b : m = a \/ m = b
      BY <3>2
    <3> QED BY <1>6, <3>2, <3>3, <3>4
  <2> HIDE DEF B, a, b
  <2>2. 0..at + w \in SUBSET Nat /\ IsFiniteSet(0..at + w)
    BY <1>1, <1>4, FS_Interval
  <2>3. IsFiniteSet(B)
    BY <2>1, <2>2, FS_Subset
  <2>4. Cardinality(a..b) = 2
    BY <2>1, FS_Interval
  <2>5. Cardinality(a..b) <= Cardinality(B)
    BY <2>1, <2>3, FS_Subset
  <2>6. Cardinality(B) \in Nat
    BY <2>3, FS_CardinalityType
  <2> QED BY <2>4, <2>5, <2>6
<1> QED BY <1>5, <1>8 DEF Straddles, bits

\* One, two or four bits within a byte: a walking flip.
LEMMA WithinAByte ==
  ASSUME NEW buf \in Seq(Bytes), NEW pos, NEW n, Inside(buf, pos, n), NEW new \in WordsOf(n),
         NEW sh \in Nat, NEW w \in {1, 2, 4},
         Changed(Word(buf, pos, n), new) = sh..sh + w - 1, sh + w <= 8 * n,
         (sh % 8) + w <= 8
  PROVE  IsFlip(buf, Put(buf, pos, new))
<1> DEFINE q == sh \div 8
           s == sh % 8
           from == 8 * (pos + q) + 8 - s - w
<1>1. pos \in Nat /\ n \in Nat /\ pos + n <= Len(buf) /\ Len(buf) \in Nat
  BY LenProperties DEF Inside
<1>2. sh = 8 * q + s /\ s \in 0..7 /\ q \in 0..n - 1 /\ s + w <= 8
  BY <1>1
<1> HIDE DEF q, s
<1>3. from \in 0..8 * Len(buf) - w
  BY <1>1, <1>2
<1>4. ASSUME NEW k \in 1..n, NEW b \in 0..7
      PROVE  8 * (k - 1) + b \in sh..sh + w - 1
               <=> 8 * (pos + k - 1) + 7 - b \in from..from + w - 1
  <2>1. 8 * (k - 1) + b \in sh..sh + w - 1 => k - 1 = q
    BY <1>1, <1>2
  <2>2. 8 * (pos + k - 1) + 7 - b \in from..from + w - 1 => k - 1 = q
    BY <1>1, <1>2
  <2>3. CASE k - 1 = q
    BY <1>1, <1>2, <2>3
  <2> QED BY <2>1, <2>2, <2>3
<1>5. ASSUME NEW p \in 1..Len(buf), NEW b \in 0..7,
             8 * (p - 1) + 7 - b \in from..from + w - 1
      PROVE  p \in pos + 1..pos + n
  <2>1. p - 1 = pos + q
    BY <1>1, <1>2, <1>5
  <2> QED BY <1>1, <1>2, <2>1
<1> HIDE DEF from
<1>6. Flip(buf, from, w) = Put(buf, pos, new)
  <2>1. Visits(buf, pos, n, new, from, w)
    BY <1>4, <1>5 DEF Visits
  <2> QED BY <2>1, FlipIsPut
<1>7. Put(buf, pos, new) \in FlipBits(buf, w)
  BY <1>3, <1>6 DEF FlipBits
<1> QED BY <1>7 DEF IsFlip

\* Whole bytes: a walking byte, word or dword.
LEMMA WholeBytes ==
  ASSUME NEW buf \in Seq(Bytes), NEW pos, NEW n, Inside(buf, pos, n), NEW new \in WordsOf(n),
         NEW q \in Nat, NEW r \in {1, 2, 4},
         Changed(Word(buf, pos, n), new) = 8 * q..8 * q + 8 * r - 1, q + r <= n
  PROVE  IsFlip(buf, Put(buf, pos, new))
<1> DEFINE from == 8 * (pos + q)
           w == 8 * r
<1>1. pos \in Nat /\ n \in Nat /\ pos + n <= Len(buf) /\ Len(buf) \in Nat
  BY LenProperties DEF Inside
<1>2. pos + q \in 0..Len(buf) - r
  BY <1>1
<1>3. ASSUME NEW k \in 1..n, NEW b \in 0..7
      PROVE  8 * (k - 1) + b \in 8 * q..8 * q + 8 * r - 1
               <=> 8 * (pos + k - 1) + 7 - b \in from..from + w - 1
  BY <1>1
<1>4. ASSUME NEW p \in 1..Len(buf), NEW b \in 0..7,
             8 * (p - 1) + 7 - b \in from..from + w - 1
      PROVE  p \in pos + 1..pos + n
  BY <1>1, <1>4
<1> HIDE DEF from, w
<1>5. Flip(buf, from, w) = Put(buf, pos, new)
  <2>1. Visits(buf, pos, n, new, from, w)
    BY <1>3, <1>4 DEF Visits
  <2> QED BY <2>1, FlipIsPut
<1>6. Put(buf, pos, new) \in FlipBytes(buf, pos + q, r)
  BY <1>5 DEF FlipBytes, from, w
<1> QED BY <1>2, <1>6 DEF IsFlip

\* could_be_bitflip(): what it recognises a flip has tried, or straddles two bytes.
LEMMA FlipCovers ==
  ASSUME NEW buf \in Seq(Bytes), NEW pos, NEW n, Inside(buf, pos, n), NEW new \in WordsOf(n),
         could_be_bitflip(Word(buf, pos, n), new)
  PROVE  Covered(buf, Put(buf, pos, new))
<1> DEFINE old == Word(buf, pos, n)
           bits == Changed(old, new)
<1>1. old \in WordsOf(n) /\ Len(old) = n /\ n \in Nat
  BY WordAt DEF Inside
<1>2. bits \subseteq 0..8 * n - 1
  BY <1>1 DEF Changed
<1>3. CASE bits = {}
  <2>1. old = new
    BY <1>1, <1>3, SameBits
  <2> QED BY <2>1, PutBack DEF Covered
<1>4. CASE Contiguous(bits, {1, 2, 4})
  <2>1. PICK sh \in bits, w \in {1, 2, 4} : bits = sh..sh + w - 1
    BY <1>4 DEF Contiguous
  <2> HIDE DEF bits
  <2>2. sh \in Nat /\ sh + w - 1 \in bits
    BY <1>1, <1>2, <2>1
  <2>3. sh + w <= 8 * n
    BY <1>1, <1>2, <2>2
  <2>4. CASE (sh % 8) + w <= 8
    <3>1. IsFlip(buf, Put(buf, pos, new))
      BY <2>1, <2>2, <2>3, <2>4, WithinAByte DEF bits
    <3> QED BY <3>1 DEF Covered, Reached
  <2>5. CASE (sh % 8) + w > 8
    BY <2>1, <2>2, <2>5, Crossing DEF bits, Covered
  <2> QED BY <2>2, <2>4, <2>5
<1>5. CASE Least(bits) % 8 = 0 /\ Contiguous(bits, {8, 16, 32})
  <2>1. PICK sh \in bits, w \in {8, 16, 32} : bits = sh..sh + w - 1
    BY <1>5 DEF Contiguous
  <2> HIDE DEF bits
  <2>2. sh \in Nat /\ sh + w - 1 \in bits /\ \A m \in bits : sh <= m /\ m \in Nat
    <3>1. \A m \in bits : m \in Nat
      BY <1>1, <1>2
    <3>2. \A m \in sh..sh + w - 1 : sh <= m
      BY <2>1, <3>1
    <3>3. sh + w - 1 \in sh..sh + w - 1
      BY <2>1, <3>1
    <3> QED BY <2>1, <3>1, <3>2, <3>3
  <2>3. Least(bits) = sh
    <3>1. Least(bits) \in bits /\ \A m \in bits : Least(bits) <= m
      BY <2>2, Zenon DEF Least
    <3> QED BY <2>1, <2>2, <3>1
  <2>4. PICK r \in {1, 2, 4} : w = 8 * r
    OBVIOUS
  <2>5. sh = 8 * (sh \div 8) /\ sh \div 8 \in Nat
    BY <1>5, <2>2, <2>3
  <2>6. sh \div 8 + r <= n
    BY <1>1, <1>2, <2>2, <2>4, <2>5
  <2>7. bits = 8 * (sh \div 8)..8 * (sh \div 8) + 8 * r - 1
    BY <2>1, <2>4, <2>5
  <2>8. IsFlip(buf, Put(buf, pos, new))
    BY <2>5, <2>6, <2>7, WholeBytes DEF bits
  <2> QED BY <2>8 DEF Covered, Reached
<1> QED BY <1>3, <1>4, <1>5 DEF could_be_bitflip

-----------------------------------------------------------------------------
(* Sums, and what they carry.                                               *)

\* What an addition carries into each byte.
CarryOver(w, d) ==
  LET c1 == (w[1] + d) \div 256
      c2 == (w[2] + c1) \div 256
      c3 == (w[3] + c2) \div 256
      c4 == (w[4] + c3) \div 256
  IN <<d, c1, c2, c3, c4>>

\* A word has a byte at each place.
LEMMA BytesOfWord ==
  ASSUME NEW n \in Nat, NEW w \in WordsOf(n)
  PROVE  /\ w \in Seq(Bytes) /\ Len(w) = n
         /\ \A k \in 1..n : w[k] \in 0..255 /\ w[k] \in Int
<1>1. w \in [1..n -> Bytes]
  BY DEF WordsOf
<1>2. w \in Seq(Bytes) /\ Len(w) = n
  BY <1>1, FunctionIsSeq
<1>3. ASSUME NEW k \in 1..n PROVE w[k] \in 0..255 /\ w[k] \in Int
  <2>1. w[k] \in Bytes
    BY <1>1
  <2> QED BY <2>1 DEF Bytes
<1> QED BY <1>2, <1>3

\* A sum, byte by byte.
AddsUp(n, w, d) ==
  /\ Add(w, d) \in WordsOf(n)
  /\ \A k \in 1..n : /\ Add(w, d)[k] = (w[k] + CarryOver(w, d)[k]) % 256
                     /\ CarryOver(w, d)[k] \in Int

\* Each byte of a sum is its own plus what was carried into it.
LEMMA AddByBytes ==
  ASSUME NEW n, NEW w, NEW d, n \in 1..4, w \in WordsOf(n), d \in Int
  PROVE  AddsUp(n, w, d)
<1> DEFINE c == CarryOver(w, d)
           Step(f) == [k \in 0..Len(w) |-> IF k = 0 THEN d ELSE (w[k] + f[k - 1]) \div 256]
           carry == [k \in 0..n |-> c[k + 1]]
<1>1. Len(w) = n /\ \A k \in 1..n : w[k] \in Int
  <2>1. n \in Nat
    OBVIOUS
  <2> QED BY <2>1, BytesOfWord
<1>2. /\ c[1] = d /\ c[2] = (w[1] + d) \div 256 /\ c[3] = (w[2] + c[2]) \div 256
      /\ c[4] = (w[3] + c[3]) \div 256 /\ c[5] = (w[4] + c[4]) \div 256
  BY DEF CarryOver
<1> HIDE DEF c
<1>3. carry = [k \in 0..n |-> IF k = 0 THEN d ELSE (w[k] + carry[k - 1]) \div 256]
  <2> SUFFICES ASSUME NEW k \in 0..n
               PROVE  c[k + 1] = IF k = 0 THEN d ELSE (w[k] + carry[k - 1]) \div 256
    BY Zenon
  <2>1. k # 0 => k - 1 \in 0..n /\ carry[k - 1] = c[k]
    OBVIOUS
  <2> HIDE DEF carry
  <2> QED BY <1>2, <2>1
<1>4. \A k \in 1..n : c[k] \in Int
  <2>1. c[1] \in Int
    BY <1>2
  <2>2. n >= 2 => c[2] \in Int
    BY <1>1, <1>2, <2>1
  <2>3. n >= 3 => c[3] \in Int
    BY <1>1, <1>2, <2>2
  <2>4. n >= 4 => c[4] \in Int
    BY <1>1, <1>2, <2>3
  <2> QED BY <2>1, <2>2, <2>3, <2>4
<1> DEFINE chosen == CHOOSE f : f = Step(f)
<1>5. chosen = Step(chosen)
  <2>1. carry = Step(carry)
    BY <1>1, <1>3
  <2> HIDE DEF carry, Step
  <2> QED BY <2>1, Zenon
<1>6. Add(w, d) = [k \in 1..n |-> (w[k] + chosen[k - 1]) % 256]
  <2>1. Add(w, d) = [k \in 1..Len(w) |-> (w[k] + chosen[k - 1]) % 256]
    BY Zenon DEF Add
  <2> HIDE DEF chosen
  <2> QED BY <1>1, <2>1
<1> HIDE DEF chosen
<1>7. ASSUME NEW k \in 0..n PROVE chosen[k] = IF k = 0 THEN d ELSE (w[k] + chosen[k - 1]) \div 256
  BY <1>1, <1>5
<1>8. \A k \in 0..n - 1 : chosen[k] = c[k + 1]
  <2>1. chosen[0] = c[1]
    BY <1>2, <1>7
  <2>2. n >= 2 => chosen[1] = c[2]
    BY <1>2, <1>7, <2>1
  <2>3. n >= 3 => chosen[2] = c[3]
    BY <1>2, <1>7, <2>2
  <2>4. n >= 4 => chosen[3] = c[4]
    BY <1>2, <1>7, <2>3
  <2> QED BY <2>1, <2>2, <2>3, <2>4
<1>9. Add(w, d) = [k \in 1..n |-> (w[k] + c[k]) % 256]
  <2>1. \A k \in 1..n : k - 1 \in 0..n - 1 /\ chosen[k - 1] = c[k]
    BY <1>8
  <2> QED BY <1>6, <2>1
<1>10. \A k \in 1..n : (w[k] + c[k]) % 256 \in Bytes
  <2>1. \A x \in Int : x % 256 \in 0..255
    OBVIOUS
  <2>2. \A k \in 1..n : w[k] + c[k] \in Int
    BY <1>1, <1>4
  <2> QED BY <2>1, <2>2 DEF Bytes
<1>11. Add(w, d) \in WordsOf(n) /\ Len(Add(w, d)) = n
  <2>1. Add(w, d) \in [1..n -> Bytes]
    BY <1>9, <1>10
  <2>2. n \in Nat /\ Add(w, d) \in WordsOf(n)
    BY <2>1 DEF WordsOf
  <2> QED BY <2>2, BytesOfWord
<1> QED BY <1>4, <1>9, <1>11 DEF c, AddsUp

\* What the lower half of a word is worth, and the most it can be.
Worth(low, h) == low[1] + (IF h = 2 THEN 256 * low[2] ELSE 0)
Top(h) == IF h = 2 THEN 65535 ELSE 255

\* What is needed to fill the lower half of a word, or to empty it.
Fills(low, h, byte) ==
  /\ Worth(low, h) \in Nat
  /\ Add(low, (IF byte = 0 THEN 0 ELSE Top(h)) - Worth(low, h)) = [n \in 1..Len(low) |-> byte]

\* The sum that fills the lower half of a word, or empties it.
LEMMA Filled ==
  ASSUME NEW h \in {1, 2}, NEW low, low \in WordsOf(h), NEW byte \in {0, 255}
  PROVE  Fills(low, h, byte)
<1> DEFINE a == low[1]
           b == low[2]
           V == a + (IF h = 2 THEN 256 * b ELSE 0)
           x == (IF byte = 0 THEN 0 ELSE IF h = 2 THEN 65535 ELSE 255) - V
<1>1. a \in 0..255 /\ (h = 2 => b \in 0..255) /\ Len(low) = h
  BY BytesOfWord
<1> HIDE DEF a, b
<1>2. V \in Nat /\ x \in Int
  <2>1. CASE h = 1
    BY <1>1, <2>1
  <2>2. CASE h = 2
    BY <1>1, <2>2, SMTT(20)
  <2> QED BY <1>1, <2>1, <2>2, SMTT(20)
<1>3. (a + x) % 256 = byte /\ (h = 2 => (b + (a + x) \div 256) % 256 = byte)
  <2>1. CASE h = 1
    <3>1. a + x = byte
      BY <1>1, <2>1
    <3> HIDE DEF x
    <3> QED BY <2>1, <3>1
  <2>2. CASE h = 2
    <3>1. a + x = 256 * (byte - b) + byte
      BY <1>1, <2>2
    <3> HIDE DEF x
    <3>2. ASSUME NEW y \in Int, y = 256 * (byte - b) + byte
          PROVE  y % 256 = byte /\ y \div 256 = byte - b
      <4> DEFINE c == byte - b
      <4>1. c \in Int
        BY <1>1, <2>2
      <4> HIDE DEF c
      <4> QED BY <3>2, <4>1 DEF c
    <3>3. a + x \in Int
      BY <1>1, <1>2
    <3>4. (a + x) % 256 = byte /\ (a + x) \div 256 = byte - b
      BY <3>1, <3>2, <3>3
    <3> QED BY <1>1, <2>2, <3>4
  <2> QED BY <2>1, <2>2
<1> HIDE DEF x
<1>4. /\ Add(low, x) \in WordsOf(h)
      /\ \A k \in 1..h : Add(low, x)[k] = (low[k] + CarryOver(low, x)[k]) % 256
  <2>1. h \in 1..4 /\ x \in Int
    BY <1>2
  <2>2. AddsUp(h, low, x)
    BY <2>1, AddByBytes
  <2> QED BY <2>2 DEF AddsUp
<1>5. CarryOver(low, x)[1] = x /\ CarryOver(low, x)[2] = (a + x) \div 256
  BY DEF CarryOver, a
<1>6. \A k \in 1..h : (low[k] + CarryOver(low, x)[k]) % 256 = byte
  BY <1>3, <1>5 DEF a, b
<1>7. Add(low, x) = [k \in 1..Len(low) |-> byte]
  <2>1. \A k \in 1..h : Add(low, x)[k] = byte
    BY <1>4, <1>6
  <2> QED BY <1>1, <1>4, <2>1 DEF WordsOf
<1>8. V = Worth(low, h) /\ x = (IF byte = 0 THEN 0 ELSE Top(h)) - V
  BY DEF Worth, Top, a, b, x
<1> HIDE DEF V
<1> QED BY <1>2, <1>7, <1>8 DEF Fills

\* What leaves the lower half of a word.
LEMMA NoCarry ==
  ASSUME NEW h \in {1, 2}, NEW low \in WordsOf(h), NEW d \in Deltas, ~Carries(low, d)
  PROVE  CarryOver(low, d)[h + 1] = 0
<1> DEFINE a == low[1]
           b == low[2]
           V == Worth(low, h)
           T == Top(h)
           byte == IF d > 0 THEN 255 ELSE 0
           x == (IF byte = 0 THEN 0 ELSE T) - V
           all == [n \in 1..Len(low) |-> byte]
<1>1. a \in 0..255 /\ (h = 2 => b \in 0..255) /\ Len(low) = h
  BY BytesOfWord
<1>2. d \in -35..35 /\ d # 0 /\ byte \in {0, 255}
  BY DEF Deltas, ARITH_MAX
<1>3. V \in Nat /\ x \in Int /\ Add(low, x) = all
  <2> HIDE DEF byte
  <2>1. byte \in {0, 255}
    BY <1>2
  <2>2. Fills(low, h, byte)
    BY <2>1, Filled
  <2>3. V \in Nat /\ Add(low, x) = all
    BY <2>2, Zenon DEF Fills
  <2>4. T \in Nat
    BY DEF Top
  <2> QED BY <2>1, <2>3, <2>4
<1>8. V = a + (IF h = 2 THEN 256 * b ELSE 0) /\ T = IF h = 2 THEN 65535 ELSE 255
  BY DEF Worth, Top, a, b
<1> HIDE DEF a, b, V, T
<1>4. V <= T
  <2>1. CASE h = 1
    BY <1>1, <1>8, <2>1
  <2>2. CASE h = 2
    BY <1>1, <1>8, <2>2
  <2> QED BY <2>1, <2>2
<1>5. V + d >= 0 /\ V + d <= T
  <2> T \in Nat
    BY <1>8
  <2>1. CASE d > 0
    <3>0. x = T - V
      BY <2>1
    <3> HIDE DEF x
    <3>1. ~(x < d)
      <4> SUFFICES ASSUME x < d PROVE FALSE
        OBVIOUS
      <4>1. x + 1 \in 1..d /\ x + 1 - 1 = x
        BY <1>1, <1>2, <1>3, <1>4, <2>1, <3>0
      <4> HIDE DEF x, all
      <4>2. Add(low, (x + 1) - 1) = all
        BY <1>3, <4>1
      <4> QED BY <2>1, <4>1, <4>2 DEF Carries, all
    <3> QED BY <1>1, <1>2, <1>3, <1>4, <2>1, <3>0, <3>1
  <2>2. CASE d < 0
    <3>0. x = 0 - V
      BY <1>2, <2>2
    <3> HIDE DEF x
    <3>1. ~(V < -d)
      <4> SUFFICES ASSUME V < -d PROVE FALSE
        OBVIOUS
      <4>1. V + 1 \in 1..-d /\ 1 - (V + 1) = x /\ ~(d > 0)
        BY <1>1, <1>2, <1>3, <2>2, <3>0
      <4> HIDE DEF x, all
      <4>2. Add(low, 1 - (V + 1)) = all
        BY <1>3, <4>1
      <4> QED BY <4>1, <4>2 DEF Carries, all
    <3> QED BY <1>1, <1>2, <1>3, <1>4, <2>2, <3>1
  <2> QED BY <1>2, <2>1, <2>2
<1>6. CASE h = 1
  <2>1. CarryOver(low, d)[2] = (a + d) \div 256
    BY DEF CarryOver, a
  <2> QED BY <1>1, <1>2, <1>5, <1>6, <1>8, <2>1
<1>7. CASE h = 2
  <2>1. CarryOver(low, d)[3] = (b + (a + d) \div 256) \div 256
    BY DEF CarryOver, a, b
  <2>2. a + d + 256 * b >= 0 /\ a + d + 256 * b <= 65535
    BY <1>1, <1>2, <1>5, <1>7, <1>8
  <2> DEFINE q == (a + d) \div 256
  <2>3. /\ a + d \in Int /\ a \in 0..255 /\ b \in 0..255
        /\ q \in Int /\ 256 * q <= a + d /\ a + d < 256 * q + 256
    BY <1>1, <1>2, <1>7
  <2> HIDE DEF q
  <2>4. b + q \in 0..255
    BY <2>2, <2>3
  <2>5. (b + q) \div 256 = 0
    BY <2>4
  <2> QED BY <1>7, <2>1, <2>5 DEF q
<1> QED BY <1>6, <1>7

\* The lower half of a word.
LEMMA FrontOfWord ==
  ASSUME NEW n \in Nat, NEW w \in WordsOf(n), NEW h \in 1..n
  PROVE  /\ SubSeq(w, 1, h) \in WordsOf(h)
         /\ \A k \in 1..h : SubSeq(w, 1, h)[k] = w[k]
<1> DEFINE s == SubSeq(w, 1, h)
<1>1. w \in Seq(Bytes) /\ Len(w) = n
  BY BytesOfWord
<1>2. \A k \in 1..h : w[k] \in Bytes
  BY DEF WordsOf
<1>3. s \in Seq(Bytes) /\ Len(s) = h /\ \A k \in 1..h : s[k] = w[k]
  <2>1. /\ s \in Seq(Bytes) /\ Len(s) = IF 1 <= h THEN h - 1 + 1 ELSE 0
        /\ \A k \in 1..h - 1 + 1 : s[k] = w[1 + k - 1]
    BY <1>2, SubSeqProperties
  <2> HIDE DEF s
  <2>2. h - 1 + 1 = h /\ 1 <= h /\ \A k \in 1..h : 1 + k - 1 = k
    OBVIOUS
  <2> QED BY <2>1, <2>2
<1> HIDE DEF s
<1>4. s \in [1..h -> Bytes]
  <2>1. DOMAIN s = 1..h /\ s = [k \in 1..Len(s) |-> s[k]]
    BY <1>3, LenProperties
  <2> QED BY <1>2, <1>3, <2>1
<1> QED BY <1>3, <1>4 DEF s, WordsOf

\* Without a carry out of its lower half a word changes there alone.
HalfSum(h, s, low, d) ==
  /\ low \in WordsOf(h) /\ Add(low, d) \in WordsOf(h) /\ Add(s, d) \in WordsOf(2 * h)
  /\ \A k \in 1..h : low[k] = s[k]
  /\ \A k \in 1..2 * h : Add(s, d)[k] = IF k <= h THEN Add(low, d)[k] ELSE s[k]

\* A sum that does not carry is one of the lower half of the word.
LEMMA AddToHalf ==
  ASSUME NEW h \in {1, 2}, NEW s, s \in WordsOf(2 * h), NEW d \in Deltas,
         ~Carries(SubSeq(s, 1, h), d)
  PROVE  HalfSum(h, s, SubSeq(s, 1, h), d)
<1> DEFINE low == SubSeq(s, 1, h)
           c == CarryOver(s, d)
           e == CarryOver(low, d)
<1>1. low \in WordsOf(h) /\ \A k \in 1..h : low[k] = s[k]
  <2>1. 2 * h \in Nat /\ h \in 1..2 * h
    OBVIOUS
  <2> QED BY <2>1, FrontOfWord
<1> HIDE DEF low
<1>2. d \in Int /\ h \in 1..4 /\ 2 * h \in 1..4
  BY DEF Deltas, ARITH_MAX
<1>3. AddsUp(h, low, d) /\ AddsUp(2 * h, s, d)
  BY <1>1, <1>2, AddByBytes
<1>4. e[h + 1] = 0
  BY <1>1, NoCarry DEF low
<1>5. /\ c[1] = d /\ c[2] = (s[1] + d) \div 256 /\ c[3] = (s[2] + c[2]) \div 256
      /\ c[4] = (s[3] + c[3]) \div 256
      /\ e[1] = d /\ e[2] = (low[1] + d) \div 256 /\ e[3] = (low[2] + e[2]) \div 256
  BY DEF CarryOver
<1>6. \A k \in 1..2 * h : s[k] \in 0..255 /\ s[k] \in Int
  <2>1. 2 * h \in Nat
    OBVIOUS
  <2> QED BY <2>1, BytesOfWord
<1> HIDE DEF c, e
<1>7. ASSUME NEW k \in 1..2 * h
      PROVE  (s[k] + c[k]) % 256 = IF k <= h THEN (low[k] + e[k]) % 256 ELSE s[k]
  <2>1. CASE h = 1
    <3>1. c[1] = e[1] /\ c[2] = 0 /\ low[1] = s[1]
      BY <1>1, <1>4, <1>5, <2>1
    <3>2. (s[2] + 0) % 256 = s[2]
      BY <1>6, <2>1
    <3>3. k = 1 \/ k = 2
      BY <2>1
    <3> QED BY <2>1, <3>1, <3>2, <3>3
  <2>2. CASE h = 2
    <3>1. c[1] = e[1] /\ c[2] = e[2] /\ c[3] = 0 /\ low[1] = s[1] /\ low[2] = s[2]
      BY <1>1, <1>4, <1>5, <2>2
    <3>2. (s[3] + 0) \div 256 = 0 /\ (s[3] + 0) % 256 = s[3] /\ (s[4] + 0) % 256 = s[4]
      <4>1. s[3] \in 0..255 /\ s[4] \in 0..255
        BY <1>6, <2>2
      <4> QED BY <4>1
    <3>3. c[4] = 0
      BY <1>5, <3>1, <3>2
    <3>4. k = 1 \/ k = 2 \/ k = 3 \/ k = 4
      BY <2>2
    <3> QED BY <2>2, <3>1, <3>2, <3>3, <3>4
  <2> QED BY <2>1, <2>2
<1>8. ASSUME NEW k \in 1..2 * h PROVE Add(s, d)[k] = (s[k] + c[k]) % 256
  BY <1>3 DEF AddsUp, c
<1>9. ASSUME NEW k \in 1..h PROVE Add(low, d)[k] = (low[k] + e[k]) % 256
  BY <1>3 DEF AddsUp, e
<1>10. ASSUME NEW k \in 1..2 * h
       PROVE  Add(s, d)[k] = IF k <= h THEN Add(low, d)[k] ELSE s[k]
  <2>1. k <= h => k \in 1..h
    OBVIOUS
  <2> QED BY <1>7, <1>8, <1>9, <2>1
<1> QED BY <1>1, <1>3, <1>10 DEF HalfSum, AddsUp, low

\* SWAP16() and SWAP32() turn the bytes of a word around.
LEMMA Swapped ==
  ASSUME NEW n \in Nat, NEW w, w \in WordsOf(n)
  PROVE  /\ SWAP(w) \in WordsOf(n) /\ SWAP(SWAP(w)) = w
         /\ \A k \in 1..n : SWAP(w)[k] = w[n + 1 - k]
<1>1. ASSUME NEW v, v \in WordsOf(n)
      PROVE  SWAP(v) \in WordsOf(n) /\ \A k \in 1..n : SWAP(v)[k] = v[n + 1 - k]
  <2>1. Len(v) = n
    BY <1>1, BytesOfWord
  <2>2. SWAP(v) = [k \in 1..n |-> v[n - k + 1]]
    BY <2>1 DEF SWAP, Reverse
  <2>3. \A k \in 1..n : n - k + 1 = n + 1 - k /\ n - k + 1 \in 1..n
    OBVIOUS
  <2>4. \A k \in 1..n : v[n - k + 1] \in Bytes
    BY <1>1, <2>3 DEF WordsOf
  <2> QED BY <2>2, <2>3, <2>4 DEF WordsOf
<1>2. SWAP(w) \in WordsOf(n) /\ SWAP(SWAP(w)) \in WordsOf(n)
  BY <1>1
<1>3. ASSUME NEW k \in 1..n PROVE SWAP(SWAP(w))[k] = w[k]
  <2>1. n + 1 - k \in 1..n /\ n + 1 - (n + 1 - k) = k
    OBVIOUS
  <2>2. SWAP(SWAP(w))[k] = SWAP(w)[n + 1 - k]
    BY <1>1, <1>2
  <2>3. SWAP(w)[n + 1 - k] = w[n + 1 - (n + 1 - k)]
    BY <1>1, <2>1
  <2> QED BY <2>1, <2>2, <2>3
<1>4. SWAP(SWAP(w)) = w
  BY <1>2, <1>3 DEF WordsOf
<1> QED BY <1>1, <1>4

\* A word that changes only in a part of it.
PartOnly(buf, pos, n, new, at, m, part) ==
  /\ new \in WordsOf(n) /\ part \in WordsOf(m) /\ at \in 0..n - m
  /\ \A k \in 1..n : new[k] = IF k \in at + 1..at + m THEN part[k - at] ELSE buf[pos + k]

\* Such a word is put by putting the part.
LEMMA PutPart ==
  ASSUME NEW buf \in Seq(Bytes), NEW pos, NEW n, Inside(buf, pos, n), NEW m \in Nat \ {0},
         NEW new, NEW at, NEW part, PartOnly(buf, pos, n, new, at, m, part)
  PROVE  Inside(buf, pos + at, m) /\ Put(buf, pos, new) = Put(buf, pos + at, part)
<1> DEFINE L == Len(buf)
<1>1. pos \in Nat /\ n \in Nat /\ n > 0 /\ pos + n <= L /\ L \in Nat
  BY LenProperties DEF Inside
<1>2. /\ new \in WordsOf(n) /\ part \in WordsOf(m) /\ at \in 0..n - m
      /\ \A k \in 1..n : new[k] = IF k \in at + 1..at + m THEN part[k - at] ELSE buf[pos + k]
  BY DEF PartOnly
<1>3. Inside(buf, pos + at, m)
  BY <1>1, <1>2 DEF Inside
<1>4. Put(buf, pos, new) =
        [p \in 1..L |-> IF p \in pos + 1..pos + n THEN new[p - pos] ELSE buf[p]]
  BY <1>2, PutAt DEF Written
<1>5. Put(buf, pos + at, part) =
        [p \in 1..L |-> IF p \in (pos + at) + 1..(pos + at) + m
                        THEN part[p - (pos + at)] ELSE buf[p]]
  <2>1. Written(buf, pos + at, m, part)
    BY <1>2, <1>3, PutAt
  <2> QED BY <2>1, Zenon DEF Written
<1> HIDE DEF L
<1>6. ASSUME NEW p \in 1..L
      PROVE  (IF p \in pos + 1..pos + n THEN new[p - pos] ELSE buf[p]) =
               IF p \in (pos + at) + 1..(pos + at) + m THEN part[p - (pos + at)] ELSE buf[p]
  <2>1. CASE p \in pos + 1..pos + n
    <3>1. /\ p - pos \in 1..n /\ pos + (p - pos) = p /\ p - pos - at = p - (pos + at)
          /\ p - pos \in at + 1..at + m <=> p \in (pos + at) + 1..(pos + at) + m
      BY <1>1, <1>2, <2>1
    <3>2. new[p - pos] = IF p - pos \in at + 1..at + m THEN part[p - pos - at]
                         ELSE buf[pos + (p - pos)]
      BY <1>2, <3>1
    <3> QED BY <2>1, <3>1, <3>2
  <2>2. CASE p \notin pos + 1..pos + n
    <3>1. p \notin (pos + at) + 1..(pos + at) + m
      BY <1>1, <1>2, <2>2
    <3> QED BY <2>2, <3>1
  <2> QED BY <2>1, <2>2
<1> QED BY <1>3, <1>4, <1>5, <1>6, Zenon

-----------------------------------------------------------------------------
(* could_be_arith(), and the sums it leaves out.                            *)

\* The sums at every place for a word of n bytes.
SumsCovered(buf, n) ==
  \A pos : Inside(buf, pos, n) =>
    \A d \in Deltas : /\ Covered(buf, Put(buf, pos, Add(Word(buf, pos, n), d)))
                      /\ Covered(buf, Put(buf, pos, AddBE(Word(buf, pos, n), d)))

\* The sum of a word has its width.
LEMMA SumIsWord ==
  ASSUME NEW n \in {1, 2, 4}, NEW w, w \in WordsOf(n), NEW d \in Deltas
  PROVE  Add(w, d) \in WordsOf(n) /\ AddBE(w, d) \in WordsOf(n)
<1>1. d \in Int /\ n \in 1..4 /\ n \in Nat
  BY DEF Deltas, ARITH_MAX
<1>2. SWAP(w) \in WordsOf(n)
  BY <1>1, Swapped
<1>3. AddsUp(n, w, d) /\ AddsUp(n, SWAP(w), d)
  BY <1>1, <1>2, AddByBytes
<1>4. SWAP(Add(SWAP(w), d)) \in WordsOf(n)
  <2>1. Add(SWAP(w), d) \in WordsOf(n)
    BY <1>3 DEF AddsUp
  <2> QED BY <1>1, <2>1, Swapped
<1> QED BY <1>3, <1>4 DEF AddsUp, AddBE

\* A sum that an arithmetic stage leaves out could be a flip.
LEMMA ArithCovers ==
  ASSUME NEW buf \in Seq(Bytes), NEW pos, NEW n \in {1, 2, 4}, Inside(buf, pos, n), NEW new,
         new \in WordsOf(n),
         ~could_be_bitflip(Word(buf, pos, n), new) => Put(buf, pos, new) \in Arith(buf, pos, n)
  PROVE  Covered(buf, Put(buf, pos, new))
<1>1. CASE could_be_bitflip(Word(buf, pos, n), new)
  BY <1>1, FlipCovers
<1>2. CASE ~could_be_bitflip(Word(buf, pos, n), new)
  <2>1. pos \in 0..Len(buf) - n
    BY LenProperties DEF Inside
  <2>2. Put(buf, pos, new) \in Arith(buf, pos, n)
    BY <1>2
  <2> QED BY <2>1, <2>2 DEF Covered, Reached
<1> QED BY <1>1, <1>2

\* A sum that carries is one of the stage of its own width.
LEMMA CarryingSums ==
  ASSUME NEW buf \in Seq(Bytes), NEW pos, NEW n \in {1, 2, 4}, Inside(buf, pos, n),
         NEW d \in Deltas
  PROVE  /\ n = 1 \/ Carries(SubSeq(Word(buf, pos, n), 1, n \div 2), d)
              => Covered(buf, Put(buf, pos, Add(Word(buf, pos, n), d)))
         /\ n > 1 /\ Carries(SubSeq(SWAP(Word(buf, pos, n)), 1, n \div 2), d)
              => Covered(buf, Put(buf, pos, AddBE(Word(buf, pos, n), d)))
<1> DEFINE orig == Word(buf, pos, n)
           Low(word) == SubSeq(word, 1, n \div 2)
           le == {Add(orig, e) : e \in {f \in Deltas : n = 1 \/ Carries(Low(orig), f)}}
           be == {AddBE(orig, e) : e \in {f \in Deltas : n > 1 /\ Carries(Low(SWAP(orig)), f)}}
<1>1. orig \in WordsOf(n)
  BY WordAt
<1>2. Arith(buf, pos, n) =
        {Put(buf, pos, new) : new \in {w \in le \union be : ~could_be_bitflip(orig, w)}}
  BY Zenon DEF Arith
<1> HIDE DEF orig
<1>3. ASSUME n = 1 \/ Carries(Low(orig), d) PROVE Covered(buf, Put(buf, pos, Add(orig, d)))
  <2>1. Add(orig, d) \in le
    BY <1>3
  <2>2. Add(orig, d) \in WordsOf(n)
    BY <1>1, SumIsWord
  <2> HIDE DEF le, be
  <2>3. ~could_be_bitflip(orig, Add(orig, d)) =>
          Put(buf, pos, Add(orig, d)) \in Arith(buf, pos, n)
    BY <1>2, <2>1
  <2> QED BY <2>2, <2>3, ArithCovers DEF orig
<1>4. ASSUME n > 1, Carries(Low(SWAP(orig)), d) PROVE Covered(buf, Put(buf, pos, AddBE(orig, d)))
  <2>1. AddBE(orig, d) \in be
    BY <1>4
  <2>2. AddBE(orig, d) \in WordsOf(n)
    BY <1>1, SumIsWord
  <2> HIDE DEF le, be
  <2>3. ~could_be_bitflip(orig, AddBE(orig, d)) =>
          Put(buf, pos, AddBE(orig, d)) \in Arith(buf, pos, n)
    BY <1>2, <2>1
  <2> QED BY <2>2, <2>3, ArithCovers DEF orig
<1> QED BY <1>3, <1>4 DEF orig

\* Sums of bytes.
LEMMA ByteSums == ASSUME NEW buf \in Seq(Bytes) PROVE SumsCovered(buf, 1)
<1> SUFFICES ASSUME NEW pos, Inside(buf, pos, 1), NEW d \in Deltas
             PROVE  /\ Covered(buf, Put(buf, pos, Add(Word(buf, pos, 1), d)))
                    /\ Covered(buf, Put(buf, pos, AddBE(Word(buf, pos, 1), d)))
  BY DEF SumsCovered
<1> DEFINE w == Word(buf, pos, 1)
<1>1. w \in WordsOf(1)
  BY WordAt
<1>2. Covered(buf, Put(buf, pos, Add(w, d)))
  BY CarryingSums
<1> HIDE DEF w
<1>3. ASSUME NEW v, v \in WordsOf(1) PROVE SWAP(v) = v
  <2>1. SWAP(v) \in WordsOf(1) /\ \A k \in 1..1 : SWAP(v)[k] = v[1 + 1 - k]
    BY <1>3, Swapped
  <2>2. \A k \in 1..1 : 1 + 1 - k = k
    OBVIOUS
  <2> QED BY <1>3, <2>1, <2>2 DEF WordsOf
<1>4. Add(w, d) \in WordsOf(1)
  BY <1>1, SumIsWord
<1>5. AddBE(w, d) = Add(w, d)
  BY <1>1, <1>3, <1>4 DEF AddBE
<1> QED BY <1>2, <1>5 DEF w

\* Sums of wider words: those that do not carry are sums of their lower halves.
LEMMA WiderSums ==
  ASSUME NEW buf \in Seq(Bytes), NEW h \in {1, 2}, SumsCovered(buf, h)
  PROVE  SumsCovered(buf, 2 * h)
<1> SUFFICES ASSUME NEW pos, Inside(buf, pos, 2 * h), NEW d \in Deltas
             PROVE  /\ Covered(buf, Put(buf, pos, Add(Word(buf, pos, 2 * h), d)))
                    /\ Covered(buf, Put(buf, pos, AddBE(Word(buf, pos, 2 * h), d)))
  BY DEF SumsCovered
<1> DEFINE n == 2 * h
           w == Word(buf, pos, n)
<1>1. w \in WordsOf(n) /\ \A k \in 1..n : w[k] = buf[pos + k]
  BY WordAt
<1>2. n \in {2, 4} /\ n \in {1, 2, 4} /\ n > 1 /\ n \div 2 = h /\ n \in Nat /\ n = 2 * h
  OBVIOUS
<1>3. pos \in Nat /\ pos + n <= Len(buf) /\ Len(buf) \in Nat
  BY LenProperties DEF Inside
<1>4. Inside(buf, pos, h) /\ Inside(buf, pos + h, h) /\ Inside(buf, pos, n)
  BY <1>2, <1>3 DEF Inside
<1> HIDE DEF n, w
<1>5. /\ Word(buf, pos, h) \in WordsOf(h) /\ \A k \in 1..h : Word(buf, pos, h)[k] = buf[pos + k]
      /\ Word(buf, pos + h, h) \in WordsOf(h)
      /\ \A k \in 1..h : Word(buf, pos + h, h)[k] = buf[(pos + h) + k]
  BY <1>4, WordAt
<1>6. Covered(buf, Put(buf, pos, Add(w, d)))
  <2>1. CASE Carries(SubSeq(w, 1, h), d)
    BY <1>2, <1>4, <2>1, CarryingSums DEF w
  <2>2. CASE ~Carries(SubSeq(w, 1, h), d)
    <3> DEFINE low == SubSeq(w, 1, h)
    <3>1. HalfSum(h, w, low, d)
      BY <1>1, <1>2, <2>2, AddToHalf
    <3>2. low = Word(buf, pos, h)
      <4>1. low \in WordsOf(h) /\ \A k \in 1..h : low[k] = w[k]
        BY <3>1 DEF HalfSum
      <4>2. \A k \in 1..h : k \in 1..n
        BY <1>2
      <4> HIDE DEF low
      <4>3. \A k \in 1..h : low[k] = Word(buf, pos, h)[k]
        BY <1>1, <1>5, <4>1, <4>2
      <4> QED BY <1>5, <4>1, <4>3 DEF WordsOf
    <3> HIDE DEF low
    <3>3. PartOnly(buf, pos, n, Add(w, d), 0, h, Add(low, d))
      <4>1. /\ low \in WordsOf(h) /\ Add(low, d) \in WordsOf(h) /\ Add(w, d) \in WordsOf(n)
            /\ \A k \in 1..n : Add(w, d)[k] = IF k <= h THEN Add(low, d)[k] ELSE w[k]
        BY <1>2, <3>1 DEF HalfSum
      <4>2. ASSUME NEW k \in 1..n
            PROVE  Add(w, d)[k] = IF k \in 0 + 1..0 + h THEN Add(low, d)[k - 0] ELSE buf[pos + k]
        <5>1. k <= h <=> k \in 0 + 1..0 + h
          OBVIOUS
        <5>2. k - 0 = k /\ w[k] = buf[pos + k]
          BY <1>1
        <5> QED BY <4>1, <5>1, <5>2
      <4>3. 0 \in 0..n - h
        BY <1>2
      <4> QED BY <4>1, <4>2, <4>3 DEF PartOnly
    <3>4. Put(buf, pos, Add(w, d)) = Put(buf, pos + 0, Add(low, d)) /\ pos + 0 = pos
      <4>1. h \in Nat \ {0}
        OBVIOUS
      <4> QED BY <1>3, <1>4, <3>3, <4>1, PutPart
    <3>5. Covered(buf, Put(buf, pos, Add(low, d)))
      BY <1>4, <3>2 DEF SumsCovered
    <3> QED BY <3>4, <3>5
  <2> QED BY <2>1, <2>2
<1>7. Covered(buf, Put(buf, pos, AddBE(w, d)))
  <2> DEFINE s == SWAP(w)
             low == SubSeq(s, 1, h)
             up == Word(buf, pos + h, h)
  <2>0. s \in WordsOf(n) /\ \A k \in 1..n : s[k] = w[n + 1 - k]
    BY <1>1, <1>2, Swapped
  <2>1. CASE Carries(low, d)
    BY <1>2, <1>4, <2>1, CarryingSums DEF w
  <2>2. CASE ~Carries(low, d)
    <3>1. HalfSum(h, s, low, d)
      BY <1>2, <2>0, <2>2, AddToHalf
    <3> HIDE DEF s, low, up
    <3>2. /\ low \in WordsOf(h) /\ Add(low, d) \in WordsOf(h) /\ Add(s, d) \in WordsOf(n)
          /\ \A k \in 1..h : low[k] = s[k]
          /\ \A k \in 1..n : Add(s, d)[k] = IF k <= h THEN Add(low, d)[k] ELSE s[k]
      BY <1>2, <3>1 DEF HalfSum
    <3>3. low = SWAP(up)
      <4>1. up \in WordsOf(h) /\ \A k \in 1..h : up[k] = buf[(pos + h) + k]
        BY <1>5 DEF up
      <4>2. SWAP(up) \in WordsOf(h) /\ \A k \in 1..h : SWAP(up)[k] = up[h + 1 - k]
        BY <4>1, Swapped
      <4>3. ASSUME NEW k \in 1..h PROVE low[k] = SWAP(up)[k]
        <5>1. /\ k \in 1..n /\ n + 1 - k \in 1..n /\ h + 1 - k \in 1..h
              /\ pos + (n + 1 - k) = (pos + h) + (h + 1 - k)
          BY <1>2, <1>3
        <5>2. low[k] = buf[pos + (n + 1 - k)]
          BY <1>1, <2>0, <3>2, <5>1
        <5> QED BY <4>1, <4>2, <5>1, <5>2
      <4> QED BY <3>2, <4>2, <4>3 DEF WordsOf
    <3>4. /\ AddBE(up, d) = SWAP(Add(low, d)) /\ AddBE(up, d) \in WordsOf(h)
          /\ \A k \in 1..h : AddBE(up, d)[k] = Add(low, d)[h + 1 - k]
      <4>1. AddBE(up, d) = SWAP(Add(low, d))
        BY <3>3 DEF AddBE
      <4> QED BY <3>2, <4>1, Swapped
    <3>5. /\ AddBE(w, d) = SWAP(Add(s, d)) /\ AddBE(w, d) \in WordsOf(n)
          /\ \A k \in 1..n : AddBE(w, d)[k] = Add(s, d)[n + 1 - k]
      <4>1. AddBE(w, d) = SWAP(Add(s, d))
        BY DEF AddBE, s
      <4> QED BY <1>2, <3>2, <4>1, Swapped
    <3>6. PartOnly(buf, pos, n, AddBE(w, d), h, h, AddBE(up, d))
      <4>1. ASSUME NEW k \in 1..n
            PROVE  AddBE(w, d)[k] = IF k \in h + 1..h + h THEN AddBE(up, d)[k - h]
                                    ELSE buf[pos + k]
        <5>1. /\ n + 1 - k \in 1..n /\ n + 1 - (n + 1 - k) = k
              /\ n + 1 - k <= h <=> k \in h + 1..h + h
          BY <1>2
        <5>2. CASE k \in h + 1..h + h
          <6>1. k - h \in 1..h /\ h + 1 - (k - h) = n + 1 - k
            BY <1>2, <5>2
          <6> QED BY <3>2, <3>4, <3>5, <5>1, <5>2, <6>1
        <5>3. CASE k \notin h + 1..h + h
          <6>1. AddBE(w, d)[k] = s[n + 1 - k]
            BY <3>2, <3>5, <5>1, <5>3
          <6>2. s[n + 1 - k] = w[k]
            BY <2>0, <5>1
          <6> QED BY <1>1, <5>3, <6>1, <6>2
        <5> QED BY <5>2, <5>3
      <4>2. h \in 0..n - h
        BY <1>2
      <4> QED BY <3>4, <3>5, <4>1, <4>2 DEF PartOnly
    <3>7. Put(buf, pos, AddBE(w, d)) = Put(buf, pos + h, AddBE(up, d))
      <4>1. h \in Nat \ {0}
        OBVIOUS
      <4> QED BY <1>4, <3>6, <4>1, PutPart
    <3>8. Covered(buf, Put(buf, pos + h, AddBE(up, d)))
      BY <1>4 DEF SumsCovered, up
    <3> QED BY <3>7, <3>8
  <2> QED BY <2>1, <2>2
<1> QED BY <1>6, <1>7 DEF w, n

\* Each sum is covered, whichever its width.
LEMMA AllSums == ASSUME NEW buf \in Seq(Bytes), NEW n \in {1, 2, 4} PROVE SumsCovered(buf, n)
<1>1. SumsCovered(buf, 1)
  BY ByteSums
<1>2. SumsCovered(buf, 2)
  <2>1. SumsCovered(buf, 2 * 1)
    BY <1>1, WiderSums
  <2> QED BY <2>1
<1>3. SumsCovered(buf, 4)
  <2>1. SumsCovered(buf, 2 * 2)
    BY <1>2, WiderSums
  <2> QED BY <2>1
<1> QED BY <1>1, <1>2, <1>3

\* A part of a word in a buffer is a word of the buffer.
LEMMA PartOfWord ==
  ASSUME NEW buf \in Seq(Bytes), NEW pos, NEW n, Inside(buf, pos, n), NEW at, NEW m,
         Inside(Word(buf, pos, n), at, m)
  PROVE  /\ Inside(buf, pos + at, m) /\ Word(Word(buf, pos, n), at, m) = Word(buf, pos + at, m)
<1> DEFINE w == Word(buf, pos, n)
<1>1. w \in Seq(Bytes) /\ Len(w) = n /\ \A k \in 1..n : w[k] = buf[pos + k]
  <2>1. w \in WordsOf(n) /\ \A k \in 1..n : w[k] = buf[pos + k]
    BY WordAt
  <2>2. n \in Nat
    BY DEF Inside
  <2> HIDE DEF w
  <2> QED BY <2>1, <2>2, BytesOfWord
<1>2. /\ pos \in Nat /\ n \in Nat /\ pos + n <= Len(buf) /\ Len(buf) \in Nat
      /\ at \in Nat /\ m \in Nat \ {0} /\ at + m <= n
  BY <1>1, LenProperties DEF Inside
<1>3. Inside(buf, pos + at, m)
  BY <1>2 DEF Inside
<1>4. Inside(w, at, m)
  OBVIOUS
<1> HIDE DEF w
<1>5. Word(w, at, m) \in WordsOf(m) /\ \A k \in 1..m : Word(w, at, m)[k] = w[at + k]
  BY <1>1, <1>4, WordAt
<1>6. /\ Word(buf, pos + at, m) \in WordsOf(m)
      /\ \A k \in 1..m : Word(buf, pos + at, m)[k] = buf[(pos + at) + k]
  BY <1>3, WordAt
<1>7. ASSUME NEW k \in 1..m PROVE Word(w, at, m)[k] = Word(buf, pos + at, m)[k]
  <2>1. at + k \in 1..n /\ pos + (at + k) = (pos + at) + k
    BY <1>2
  <2> QED BY <1>1, <1>5, <1>6, <2>1
<1>8. Word(w, at, m) = Word(buf, pos + at, m)
  <2> DEFINE u == Word(w, at, m)
             v == Word(buf, pos + at, m)
  <2>1. u \in [1..m -> Bytes] /\ v \in [1..m -> Bytes]
    BY <1>5, <1>6 DEF WordsOf
  <2>2. \A k \in 1..m : u[k] = v[k]
    BY <1>7
  <2> HIDE DEF u, v
  <2>3. u = [k \in 1..m |-> u[k]] /\ v = [k \in 1..m |-> v[k]]
    BY <2>1
  <2>4. u = v
    BY <2>2, <2>3, Zenon
  <2> QED BY <2>4 DEF u, v
<1> QED BY <1>3, <1>8 DEF w

\* Two words that differ in one part of m bytes.
LEMMA OnePart ==
  ASSUME NEW buf \in Seq(Bytes), NEW pos, NEW n \in {1, 2, 4}, Inside(buf, pos, n),
         NEW new, new \in WordsOf(n), NEW m \in {1, 2}, NEW x,
         Differ(Word(buf, pos, n), new, m) = {x}
  PROVE  /\ Inside(Word(buf, pos, n), x * m, m)
         /\ PartOnly(buf, pos, n, new, x * m, m, Word(new, x * m, m))
<1> DEFINE old == Word(buf, pos, n)
           at == x * m
<1>1. old \in WordsOf(n) /\ Len(old) = n /\ n \in Nat /\ \A k \in 1..n : old[k] = buf[pos + k]
  <2>1. n \in Nat
    BY DEF Inside
  <2> QED BY <2>1, WordAt
<1>2. x \in Differ(old, new, m)
  OBVIOUS
<1>3. x \in 0..n \div m - 1
  BY <1>1, <1>2 DEF Differ
<1>4. at \in Nat /\ at \in 0..n - m
  <2>1. CASE m = 1
    BY <1>3, <2>1
  <2>2. CASE m = 2
    BY <1>3, <2>2
  <2> QED BY <2>1, <2>2
<1>5. old \in Seq(Bytes) /\ new \in Seq(Bytes) /\ Len(new) = n
  BY <1>1, BytesOfWord
<1>6. \A y \in Nat : y + m <= n => Inside(old, y, m) /\ Inside(new, y, m)
  BY <1>1, <1>5 DEF Inside
<1>7. at + m <= n
  BY <1>4
<1> HIDE DEF old
<1>8. ASSUME NEW y \in Nat, y + m <= n
      PROVE  /\ Word(new, y, m) \in WordsOf(m)
             /\ \A k \in 1..m : Word(new, y, m)[k] = new[y + k] /\ Word(old, y, m)[k] = old[y + k]
  <2>1. Inside(old, y, m) /\ Inside(new, y, m)
    BY <1>6, <1>8
  <2> QED BY <1>5, <2>1, WordAt
<1>9. ASSUME NEW k \in 1..n
      PROVE  new[k] = IF k \in at + 1..at + m THEN Word(new, at, m)[k - at] ELSE buf[pos + k]
  <2>1. CASE k \in at + 1..at + m
    <3>1. k - at \in 1..m /\ at + (k - at) = k
      BY <1>4, <2>1
    <3> HIDE DEF at
    <3>2. Word(new, at, m)[k - at] = new[at + (k - at)]
      BY <1>4, <1>7, <1>8, <3>1
    <3> QED BY <2>1, <3>1, <3>2
  <2>2. CASE k \notin at + 1..at + m
    <3> DEFINE y == (k - 1) \div m
               b == y * m
    <3>1. y \in 0..n \div m - 1 /\ b \in Nat /\ b + m <= n /\ k - b \in 1..m /\ b + (k - b) = k
      <4>1. CASE m = 1
        BY <1>3, <4>1
      <4>2. CASE m = 2
        BY <1>3, <4>2
      <4> QED BY <4>1, <4>2
    <3>2. y # x
      BY <1>4, <2>2, <3>1
    <3> HIDE DEF y
    <3>3. Word(old, b, m) = Word(new, b, m)
      <4>1. y \notin Differ(old, new, m)
        BY <3>2 DEF old
      <4> QED BY <1>1, <3>1, <4>1 DEF Differ
    <3> HIDE DEF b
    <3>4. Word(new, b, m)[k - b] = new[b + (k - b)] /\ Word(old, b, m)[k - b] = old[b + (k - b)]
      BY <1>8, <3>1
    <3>5. new[k] = old[k]
      BY <3>1, <3>3, <3>4
    <3> QED BY <1>1, <2>2, <3>5
  <2> QED BY <2>1, <2>2
<1>10. Word(new, at, m) \in WordsOf(m)
  <2> HIDE DEF at
  <2> QED BY <1>4, <1>7, <1>8
<1>11. PartOnly(buf, pos, n, new, at, m, Word(new, at, m))
  <2> HIDE DEF at
  <2> QED BY <1>4, <1>9, <1>10 DEF PartOnly
<1>12. Inside(old, at, m)
  <2> HIDE DEF at
  <2> QED BY <1>4, <1>6, <1>7
<1> QED BY <1>11, <1>12 DEF at, old

\* A part that differs by a sum.
LEMMA NearPart ==
  ASSUME NEW buf \in Seq(Bytes), NEW pos, NEW n, Inside(buf, pos, n), NEW m \in {1, 2, 4},
         NEW new, NEW at, NEW part, PartOnly(buf, pos, n, new, at, m, part),
         NEW old, old = Word(buf, pos + at, m),
         Near(old, part) \/ Near(SWAP(old), SWAP(part))
  PROVE  Covered(buf, Put(buf, pos, new))
<1>1. Inside(buf, pos + at, m) /\ Put(buf, pos, new) = Put(buf, pos + at, part)
  <2>1. m \in Nat \ {0}
    OBVIOUS
  <2> QED BY <2>1, PutPart
<1>2. old \in WordsOf(m) /\ part \in WordsOf(m)
  BY <1>1, WordAt DEF PartOnly
<1>3. CASE Near(old, part)
  <2>1. PICK d \in Deltas : part = Add(old, d)
    BY <1>3 DEF Near
  <2>2. Covered(buf, Put(buf, pos + at, Add(Word(buf, pos + at, m), d)))
    BY <1>1, AllSums DEF SumsCovered
  <2> QED BY <1>1, <2>1, <2>2
<1>4. CASE Near(SWAP(old), SWAP(part))
  <2>1. PICK d \in Deltas : SWAP(part) = Add(SWAP(old), d)
    BY <1>4 DEF Near
  <2>2. m \in Nat
    OBVIOUS
  <2>3. SWAP(SWAP(part)) = part
    BY <1>2, <2>2, Swapped
  <2>4. part = AddBE(old, d)
    BY <2>1, <2>3 DEF AddBE
  <2>5. Covered(buf, Put(buf, pos + at, AddBE(Word(buf, pos + at, m), d)))
    BY <1>1, AllSums DEF SumsCovered
  <2> QED BY <1>1, <2>4, <2>5
<1> QED BY <1>3, <1>4

\* could_be_arith(): what it recognises is a sum, of the word or of a part of it.
LEMMA NearCovers ==
  ASSUME NEW buf \in Seq(Bytes), NEW pos, NEW n \in {1, 2, 4}, Inside(buf, pos, n),
         NEW new, new \in WordsOf(n), could_be_arith(Word(buf, pos, n), new)
  PROVE  Covered(buf, Put(buf, pos, new))
<1> DEFINE old == Word(buf, pos, n)
           Old(m, x) == Word(old, x * m, m)
           New(m, x) == Word(new, x * m, m)
<1>1. Len(old) = n
  BY WordAt
<1>2. ASSUME NEW m \in {1, 2}, NEW x, Differ(old, new, m) = {x},
             Near(Old(m, x), New(m, x)) \/ Near(SWAP(Old(m, x)), SWAP(New(m, x)))
      PROVE  Covered(buf, Put(buf, pos, new))
  <2> DEFINE at == x * m
             a == Old(m, x)
             b == New(m, x)
  <2>1. Inside(old, at, m) /\ PartOnly(buf, pos, n, new, at, m, b)
    BY <1>2, OnePart
  <2>2. a = Word(buf, pos + at, m)
    BY <2>1, PartOfWord
  <2>3. Near(a, b) \/ Near(SWAP(a), SWAP(b))
    BY <1>2
  <2>4. m \in {1, 2, 4}
    OBVIOUS
  <2> HIDE DEF at, a, b, old
  <2> QED BY <2>1, <2>2, <2>3, <2>4, NearPart
<1>3. CASE old = new
  BY <1>3, PutBack DEF Covered
<1>4. CASE n = 4 /\ (Near(old, new) \/ Near(SWAP(old), SWAP(new)))
  <2>1. CASE Near(old, new)
    <3>1. PICK d \in Deltas : new = Add(old, d)
      BY <2>1 DEF Near
    <3> QED BY <3>1, AllSums DEF SumsCovered
  <2>2. CASE Near(SWAP(old), SWAP(new))
    <3>1. PICK d \in Deltas : SWAP(new) = Add(SWAP(old), d)
      BY <2>2 DEF Near
    <3>2. n \in Nat /\ SWAP(SWAP(new)) = new
      BY Swapped
    <3>3. new = AddBE(old, d)
      BY <3>1, <3>2 DEF AddBE
    <3> QED BY <3>3, AllSums DEF SumsCovered
  <2> QED BY <1>4, <2>1, <2>2
<1>5. \/ old = new
      \/ \E x \in Differ(old, new, 1) : Differ(old, new, 1) = {x} /\ Near(Old(1, x), New(1, x))
      \/ \E x \in Differ(old, new, 2) :
           /\ Differ(old, new, 2) = {x}
           /\ \/ Near(Old(2, x), New(2, x))
              \/ Near(SWAP(Old(2, x)), SWAP(New(2, x)))
      \/ Len(old) = 4 /\ (Near(old, new) \/ Near(SWAP(old), SWAP(new)))
  BY Zenon DEF could_be_arith
<1> HIDE DEF old, Old, New
<1>6. CASE \E x \in Differ(old, new, 1) : Differ(old, new, 1) = {x} /\ Near(Old(1, x), New(1, x))
  BY <1>2, <1>6
<1>7. CASE \E x \in Differ(old, new, 2) :
             /\ Differ(old, new, 2) = {x}
             /\ \/ Near(Old(2, x), New(2, x))
                \/ Near(SWAP(Old(2, x)), SWAP(New(2, x)))
  BY <1>2, <1>7
<1> QED BY <1>1, <1>3, <1>4, <1>5, <1>6, <1>7

-----------------------------------------------------------------------------
(* could_be_interest(), and the values it leaves out.                       *)

\* The interesting values are words of their width.
LEMMA InterestingWords ==
  ASSUME NEW n \in {1, 2, 4}, NEW v \in Interesting(n) PROVE v \in WordsOf(n)
<1>1. signed_16 \in SUBSET Int /\ signed_8 \in SUBSET Int
  BY DEF signed_16, signed_8
<1>2. \A x \in Int : x % 256 \in Bytes /\ (x \div 256) % 256 \in Bytes
  BY DEF Bytes
<1>3. CASE n = 1
  <2>1. PICK x \in signed_8 : v = <<x % 256>>
    BY <1>3 DEF Interesting, interesting_8
  <2>2. x \in Int /\ x % 256 \in Bytes
    BY <1>1, <1>2, <2>1
  <2> QED BY <1>3, <2>1, <2>2 DEF WordsOf
<1>4. CASE n = 2
  <2>1. PICK x \in signed_16 : v = LE16(x)
    BY <1>4 DEF Interesting, interesting_16
  <2>2. x % 256 \in Bytes /\ (x \div 256) % 256 \in Bytes
    BY <1>1, <1>2, <2>1
  <2> QED BY <1>4, <2>1, <2>2 DEF WordsOf, LE16
<1>5. CASE n = 4
  <2>1. v \in interesting_32
    BY <1>5 DEF Interesting
  <2>2. CASE v = <<0, 0, 0, 128>>
    BY <1>5, <2>2 DEF WordsOf, Bytes
  <2>3. CASE \E x \in Int : v = LE32(x)
    <3>1. PICK x \in Int : v = LE32(x)
      BY <2>3
    <3> DEFINE E(k) == 256^k
    <3>2. E(0) = 1 /\ E(1) = 256 /\ E(2) = 65536 /\ E(3) = 16777216
      OBVIOUS
    <3>3. v = [k \in 1..4 |-> (x \div E(k - 1)) % 256]
      BY <3>1 DEF LE32
    <3> HIDE DEF E
    <3>4. ASSUME NEW k \in 1..4 PROVE (x \div E(k - 1)) % 256 \in Bytes
      <4>1. k - 1 = 0 \/ k - 1 = 1 \/ k - 1 = 2 \/ k - 1 = 3
        OBVIOUS
      <4>2. x \div E(k - 1) \in Int
        BY <3>2, <4>1
      <4> QED BY <1>2, <4>2
    <3> QED BY <1>5, <3>3, <3>4 DEF WordsOf
  <2>4. v = <<0, 0, 0, 128>> \/ \E x \in Int : v = LE32(x)
    <3>1. \A x \in signed_16 \union
                   {-100663046, -32769, 32768, 65535, 65536, 100663045, 2147483647} :
            x \in Int
      BY <1>1
    <3> QED BY <2>1, <3>1 DEF interesting_32
  <2> QED BY <2>2, <2>3, <2>4
<1> QED BY <1>3, <1>4, <1>5

\* The constants of n bytes at every place.
LittleCovered(buf, n) ==
  \A pos : Inside(buf, pos, n) => \A v \in Interesting(n) : Covered(buf, Put(buf, pos, v))
ConstsCovered(buf, n) ==
  /\ LittleCovered(buf, n)
  /\ \A pos : Inside(buf, pos, n) =>
       \A v \in Interesting(n) : Covered(buf, Put(buf, pos, SWAP(v)))

\* A part put into a word that is put into the buffer.
LEMMA PutInWord ==
  ASSUME NEW buf \in Seq(Bytes), NEW pos, NEW n, Inside(buf, pos, n), NEW m, NEW at,
         Inside(Word(buf, pos, n), at, m), NEW v, v \in WordsOf(m),
         NEW new, new = Put(Word(buf, pos, n), at, v), Covered(buf, Put(buf, pos + at, v))
  PROVE  Covered(buf, Put(buf, pos, new))
<1> DEFINE w == Word(buf, pos, n)
<1>1. w \in WordsOf(n) /\ \A k \in 1..n : w[k] = buf[pos + k]
  BY WordAt
<1>2. n \in Nat /\ pos \in Nat
  BY DEF Inside
<1>3. new = Put(w, at, v) /\ Inside(w, at, m)
  OBVIOUS
<1> HIDE DEF w
<1>4. w \in Seq(Bytes) /\ Len(w) = n
  BY <1>1, <1>2, BytesOfWord
<1>5. Written(w, at, m, v)
  BY <1>3, <1>4, PutAt
<1>6. /\ new \in Seq(Bytes) /\ Len(new) = n
      /\ new = [p \in 1..n |-> IF p \in at + 1..at + m THEN v[p - at] ELSE w[p]]
  BY <1>3, <1>4, <1>5 DEF Written
<1>7. at \in Nat /\ m \in Nat \ {0} /\ at \in 0..n - m
  BY <1>2, <1>3, <1>4 DEF Inside
<1>8. new \in WordsOf(n)
  <2>1. new \in [1..n -> Bytes]
    <3>1. new = [p \in 1..n |-> new[p]]
      BY <1>6
    <3>2. \A p \in 1..n : new[p] \in Bytes
      BY <1>6, ElementOfSeq
    <3> QED BY <3>1, <3>2
  <2> QED BY <2>1 DEF WordsOf
<1>9. PartOnly(buf, pos, n, new, at, m, v)
  <2>1. \A k \in 1..n : new[k] = IF k \in at + 1..at + m THEN v[k - at] ELSE buf[pos + k]
    BY <1>1, <1>6
  <2> QED BY <1>7, <1>8, <2>1 DEF PartOnly
<1>10. Put(buf, pos, new) = Put(buf, pos + at, v)
  BY <1>7, <1>9, PutPart
<1> QED BY <1>10

\* could_be_interest(): what it recognises a narrower stage, or this one, has inserted.
LEMMA InsertedBefore ==
  ASSUME NEW buf \in Seq(Bytes), NEW pos, NEW n \in {2, 4}, Inside(buf, pos, n),
         NEW new, NEW check_le \in BOOLEAN, could_be_interest(Word(buf, pos, n), new, check_le),
         ConstsCovered(buf, 1), n = 4 => ConstsCovered(buf, 2),
         check_le => LittleCovered(buf, n)
  PROVE  Covered(buf, Put(buf, pos, new))
<1> DEFINE old == Word(buf, pos, n)
<1>1. Len(old) = n /\ pos \in Nat /\ n \in Nat
  BY WordAt DEF Inside
<1>2. \/ old = new
      \/ \E x \in 0..n - 1 : \E v \in interesting_8 : new = Put(old, x, v)
      \/ /\ n # 2 \/ check_le
         /\ \/ \E x \in 0..n - 2 : \E v \in interesting_16 :
                 new = Put(old, x, v) \/ (n > 2 /\ new = Put(old, x, SWAP(v)))
            \/ n = 4 /\ check_le /\ new \in interesting_32
  BY <1>1 DEF could_be_interest
<1>3. CASE old = new
  BY <1>3, PutBack DEF Covered
<1>4. ASSUME NEW m \in {1, 2}, NEW x \in 0..n - m, NEW v, v \in WordsOf(m), new = Put(old, x, v),
             Inside(buf, pos + x, m) => Covered(buf, Put(buf, pos + x, v))
      PROVE  Covered(buf, Put(buf, pos, new))
  <2>1. Inside(old, x, m)
    BY <1>1 DEF Inside
  <2>2. Inside(buf, pos + x, m)
    BY <2>1, PartOfWord
  <2>3. Covered(buf, Put(buf, pos + x, v))
    BY <1>4, <2>2
  <2> QED BY <1>4, <2>1, <2>3, PutInWord
<1> HIDE DEF old
<1>5. CASE \E x \in 0..n - 1 : \E v \in interesting_8 : new = Put(old, x, v)
  <2>1. PICK x \in 0..n - 1, v \in interesting_8 : new = Put(old, x, v)
    BY <1>5
  <2>2. v \in Interesting(1)
    BY DEF Interesting
  <2>3. v \in WordsOf(1)
    BY <2>2, InterestingWords
  <2>4. Inside(buf, pos + x, 1) => Covered(buf, Put(buf, pos + x, v))
    BY <2>2 DEF ConstsCovered, LittleCovered
  <2> QED BY <1>4, <2>1, <2>3, <2>4
<1>6. CASE (n # 2 \/ check_le) /\
           \E x \in 0..n - 2 : \E v \in interesting_16 :
             new = Put(old, x, v) \/ (n > 2 /\ new = Put(old, x, SWAP(v)))
  <2>1. PICK x \in 0..n - 2, v \in interesting_16 :
          new = Put(old, x, v) \/ (n > 2 /\ new = Put(old, x, SWAP(v)))
    BY <1>6
  <2>2. v \in Interesting(2)
    BY DEF Interesting
  <2>3. v \in WordsOf(2) /\ SWAP(v) \in WordsOf(2)
    BY <2>2, InterestingWords, Swapped
  <2>4. LittleCovered(buf, 2)
    BY <1>6 DEF ConstsCovered
  <2>5. Inside(buf, pos + x, 2) => Covered(buf, Put(buf, pos + x, v))
    BY <2>2, <2>4 DEF LittleCovered
  <2>6. n > 2 => (Inside(buf, pos + x, 2) => Covered(buf, Put(buf, pos + x, SWAP(v))))
    BY <2>2 DEF ConstsCovered
  <2>7. CASE new = Put(old, x, v)
    BY <1>4, <2>3, <2>5, <2>7
  <2>8. CASE n > 2 /\ new = Put(old, x, SWAP(v))
    BY <1>4, <2>3, <2>6, <2>8
  <2> QED BY <2>1, <2>7, <2>8
<1>7. CASE n = 4 /\ check_le /\ new \in interesting_32
  <2>1. new \in Interesting(4)
    BY <1>7 DEF Interesting
  <2> QED BY <1>7, <2>1 DEF LittleCovered
<1> QED BY <1>2, <1>3, <1>5, <1>6, <1>7

\* What a stage does not leave out.
IsNew(orig, n, w, check_le) ==
  /\ ~could_be_bitflip(orig, w) /\ ~could_be_arith(orig, w)
  /\ n > 1 => ~could_be_interest(orig, w, check_le)

\* A value that a stage leaves out is covered by what came before.
LEMMA InterestCovers ==
  ASSUME NEW buf \in Seq(Bytes), NEW pos, NEW n \in {1, 2, 4}, Inside(buf, pos, n),
         NEW new, new \in WordsOf(n), NEW check_le \in BOOLEAN,
         n > 1 => ConstsCovered(buf, 1), n = 4 => ConstsCovered(buf, 2),
         check_le => LittleCovered(buf, n),
         IsNew(Word(buf, pos, n), n, new, check_le) =>
           Put(buf, pos, new) \in Interest(buf, pos, n)
  PROVE  Covered(buf, Put(buf, pos, new))
<1>1. CASE could_be_bitflip(Word(buf, pos, n), new)
  BY <1>1, FlipCovers
<1>2. CASE could_be_arith(Word(buf, pos, n), new)
  BY <1>2, NearCovers
<1>3. CASE n > 1 /\ could_be_interest(Word(buf, pos, n), new, check_le)
  <2>1. n \in {2, 4}
    BY <1>3
  <2> QED BY <1>3, <2>1, InsertedBefore
<1>4. CASE Put(buf, pos, new) \in Interest(buf, pos, n)
  <2>1. pos \in 0..Len(buf) - n
    BY LenProperties DEF Inside
  <2> QED BY <1>4, <2>1 DEF Covered, Reached
<1> QED BY <1>1, <1>2, <1>3, <1>4 DEF IsNew

\* The little-endian values of a width, once the narrower ones are covered.
LEMMA LittleConsts ==
  ASSUME NEW buf \in Seq(Bytes), NEW n \in {1, 2, 4},
         n > 1 => ConstsCovered(buf, 1), n = 4 => ConstsCovered(buf, 2)
  PROVE  LittleCovered(buf, n)
<1> SUFFICES ASSUME NEW pos, Inside(buf, pos, n), NEW v \in Interesting(n)
             PROVE  Covered(buf, Put(buf, pos, v))
  BY DEF LittleCovered
<1> DEFINE orig == Word(buf, pos, n)
           New(w, check_le) == /\ ~could_be_bitflip(orig, w) /\ ~could_be_arith(orig, w)
                               /\ n > 1 => ~could_be_interest(orig, w, check_le)
           le == {u \in Interesting(n) : New(u, FALSE)}
           be == {SWAP(u) : u \in {x \in Interesting(n) :
                                      n > 1 /\ x # SWAP(x) /\ New(SWAP(x), TRUE)}}
<1>1. Interest(buf, pos, n) = {Put(buf, pos, new) : new \in le \union be}
  BY Zenon DEF Interest
<1>2. IsNew(orig, n, v, FALSE) => v \in le
  BY DEF IsNew
<1> HIDE DEF le, be
<1>3. IsNew(orig, n, v, FALSE) => Put(buf, pos, v) \in Interest(buf, pos, n)
  BY <1>1, <1>2
<1>4. v \in WordsOf(n)
  BY InterestingWords
<1> QED BY <1>3, <1>4, InterestCovers

\* The values of a width, of either byte order, once the narrower ones are covered.
LEMMA AllConsts ==
  ASSUME NEW buf \in Seq(Bytes), NEW n \in {1, 2, 4},
         n > 1 => ConstsCovered(buf, 1), n = 4 => ConstsCovered(buf, 2)
  PROVE  ConstsCovered(buf, n)
<1>1. LittleCovered(buf, n)
  BY LittleConsts
<1> SUFFICES ASSUME NEW pos, Inside(buf, pos, n), NEW v \in Interesting(n)
             PROVE  Covered(buf, Put(buf, pos, SWAP(v)))
  BY <1>1 DEF ConstsCovered
<1> DEFINE orig == Word(buf, pos, n)
           New(w, check_le) == /\ ~could_be_bitflip(orig, w) /\ ~could_be_arith(orig, w)
                               /\ n > 1 => ~could_be_interest(orig, w, check_le)
           le == {u \in Interesting(n) : New(u, FALSE)}
           be == {SWAP(u) : u \in {x \in Interesting(n) :
                                      n > 1 /\ x # SWAP(x) /\ New(SWAP(x), TRUE)}}
<1>2. v \in WordsOf(n) /\ n \in Nat
  BY InterestingWords
<1>3. SWAP(v) \in WordsOf(n) /\ \A k \in 1..n : SWAP(v)[k] = v[n + 1 - k]
  BY <1>2, Swapped
<1>4. CASE SWAP(v) = v
  BY <1>1, <1>4 DEF LittleCovered
<1>5. CASE SWAP(v) # v
  <2>1. n > 1
    <3> SUFFICES ASSUME n = 1 PROVE SWAP(v) = v
      BY <1>5
    <3>1. \A k \in 1..1 : 1 + 1 - k = k
      OBVIOUS
    <3> QED BY <1>2, <1>3, <3>1 DEF WordsOf
  <2>2. Interest(buf, pos, n) = {Put(buf, pos, new) : new \in le \union be}
    BY Zenon DEF Interest
  <2>3. IsNew(orig, n, SWAP(v), TRUE) => SWAP(v) \in be
    BY <1>5, <2>1, Zenon DEF IsNew
  <2> HIDE DEF le, be
  <2>4. IsNew(orig, n, SWAP(v), TRUE) => Put(buf, pos, SWAP(v)) \in Interest(buf, pos, n)
    BY <2>2, <2>3
  <2> QED BY <1>1, <1>3, <2>4, InterestCovers
<1> QED BY <1>4, <1>5

\* Whatever the stages leave out has been tried.
LEMMA VariantsCovered ==
  ASSUME NEW buf \in Seq(Bytes), NEW v \in Variants(buf)
  PROVE  Reached(buf, v) \/ Straddles(buf, v)
<1> DEFINE Ws(blen) == {<<pos, Word(buf, pos, blen)>> : pos \in 0..Len(buf) - blen}
           All == UNION {Ws(n) : n \in {1, 2, 4}}
           flips == (UNION {FlipBits(buf, n) : n \in {1, 2, 4}}) \union
                    (UNION {FlipBytes(buf, w[1], Len(w[2])) : w \in All})
           Sums(w) == {Put(buf, w[1], Add(w[2], d)) : d \in Deltas} \union
                      {Put(buf, w[1], AddBE(w[2], d)) : d \in Deltas}
           Consts(w) == UNION {{Put(buf, w[1], c), Put(buf, w[1], SWAP(c))} :
                                 c \in Interesting(Len(w[2]))}
           At(w, pos, n) == w = <<pos, Word(buf, pos, n)>> /\ Len(w[2]) = n /\ Inside(buf, pos, n)
<1>1. Variants(buf) = (flips \union (UNION {Sums(w) \union Consts(w) : w \in All})) \ {buf}
  BY Zenon DEF Variants
<1>2. ASSUME NEW w \in All
      PROVE  \E n \in {1, 2, 4} : \E pos \in 0..Len(buf) - n : At(w, pos, n)
  <2>1. PICK n \in {1, 2, 4} : w \in Ws(n)
    OBVIOUS
  <2>2. PICK pos \in 0..Len(buf) - n : w = <<pos, Word(buf, pos, n)>>
    BY <2>1
  <2>3. Inside(buf, pos, n)
    BY LenProperties DEF Inside
  <2>4. Len(Word(buf, pos, n)) = n
    BY <2>3, WordAt
  <2> QED BY <2>2, <2>3, <2>4
<1>3. \A n \in {1, 2, 4} : SumsCovered(buf, n)
  BY AllSums
<1>4. \A n \in {1, 2, 4} : ConstsCovered(buf, n)
  <2>1. ConstsCovered(buf, 1)
    BY AllConsts
  <2>2. ConstsCovered(buf, 2)
    BY <2>1, AllConsts
  <2>3. ConstsCovered(buf, 4)
    BY <2>1, <2>2, AllConsts
  <2> QED BY <2>1, <2>2, <2>3
<1> HIDE DEF All
<1>5. v # buf /\ (v \in flips \/ \E w \in All : v \in Sums(w) \/ v \in Consts(w))
  BY <1>1
<1>6. CASE v \in UNION {FlipBits(buf, n) : n \in {1, 2, 4}}
  BY <1>6 DEF Reached, IsFlip
<1>7. CASE \E w \in All : v \in FlipBytes(buf, w[1], Len(w[2]))
  <2>1. PICK w \in All : v \in FlipBytes(buf, w[1], Len(w[2]))
    BY <1>7
  <2>2. PICK n \in {1, 2, 4} : \E pos \in 0..Len(buf) - n : At(w, pos, n)
    BY <1>2
  <2> PICK pos \in 0..Len(buf) - n : At(w, pos, n)
    BY <2>2
  <2>3. v \in FlipBytes(buf, pos, n)
    BY <2>1, <2>2
  <2> QED BY <2>3 DEF Reached, IsFlip
<1>8. CASE \E w \in All : v \in Sums(w)
  <2>1. PICK w \in All : v \in Sums(w)
    BY <1>8
  <2>2. PICK n \in {1, 2, 4} : \E pos \in 0..Len(buf) - n : At(w, pos, n)
    BY <1>2
  <2> PICK pos \in 0..Len(buf) - n : At(w, pos, n)
    BY <2>2
  <2>3. PICK d \in Deltas : v = Put(buf, pos, Add(Word(buf, pos, n), d))
                            \/ v = Put(buf, pos, AddBE(Word(buf, pos, n), d))
    BY <2>1, <2>2
  <2>4. Covered(buf, v)
    BY <1>3, <2>2, <2>3 DEF SumsCovered
  <2> QED BY <1>5, <2>4 DEF Covered
<1>9. CASE \E w \in All : v \in Consts(w)
  <2>1. PICK w \in All : v \in Consts(w)
    BY <1>9
  <2>2. PICK n \in {1, 2, 4} : \E pos \in 0..Len(buf) - n : At(w, pos, n)
    BY <1>2
  <2> PICK pos \in 0..Len(buf) - n : At(w, pos, n)
    BY <2>2
  <2>3. PICK c \in Interesting(n) : v = Put(buf, pos, c) \/ v = Put(buf, pos, SWAP(c))
    BY <2>1, <2>2
  <2>4. Covered(buf, v)
    BY <1>4, <2>2, <2>3 DEF ConstsCovered, LittleCovered
  <2> QED BY <1>5, <2>4 DEF Covered
<1> QED BY <1>5, <1>6, <1>7, <1>8, <1>9

-----------------------------------------------------------------------------
(* What the stages have tried.                                              *)

StageRank ==
  [flip16 |-> 1, flip32 |-> 2, arith8 |-> 3, arith16 |-> 4, arith32 |-> 5, int8 |-> 6,
   int16 |-> 7, int32 |-> 8, user_over |-> 9]

\* The stage has been at the first n positions.
AllTried(stage, n) ==
  \A p \in 0..Len(in_buf) - Stages[stage] : p < n => Tries(stage, p) \subseteq tried

PastFlips == pc \in DOMAIN Stages \/ (pc = "user_over" /\ i = 0 /\ j = 0)
NothingSkipped == eff_map = Blocks /\ ~start.no_arith

BitsTried ==
  /\ pc = "flip1" => \A b \in 0..8 * i - 1 : Flip(in_buf, b, 1) \in tried
  /\ pc = "flip8" \/ PastFlips => \A n \in {1, 2, 4} : FlipBits(in_buf, n) \subseteq tried

BytesTried ==
  /\ pc = "flip8" => /\ i \in 0..Len(in_buf)
                     /\ \A p \in 0..i - 1 : FlipBytes(in_buf, p, 1) \subseteq tried
  /\ PastFlips => /\ i \in Nat
                  /\ \A p \in 0..Len(in_buf) - 1 : FlipBytes(in_buf, p, 1) \subseteq tried

\* The stages that are over have been everywhere, this one at the positions before i.
StagesTried ==
  PastFlips /\ NothingSkipped =>
    \A stage \in DOMAIN Stages :
      /\ StageRank[stage] < StageRank[pc] => AllTried(stage, Len(in_buf))
      /\ stage = pc => AllTried(stage, i)

TriedInv == BitsTried /\ BytesTried /\ StagesTried

\* Steps with which the history does not matter any more, or not yet.
Untold == /\ pc' \notin {"flip1", "flip8"} \union DOMAIN Stages
          /\ pc' = "user_over" => i' # 0 \/ j' # 0

LEMMA UntoldKeeps == Untold => TriedInv'
BY DEF Untold, TriedInv, BitsTried, BytesTried, StagesTried, PastFlips

\* Those are all the others.
LEMMA UntoldSteps ==
  ASSUME BufInv, Trims \/ UpdateChecksum \/ Over \/ OverNext \/ OverDone \/ UserInsert \/ UserInsertDone
                 \/ MarkAsDetDone \/ Havoc \/ Splices \/ abandon_entry
  PROVE  Untold
<1> USE DEF Untold, Stages
<1>1. CASE Trims \/ UpdateChecksum
  BY <1>1 DEF Trims, TrimSkip, TrimBegin, TrimTry, TrimHalve, TrimDone, UpdateChecksum
<1>2. CASE Over \/ OverNext
  <2>1. InOver /\ i \in Nat /\ j \in Nat
    BY <1>2, WhileOver DEF InOver, Over, OverNext
  <2> QED BY <1>2, <2>1 DEF Over, OverNext, InOver
<1>3. CASE OverDone \/ UserInsert \/ UserInsertDone \/ MarkAsDetDone
  BY <1>3 DEF OverDone, UserInsert, UserInsertDone, MarkAsDetDone
<1>4. CASE Havoc
  BY <1>4 DEF Havoc, havoc_stage, Stack, Tweaks, Overwrite, Delete, Clone, InsertExtra, Tweaked,
              HavocRun, HavocDone
<1>5. CASE Splices \/ abandon_entry
  BY <1>5 DEF Splices, NoPartner, Splice, Done, abandon_entry
<1> QED BY <1>1, <1>2, <1>3, <1>4, <1>5

\* Nothing is tried before the bits are walked.
LEMMA ScoreTries == ASSUME Score PROVE TriedInv'
<1>1. i' = 0 /\ pc' \in {"havoc", "flip1"}
  BY DEF Score
<1>2. 0..8 * 0 - 1 = {}
  OBVIOUS
<1> QED BY <1>1, <1>2 DEF TriedInv, BitsTried, BytesTried, StagesTried, PastFlips, Stages

\* Eight bits more.
LEMMA Flip1Tries == ASSUME BufInv, TriedInv, Flip1 PROVE TriedInv'
<1>1. /\ pc = "flip1" /\ pc' = "flip1" /\ i' = i + 1 /\ in_buf' = in_buf
      /\ tried' = tried \union {Flip(in_buf, 8 * i + n, 1) : n \in 0..7}
  BY DEF Flip1, buffers
<1>2. i \in Nat
  BY <1>1 DEF BufInv, TokensSorted, BufferTypes
<1>3. ASSUME NEW b \in 0..8 * (i + 1) - 1 PROVE Flip(in_buf, b, 1) \in tried'
  <2>1. CASE b < 8 * i
    <3>1. b \in 0..8 * i - 1
      BY <1>2, <2>1
    <3> QED BY <1>1, <3>1 DEF TriedInv, BitsTried
  <2>2. CASE b >= 8 * i
    <3>1. b - 8 * i \in 0..7 /\ 8 * i + (b - 8 * i) = b
      BY <1>2, <2>2
    <3> QED BY <1>1, <3>1
  <2> QED BY <1>2, <2>1, <2>2
<1> QED BY <1>1, <1>3 DEF TriedInv, BitsTried, BytesTried, StagesTried, PastFlips, Stages

\* The single bits are walked; two and four at a time follow.
LEMMA Flip2and4Tries == ASSUME BufInv, TriedInv, Flip2and4 PROVE TriedInv'
<1>1. /\ pc = "flip1" /\ i = Len(in_buf) /\ pc' = "flip8" /\ i' = 0 /\ in_buf' = in_buf
      /\ tried' = tried \union (FlipBits(in_buf, 2) \union FlipBits(in_buf, 4))
  BY DEF Flip2and4, buffers
<1>2. Len(in_buf) \in Nat
  BY DEF BufInv, BufferTypes
<1>3. FlipBits(in_buf, 1) \subseteq tried
  <2>1. FlipBits(in_buf, 1) = {Flip(in_buf, from, 1) : from \in 0..8 * Len(in_buf) - 1}
    BY DEF FlipBits
  <2> QED BY <1>1, <2>1 DEF TriedInv, BitsTried
<1>4. \A n \in {1, 2, 4} : FlipBits(in_buf, n) \subseteq tried'
  BY <1>1, <1>3
<1>5. 0 \in 0..Len(in_buf) /\ 0..0 - 1 = {}
  BY <1>2
<1> QED BY <1>1, <1>4, <1>5 DEF TriedInv, BitsTried, BytesTried, StagesTried, PastFlips, Stages

\* One byte more.
LEMMA Flip8Tries == ASSUME BufInv, TriedInv, Flip8 PROVE TriedInv'
<1>1. /\ pc = "flip8" /\ pc' = "flip8" /\ i < Len(in_buf) /\ i' = i + 1 /\ in_buf' = in_buf
      /\ tried' = tried \union FlipBytes(in_buf, i, 1)
  BY DEF Flip8, buffers
<1>2. Len(in_buf) \in Nat /\ i \in 0..Len(in_buf)
  BY <1>1 DEF BufInv, BufferTypes, TriedInv, BytesTried
<1>3. i + 1 \in 0..Len(in_buf) /\ \A p \in 0..(i + 1) - 1 : p = i \/ p \in 0..i - 1
  BY <1>1, <1>2
<1>4. \A p \in 0..(i + 1) - 1 : FlipBytes(in_buf, p, 1) \subseteq tried'
  BY <1>1, <1>3 DEF TriedInv, BytesTried
<1>5. \A n \in {1, 2, 4} : FlipBits(in_buf, n) \subseteq tried'
  BY <1>1 DEF TriedInv, BitsTried
<1> QED BY <1>1, <1>3, <1>4, <1>5
        DEF TriedInv, BitsTried, BytesTried, StagesTried, PastFlips, Stages

\* All the bytes; no later stage has been anywhere.
LEMMA Flip8DoneTries == ASSUME BufInv, TriedInv, Flip8Done PROVE TriedInv'
<1>1. /\ pc = "flip8" /\ i = Len(in_buf) /\ pc' = "flip16" /\ i' = 0
      /\ UNCHANGED <<in_buf, tried>>
  BY DEF Flip8Done, buffers
<1>2. BitsTried' /\ BytesTried'
  BY <1>1 DEF TriedInv, BitsTried, BytesTried, PastFlips, Stages
<1>3. \A stage \in DOMAIN Stages : ~(StageRank[stage] < StageRank["flip16"])
  BY DEF Stages, StageRank
<1>4. \A stage : AllTried(stage, 0)'
  BY DEF AllTried
<1> QED BY <1>1, <1>2, <1>3, <1>4 DEF TriedInv, StagesTried

\* With nothing left out of the map, each position is worth fuzzing.
LEMMA EverywhereEffective ==
  ASSUME NEW n \in Nat \ {0}, Len(in_buf) \in Nat, NEW p \in 0..Len(in_buf) - n,
         eff_map = Blocks
  PROVE  Effective(p, n)
<1>1. Len(in_buf) \in Nat \ {0} /\ p \in 0..Len(in_buf) - 1 /\ p \in p..p + n - 1
  OBVIOUS
<1>2. EFF_APOS(p) \in eff_map
  BY <1>1, BlocksOfBytes DEF Blocks
<1> QED BY <1>1, <1>2 DEF Effective

\* One position more, unless it is not worth fuzzing.
LEMMA InStageTries == ASSUME BufInv, TriedInv, InStage PROVE TriedInv'
<1>1. /\ pc \in DOMAIN Stages /\ pc' = pc /\ i' = i + 1 /\ i <= Len(in_buf) - Stages[pc]
      /\ tried' = IF Effective(i, Stages[pc]) THEN tried \union Tries(pc, i) ELSE tried
      /\ UNCHANGED <<in_buf, start, eff_map>>
  BY DEF InStage, buffers, entry_vars
<1>2. i \in Nat /\ Len(in_buf) \in Nat
  BY <1>1 DEF BufInv, BufferTypes, TriedInv, BytesTried, PastFlips
<1>3. tried \subseteq tried'
  BY <1>1
<1>4. BitsTried' /\ BytesTried'
  <2>1. pc' \notin {"flip1", "flip8"} /\ PastFlips
    BY <1>1 DEF PastFlips, Stages
  <2> QED BY <1>1, <1>2, <1>3, <2>1 DEF TriedInv, BitsTried, BytesTried
<1>5. \A stage, n : AllTried(stage, n) => AllTried(stage, n)'
  BY <1>1, <1>3 DEF AllTried, Tries
<1>6. ASSUME NothingSkipped, AllTried(pc, i) PROVE AllTried(pc, i)'
  <2>1. Stages[pc] \in Nat \ {0}
    BY <1>1 DEF Stages
  <2>2. i \in 0..Len(in_buf) - Stages[pc]
    BY <1>1, <1>2, <2>1
  <2>3. Effective(i, Stages[pc])
    BY <1>2, <1>6, <2>1, <2>2, EverywhereEffective DEF NothingSkipped
  <2>4. Tries(pc, i) \subseteq tried' /\ \A p : Tries(pc, p)' = Tries(pc, p)
    BY <1>1, <2>3 DEF Tries
  <2>5. ASSUME NEW p \in 0..Len(in_buf) - Stages[pc], p < i + 1
        PROVE  Tries(pc, p) \subseteq tried'
    <3>1. CASE p < i
      BY <1>3, <1>6, <3>1 DEF AllTried
    <3>2. CASE ~(p < i)
      <4>1. p \in Int
        OBVIOUS
      <4>2. p = i
        BY <1>2, <2>5, <3>2, <4>1
      <4> QED BY <2>4, <4>2
    <3> QED BY <3>1, <3>2
  <2>6. \A p \in 0..Len(in_buf) - Stages[pc] : p < i + 1 => Tries(pc, p)' \subseteq tried'
    BY <2>4, <2>5
  <2> QED BY <1>1, <2>6 DEF AllTried
<1>7. NothingSkipped' <=> NothingSkipped
  BY <1>1 DEF NothingSkipped, Blocks
<1>8. StagesTried'
  <2> SUFFICES ASSUME NothingSkipped', NEW stage \in DOMAIN Stages
               PROVE  /\ StageRank[stage] < StageRank[pc'] => AllTried(stage, Len(in_buf))'
                      /\ stage = pc' => AllTried(stage, i)'
    BY DEF StagesTried
  <2>1. /\ StageRank[stage] < StageRank[pc] => AllTried(stage, Len(in_buf))
        /\ stage = pc => AllTried(stage, i)
    BY <1>1, <1>7 DEF TriedInv, StagesTried, PastFlips
  <2>2. StageRank[stage] < StageRank[pc] => AllTried(stage, Len(in_buf))'
    BY <1>1, <1>5, <2>1
  <2>3. stage = pc => AllTried(stage, i)'
    BY <1>1, <1>6, <1>7, <2>1
  <2> QED BY <1>1, <2>2, <2>3
<1> QED BY <1>4, <1>8 DEF TriedInv

\* This stage has been everywhere, the next nowhere.
LEMMA EndStageTries == ASSUME BufInv, TriedInv, EndStage PROVE TriedInv'
<1>1. /\ pc \in DOMAIN Stages /\ pc' = Following[pc] /\ i' = 0
      /\ i > Len(in_buf) - Stages[pc] \/ (start.no_arith /\ pc \in NoArith)
      /\ UNCHANGED <<in_buf, start, eff_map, tried>>
  BY DEF EndStage, buffers, entry_vars
<1>2. i \in Nat /\ Len(in_buf) \in Nat
  BY <1>1 DEF BufInv, BufferTypes, TriedInv, BytesTried, PastFlips
<1>3. BitsTried' /\ BytesTried'
  <2>1. pc' \notin {"flip1", "flip8"} /\ PastFlips
    BY <1>1 DEF PastFlips, Stages, Following
  <2> QED BY <1>1, <2>1 DEF TriedInv, BitsTried, BytesTried
<1>4. \A stage \in DOMAIN Stages :
        StageRank[stage] < StageRank[Following[pc]] =>
          StageRank[stage] < StageRank[pc] \/ stage = pc
  BY <1>1 DEF Stages, StageRank, Following
<1>5. ASSUME NothingSkipped, AllTried(pc, i) PROVE AllTried(pc, Len(in_buf))
  <2>1. \A p \in 0..Len(in_buf) - Stages[pc] : p < i
    <3>1. i > Len(in_buf) - Stages[pc] /\ Stages[pc] \in Nat
      BY <1>1, <1>5 DEF NothingSkipped, Stages
    <3> QED BY <1>2, <3>1
  <2> QED BY <1>5, <2>1 DEF AllTried
<1>6. \A stage, n : AllTried(stage, n)' <=> AllTried(stage, n)
  BY <1>1 DEF AllTried, Tries
<1>7. \A stage : AllTried(stage, 0)
  BY DEF AllTried
<1>8. NothingSkipped' <=> NothingSkipped
  BY <1>1 DEF NothingSkipped, Blocks
<1>9. StagesTried'
  <2> SUFFICES ASSUME NothingSkipped', NEW stage \in DOMAIN Stages
               PROVE  /\ StageRank[stage] < StageRank[pc'] => AllTried(stage, Len(in_buf))'
                      /\ stage = pc' => AllTried(stage, i)'
    BY DEF StagesTried
  <2>1. /\ StageRank[stage] < StageRank[pc] => AllTried(stage, Len(in_buf))
        /\ AllTried(pc, i)
    BY <1>1, <1>8 DEF TriedInv, StagesTried, PastFlips
  <2>2. StageRank[stage] < StageRank[pc'] => AllTried(stage, Len(in_buf))
    BY <1>1, <1>4, <1>5, <1>8, <2>1
  <2> QED BY <1>1, <1>6, <1>7, <2>2
<1> QED BY <1>3, <1>9 DEF TriedInv

LEMMA TriedKept == BufInv /\ TriedInv /\ [Next]_vars => TriedInv'
<1> SUFFICES ASSUME BufInv, TriedInv, [Next]_vars PROVE TriedInv'
  OBVIOUS
<1>1. CASE Trims \/ UpdateChecksum \/ Havoc \/ Splices \/ abandon_entry
  BY <1>1, UntoldSteps, UntoldKeeps
<1>2. CASE Score
  BY <1>2, ScoreTries
<1>3. CASE Deterministic
  BY <1>3, Flip1Tries, Flip2and4Tries, Flip8Tries, Flip8DoneTries, InStageTries, EndStageTries,
     UntoldSteps, UntoldKeeps
  DEF Deterministic
<1>4. CASE UNCHANGED vars
  <2>1. UNCHANGED <<pc, in_buf, i, j, tried, eff_map, start>>
    BY <1>4 DEF vars, entry_vars, buffers, loops, effects
  <2> QED BY <2>1 DEF TriedInv, BitsTried, BytesTried, StagesTried, PastFlips, AllTried, Tries,
                      NothingSkipped, Blocks
<1> QED BY <1>1, <1>2, <1>3, <1>4 DEF Next, Stays

\* Once the last stage is over, all that any of them tries has been tried.
LEMMA ReachedIsTried ==
  ASSUME BufInv, TriedInv, pc = "user_over", i = 0, j = 0, NothingSkipped,
         NEW v, Reached(in_buf, v)
  PROVE  v \in tried
<1>1. \A n \in {1, 2, 4} : FlipBits(in_buf, n) \subseteq tried
  BY DEF TriedInv, BitsTried, PastFlips
<1>2. \A p \in 0..Len(in_buf) - 1 : FlipBytes(in_buf, p, 1) \subseteq tried
  BY DEF TriedInv, BytesTried, PastFlips
<1>3. ASSUME NEW stage \in DOMAIN Stages, NEW p \in 0..Len(in_buf) - Stages[stage]
      PROVE  Tries(stage, p) \subseteq tried
  <2>1. StageRank[stage] < StageRank["user_over"]
    BY DEF Stages, StageRank
  <2>2. AllTried(stage, Len(in_buf))
    BY <2>1 DEF TriedInv, StagesTried, PastFlips
  <2>3. Stages[stage] \in Nat \ {0} /\ Len(in_buf) \in Nat
    BY DEF Stages, BufInv, BufferTypes
  <2>4. p < Len(in_buf)
    BY <2>3
  <2> QED BY <2>2, <2>4 DEF AllTried
<1>4. /\ DOMAIN Stages =
           {"flip16", "arith16", "int16", "flip32", "arith32", "int32", "arith8", "int8"}
      /\ Stages["arith8"] = 1 /\ Stages["int8"] = 1
      /\ Stages["flip16"] = 2 /\ Stages["arith16"] = 2 /\ Stages["int16"] = 2
      /\ Stages["flip32"] = 4 /\ Stages["arith32"] = 4 /\ Stages["int32"] = 4
  BY DEF Stages
<1>5. \A p \in 0..Len(in_buf) - 1 :
        Arith(in_buf, p, 1) \subseteq tried /\ Interest(in_buf, p, 1) \subseteq tried
  BY <1>3, <1>4 DEF Tries
<1>6. \A p \in 0..Len(in_buf) - 2 :
        /\ FlipBytes(in_buf, p, 2) \subseteq tried
        /\ Arith(in_buf, p, 2) \subseteq tried /\ Interest(in_buf, p, 2) \subseteq tried
  BY <1>3, <1>4 DEF Tries
<1>7. \A p \in 0..Len(in_buf) - 4 :
        /\ FlipBytes(in_buf, p, 4) \subseteq tried
        /\ Arith(in_buf, p, 4) \subseteq tried /\ Interest(in_buf, p, 4) \subseteq tried
  BY <1>3, <1>4 DEF Tries
<1>8. PICK n \in {1, 2, 4} : v \in FlipBits(in_buf, n) \/ \E p \in 0..Len(in_buf) - n :
        v \in FlipBytes(in_buf, p, n) \/ v \in Arith(in_buf, p, n) \/ v \in Interest(in_buf, p, n)
  BY DEF Reached, IsFlip
<1>9. CASE v \in FlipBits(in_buf, n)
  BY <1>1, <1>9
<1>10. CASE ~(v \in FlipBits(in_buf, n))
  <2> PICK p \in 0..Len(in_buf) - n :
        v \in FlipBytes(in_buf, p, n) \/ v \in Arith(in_buf, p, n) \/ v \in Interest(in_buf, p, n)
    BY <1>8, <1>10
  <2>1. CASE n = 1
    BY <1>2, <1>5, <2>1
  <2>2. CASE n = 2
    BY <1>6, <2>2
  <2>3. CASE n = 4
    BY <1>7, <2>3
  <2> QED BY <2>1, <2>2, <2>3
<1> QED BY <1>9, <1>10

LEMMA TriedInit == Init => TriedInv
BY DEF Init, TriedInv, BitsTried, BytesTried, StagesTried, PastFlips, Stages

\* could_be_bitflip(), could_be_arith() and could_be_interest() leave nothing out that
\* was not tried: when the dictionaries begin, each flip, sum and interesting value at
\* each position has been run, but for the flips of two or four bits across two bytes
\* that could_be_bitflip() takes for walking ones.
THEOREM ShortCutsAreSound == Spec => []NothingUntried
<1>1. BufInv /\ TriedInv => NothingUntried
  <2> SUFFICES ASSUME BufInv, TriedInv, pc = "user_over", i = 0, j = 0, NothingSkipped,
                      NEW v \in Variants(in_buf)
               PROVE  v \in tried \/ Straddles(in_buf, v)
    BY DEF NothingUntried, NothingSkipped
  <2>1. in_buf \in Seq(Bytes)
    BY DEF BufInv, BufferTypes
  <2> QED BY <2>1, VariantsCovered, ReachedIsTried
<1>2. Spec => []TriedInv
  BY TriedInit, BufInit, LengthKept, BufKept, TriedKept, PTL DEF Spec
<1> QED BY <1>1, <1>2, BufAlways, PTL
=============================================================================
