------------------------------- MODULE FuzzOne -------------------------------
(***************************************************************************)
(* fuzz_one(): one entry of the queue is trimmed, put through the          *)
(* deterministic stages, havoc and splicing, or abandoned on the way.      *)
(* Every run of the target is here the buffer it is given.  The trace of a *)
(* whole run is a function of that buffer and of the mode of the trace     *)
(* unit; a run that overflows, times out or varies may leave another.  A   *)
(* trace is read only in the step that takes it.                           *)
(***************************************************************************)
EXTENDS Mutations

CONSTANTS
  Starts,              \* entries as fuzz_one() may find them, with its options,
                       \* mode and tokens
  Trace(_, _),         \* what a whole run covers: mode, buffer
  Odd,                 \* the checksums that other runs may leave
  etm_mode,            \* 1, 2 (address, atoms) or 3 (both)
  extras,              \* the user's dictionary, sorted by length
  Others,              \* the other cases of the queue
  Scores,              \* what calculate_score() returns, in hundreds
  TRIM_START_STEPS, TRIM_END_STEPS, TRIM_MIN_BYTES,
  EFF_MAP_SCALE2, EFF_MIN_LEN, EFF_MAX_PERC,
  MIN_AUTO_EXTRA, MAX_AUTO_EXTRA, MAX_AUTO_EXTRAS, USE_AUTO_EXTRAS, MAX_DET_EXTRAS,
  MAX_FILE,
  HAVOC_STACK_POW2, HAVOC_MIN, HAVOC_MAX_MULT, SPLICE_CYCLES,
  HAVOC_BLK,           \* lengths a block operation may choose (choose_block_len)
  MaxFinds             \* bound: finds of one havoc stage

VARIABLES
  pc,
  start,               \* the member of Starts: case, trim_done, options
  entry,               \* the mapped case: its length is queue_cur->len
  file,                \* the entry's file
  passed_det,
  atom_cksum,
  in_buf, out_buf,     \* out_buf with all that is allocated for it
  temp_len,
  i, j, last_len,      \* loop counters, as the stage uses them
  tried,               \* history: the buffers run by the deterministic stages, and by
                       \* the last step with a dictionary
  misled,              \* history: the case was last trimmed on the word of a run that
                       \* was not whole, though it lost no packets
  seen,                \* history: for each byte, the mode in which a whole trace of its
                       \* flip was seen, or Unsure
  eff_map,             \* the blocks of the buffer that are worth fuzzing
  a_collect, prev_cksum,
  a_extras,            \* tokens found, the best of them sorted by length
  remove_len, remove_pos,
  splice_cycle, orig_perf, perf_score, stage_max,
  finds

entry_vars == <<start, entry, file, passed_det, atom_cksum, misled>>
buffers == <<in_buf, out_buf, temp_len>>
loops == <<i, j, last_len>>
tokens == <<a_collect, prev_cksum, a_extras>>
trims == <<remove_len, remove_pos>>
effects == <<seen, eff_map>>
havoc == <<splice_cycle, orig_perf, perf_score, stage_max, finds>>
vars == <<pc, entry_vars, buffers, loops, tried, effects, tokens,
          trims, havoc>>

Address == 1
Atoms == 0
Cksum(mode, buf) == <<mode, Trace(mode, buf)>>
NoCksum == <<>>

\* As earlier runs of the case left it, which may have overflowed.
exec_cksum == start.exec_cksum
ExecMode == IF etm_mode = 2 THEN Atoms ELSE Address

\* The mode of a run: in hybrid mode save_if_interesting() runs a case with new atom
\* coverage again, in address mode, and may leave that mode set.
Modes ==
  CASE etm_mode = 1 -> {Address} [] etm_mode = 2 -> {Atoms} [] OTHER -> {Atoms, Address}
Unsure == 2

\* What a run of common_fuzz_stuff() leaves in last_mode and in the map.  A calibration
\* of the case that begins in address mode ends with an atom run, and leaves the
\* address trace.
Runs(buf) ==
  {[mode |-> mode, cksum |-> Cksum(mode, buf)] : mode \in Modes}
  \union [mode : Modes, cksum : Odd]
  \union [mode : Modes \intersect {Atoms},
          cksum : {Cksum(mode, buf) : mode \in Modes \intersect {Address}}]

Init ==
  /\ pc = "trim"
  /\ start \in Starts
  /\ entry = start.case /\ file = start.case /\ passed_det = FALSE
  /\ atom_cksum = start.atom_cksum
  /\ in_buf = start.case /\ out_buf = <<>> /\ temp_len = 0
  /\ i = 0 /\ j = 0 /\ last_len = 0
  /\ tried = {} /\ seen = <<>> /\ eff_map = {}
  /\ a_collect = <<>> /\ prev_cksum = NoCksum /\ a_extras = start.tokens
  /\ remove_len = 0 /\ remove_pos = 0 /\ misled = FALSE
  /\ splice_cycle = 0 /\ orig_perf = 1 /\ perf_score = 1 /\ stage_max = 0 /\ finds = 0

-----------------------------------------------------------------------------
(* trim_case(). *)

next_p2(val) == Min({p \in {2^n : n \in 0..30} : p >= val})

\* Dictionaries are sorted by the length of their tokens (load_extras).
ByLength(dict) == \A m, n \in DOMAIN dict : m <= n => Len(dict[m]) <= Len(dict[n])

\* The tokens of a_extras that are used in place.
Best(dict) == [n \in 1..Min({USE_AUTO_EXTRAS, Len(dict)}) |-> dict[n].data]

\* The options and the sizes of the code; the last two conjuncts are arithmetic.
ASSUME FuzzOneAssumption ==
  /\ etm_mode \in 1..3
  /\ {MAX_FILE, MAX_AUTO_EXTRAS, USE_AUTO_EXTRAS} \subseteq Nat
  /\ \A s \in Starts :
       /\ s.case \in Seq(0..255) /\ Len(s.case) \in 1..MAX_FILE
       /\ s.tokens \in Seq([data : Seq(0..255), hit_cnt : Nat])
       /\ ByLength(Best(s.tokens))
  /\ extras \in Seq(Seq(0..255)) /\ ByLength(extras)
  /\ \A target \in Others : target \in Seq(0..255) /\ Len(target) \in 1..MAX_FILE
  /\ HAVOC_BLK \in Seq(Nat \ {0}) /\ HAVOC_BLK # <<>>
  /\ \A m, n \in DOMAIN HAVOC_BLK : m <= n => HAVOC_BLK[m] <= HAVOC_BLK[n]
  /\ {TRIM_START_STEPS, TRIM_END_STEPS, TRIM_MIN_BYTES} \subseteq Nat \ {0}
  /\ 2^EFF_MAP_SCALE2 \in Nat \ {0}
  /\ \A n \in 1..MAX_FILE : next_p2(n) \in Nat

Cut(buf, from, n) == SubSeq(buf, 1, from) \o SubSeq(buf, from + n + 1, Len(buf))

TrimSkip ==
  /\ pc = "trim" /\ (start.trim_done \/ Len(entry) < 5)
  /\ pc' = "checksum"
  /\ UNCHANGED <<entry_vars, buffers, loops, tried, effects, tokens, trims, havoc>>

TrimBegin ==
  /\ pc = "trim" /\ ~start.trim_done /\ Len(entry) >= 5
  /\ pc' = "trim_loop"
  /\ remove_len' = Max({next_p2(Len(entry)) \div TRIM_START_STEPS, TRIM_MIN_BYTES})
  /\ remove_pos' = remove_len'
  /\ UNCHANGED <<entry_vars, buffers, loops, tried, effects, tokens, havoc>>

\* The last step follows the shortened length.
TrimGoesOn == remove_len >= Max({next_p2(Len(entry)) \div TRIM_END_STEPS, TRIM_MIN_BYTES})

\* (Mutant) a trace that has lost packets is compared.
SameCksum(cksum, overflow_nums) == cksum = exec_cksum

\* Did a deletion have no impact on the trace?
NoImpact(cksum, overflow_nums) == cksum = exec_cksum /\ overflow_nums = 0

\* A run without a part of the case: the part goes for good if the trace is the
\* entry's.  A trace that overflowed may look like anything.
TrimTry ==
  /\ pc = "trim_loop" /\ TrimGoesOn /\ remove_pos < Len(entry)
  /\ LET gap == Cut(entry, remove_pos, remove_len)
         whole == Cksum(ExecMode, gap)
         Left(overflow_nums) == {whole} \union Odd \union
                                  (IF overflow_nums = 1 THEN {exec_cksum} ELSE {})
     IN \E overflow_nums \in 0..1 : \E cksum \in Left(overflow_nums) :
          IF NoImpact(cksum, overflow_nums)
          THEN /\ entry' = gap /\ misled' = (overflow_nums = 0 /\ cksum # whole)
               /\ UNCHANGED remove_pos
          ELSE remove_pos' = remove_pos + remove_len /\ UNCHANGED <<entry, misled>>
  /\ UNCHANGED <<pc, start, file, passed_det, atom_cksum, buffers, loops, tried, effects,
                 tokens, remove_len, havoc>>

TrimHalve ==
  /\ pc = "trim_loop" /\ TrimGoesOn /\ remove_pos >= Len(entry)
  /\ remove_len' = remove_len \div 2 /\ remove_pos' = remove_len'
  /\ UNCHANGED <<pc, entry_vars, buffers, loops, tried, effects, tokens, havoc>>

\* The file is rewritten if the case has changed.
TrimDone ==
  /\ pc = "trim_loop" /\ ~TrimGoesOn /\ pc' = "checksum"
  /\ file' = entry
  /\ UNCHANGED <<start, entry, passed_det, atom_cksum, misled, buffers, loops, tried, effects,
                 tokens, trims, havoc>>

-----------------------------------------------------------------------------
(* The start of the stages, and how a run ends them. *)

\* update_checksum_in_hybrid_mode(): the case is run in the mode that is set, and its
\* checksum is stored if nothing overflowed; only then is atom mode set.
UpdateChecksum ==
  /\ pc = "checksum" /\ pc' = "score"
  /\ atom_cksum' \in IF etm_mode = 3
                    THEN {Cksum(start.bb_mode, entry), atom_cksum} \union Odd
                    ELSE {atom_cksum}
  /\ UNCHANGED <<start, entry, file, passed_det, misled, buffers, loops, tried, effects, tokens,
                 trims, havoc>>

Random(size) == [p \in 1..size |-> -1]

\* out_buf was allocated, uninitialised, before the case was trimmed.
Score ==
  /\ pc = "score"
  /\ in_buf' = entry /\ temp_len' = Len(entry)
  /\ out_buf' = entry \o Random(Len(start.case) - Len(entry))
  /\ orig_perf' \in Scores /\ perf_score' = orig_perf'
  /\ pc' = IF start.skip_deterministic THEN "havoc" ELSE "flip1"
  /\ i' = 0 /\ prev_cksum' = exec_cksum
  /\ UNCHANGED <<entry_vars, j, last_len, tried, effects, a_collect, a_extras, trims,
                 splice_cycle, stage_max, finds>>

\* The end of fuzz_one() frees its buffers; its other locals go with it.
Leave ==
  /\ in_buf' = entry /\ out_buf' = <<>> /\ temp_len' = 0
  /\ seen' = <<>> /\ eff_map' = {}
  /\ i' = 0 /\ j' = 0 /\ last_len' = 0 /\ tried' = {}
  /\ a_collect' = <<>> /\ prev_cksum' = NoCksum /\ remove_len' = 0 /\ remove_pos' = 0
  /\ splice_cycle' = 0 /\ orig_perf' = 1 /\ perf_score' = 1 /\ stage_max' = 0 /\ finds' = 0
  /\ UNCHANGED <<entry_vars, a_extras>>

\* Any run may be the last: the user stops or skips, or it timed out once too often.
abandon_entry ==
  /\ pc \notin {"trim", "score", "done", "abandoned"} /\ pc' = "abandoned"
  /\ pc = "checksum" => ~start.trim_done
  /\ Leave

-----------------------------------------------------------------------------
(* The walking bits, and the tokens they show. *)

\* The order of a dictionary after sort_a_extras: the most used tokens first, the best
\* of them then by length.
Ordered(dict) ==
  /\ ByLength(Best(dict))
  /\ \A n \in USE_AUTO_EXTRAS + 1..Len(dict) : \A m \in 1..n :
       dict[m].hit_cnt >= dict[n].hit_cnt

Sorted(dict) ==
  {d \in {[n \in DOMAIN dict |-> dict[order[n]]] :
          order \in Bijection(DOMAIN dict, DOMAIN dict)} : Ordered(d)}

Lower(token) ==
  [p \in DOMAIN token |-> IF token[p] \in 65..90 THEN token[p] + 32 ELSE token[p]]
memcmp_nocase(a, b) == Lower(a) = Lower(b)

\* What a_extras may become; a full one gives up a token of its lower half.
maybe_add_auto(known, token) ==
  LET same == {n \in DOMAIN known : memcmp_nocase(known[n].data, token)}
      new == [data |-> token, hit_cnt |-> 0]
  IN IF \/ MAX_AUTO_EXTRAS = 0 \/ USE_AUTO_EXTRAS = 0
        \/ \A p \in 1..Len(token) : token[p] = token[1]
        \/ token \in interesting_16 \union interesting_32
        \/ SWAP(token) \in interesting_16 \union interesting_32
        \/ \E n \in DOMAIN extras : memcmp_nocase(extras[n], token)
     THEN {known}
     ELSE IF same # {} THEN Sorted([known EXCEPT ![Min(same)].hit_cnt = @ + 1])
     ELSE IF Len(known) < MAX_AUTO_EXTRAS THEN Sorted(Append(known, new))
     ELSE UNION {Sorted([known EXCEPT ![n] = new]) :
                   n \in MAX_AUTO_EXTRAS \div 2 + 1..MAX_AUTO_EXTRAS}

\* The bytes at the collected positions.
Token(ps) == [n \in DOMAIN ps |-> in_buf[ps[n] + 1]]

\* After the lowest bit of byte i: the bytes collected so far are a token if this
\* one makes another difference, or is the last.
Collect(cksum) ==
  LET last == i = Len(in_buf) - 1
      ended == IF last /\ cksum = prev_cksum THEN Append(a_collect, i) ELSE a_collect
      rest == IF cksum # prev_cksum THEN <<>> ELSE ended
  IN /\ a_extras' \in
          IF (cksum # prev_cksum \/ last) /\ Len(ended) \in MIN_AUTO_EXTRA..MAX_AUTO_EXTRA
          THEN maybe_add_auto(a_extras, Token(ended)) ELSE {a_extras}
     /\ prev_cksum' = cksum
     /\ a_collect' = IF cksum # exec_cksum THEN Append(rest, i) ELSE rest

Flip1 ==
  /\ pc = "flip1" /\ i < Len(in_buf)
  /\ tried' = tried \union {Flip(in_buf, 8 * i + n, 1) : n \in 0..7}
  /\ \E run \in Runs(Flip(in_buf, 8 * i + 7, 1)) : Collect(run.cksum)
  /\ i' = i + 1
  /\ UNCHANGED <<pc, entry_vars, buffers, j, last_len, effects, trims, havoc>>

EFF_APOS(p) == p \div 2^EFF_MAP_SCALE2
Blocks == 0..EFF_APOS(Len(in_buf) - 1)
Dense(blocks) == (Cardinality(blocks) * 100) \div Cardinality(Blocks) > EFF_MAX_PERC

\* No later stage collects bytes.
Flip2and4 ==
  /\ pc = "flip1" /\ i = Len(in_buf) /\ pc' = "flip8"
  /\ tried' = tried \union (FlipBits(in_buf, 2) \union FlipBits(in_buf, 4))
  /\ i' = 0 /\ a_collect' = <<>> /\ prev_cksum' = NoCksum
  /\ eff_map' = {0, EFF_APOS(Len(in_buf) - 1)} /\ seen' = <<>>
  /\ UNCHANGED <<entry_vars, buffers, j, last_len, a_extras, trims, havoc>>

\* (Mutant) an atom trace is compared with the checksum of an address trace.
DiffersFromExec(mode, cksum) == cksum # exec_cksum

\* The checksum of the entry that a trace of this mode is compared with.
Stored(mode) == IF etm_mode = 3 /\ mode = Atoms THEN atom_cksum ELSE exec_cksum

\* Does the trace of a run differ from the entry's in the same mode?
HasEffect(mode, cksum) == cksum # Stored(mode)

\* A short case is worth fuzzing everywhere.
Flip8 ==
  /\ pc = "flip8" /\ i < Len(in_buf)
  /\ tried' = tried \union FlipBytes(in_buf, i, 1)
  /\ LET flipped == Flip(in_buf, 8 * i, 8)
     IN \E run \in Runs(flipped) :
          /\ eff_map' = IF Len(in_buf) < EFF_MIN_LEN \/ HasEffect(run.mode, run.cksum)
                        THEN eff_map \union {EFF_APOS(i)} ELSE eff_map
          /\ seen' = Append(seen, IF run.cksum = Cksum(run.mode, flipped)
                                  THEN run.mode ELSE Unsure)
  /\ i' = i + 1
  /\ UNCHANGED <<pc, entry_vars, buffers, j, last_len, tokens, trims, havoc>>

Flip8Done ==
  /\ pc = "flip8" /\ i = Len(in_buf) /\ pc' = "flip16" /\ i' = 0
  /\ eff_map' = IF eff_map # Blocks /\ Dense(eff_map) THEN Blocks ELSE eff_map
  /\ UNCHANGED <<seen, entry_vars, buffers, j, last_len, tried, tokens, trims, havoc>>

-----------------------------------------------------------------------------
(* Words, arithmetic and interesting values. *)

Stages == [flip16 |-> 2, flip32 |-> 4, arith8 |-> 1, arith16 |-> 2, arith32 |-> 4,
           int8 |-> 1, int16 |-> 2, int32 |-> 4]
Following == [flip16 |-> "flip32", flip32 |-> "arith8", arith8 |-> "arith16",
              arith16 |-> "arith32", arith32 |-> "int8", int8 |-> "int16",
              int16 |-> "int32", int32 |-> "user_over"]
NoArith == {"arith8", "arith16", "arith32", "int16", "int32"}

Tries(stage, p) ==
  CASE stage \in {"flip16", "flip32"} -> FlipBytes(in_buf, p, Stages[stage])
    [] stage \in {"arith8", "arith16", "arith32"} -> Arith(in_buf, p, Stages[stage])
    [] OTHER -> Interest(in_buf, p, Stages[stage])

Effective(from, n) == \E p \in from..from + n - 1 : EFF_APOS(p) \in eff_map

InStage ==
  /\ pc \in DOMAIN Stages /\ i <= Len(in_buf) - Stages[pc]
  /\ ~(start.no_arith /\ pc \in NoArith)
  /\ tried' = IF Effective(i, Stages[pc]) THEN tried \union Tries(pc, i) ELSE tried
  /\ i' = i + 1 /\ seen' = <<>>
  /\ UNCHANGED <<pc, entry_vars, buffers, j, last_len, eff_map, tokens, trims, havoc>>

EndStage ==
  /\ pc \in DOMAIN Stages
  /\ i > Len(in_buf) - Stages[pc] \/ (start.no_arith /\ pc \in NoArith)
  /\ pc' = Following[pc] /\ i' = 0 /\ seen' = <<>>
  /\ UNCHANGED <<entry_vars, buffers, j, last_len, tried, eff_map, tokens, trims, havoc>>

-----------------------------------------------------------------------------
(* The dictionaries. *)

Dict == IF pc = "user_over" THEN extras ELSE Best(a_extras)
Here(token) == SubSeq(out_buf, i + 1, i + Len(token))

\* Token j is written over the last one at the same place; the tokens get longer.  Of
\* many, some are left out at random.
Over ==
  /\ pc \in {"user_over", "auto_over"} /\ i < Len(in_buf) /\ j < Len(Dict)
  /\ \E skip \in {FALSE, pc = "user_over" /\ Len(extras) > MAX_DET_EXTRAS} :
     LET token == Dict[j + 1]
     IN IF /\ ~skip
           /\ Len(token) <= Len(in_buf) - i
           /\ Here(token) # token
           /\ Effective(i, Len(token))
        THEN /\ out_buf' = Put(out_buf, i, token)
             /\ last_len' = Len(token)
             /\ tried' = {SubSeq(out_buf', 1, Len(in_buf))}
        ELSE tried' = {} /\ UNCHANGED <<out_buf, last_len>>
  /\ j' = j + 1
  /\ UNCHANGED <<pc, entry_vars, in_buf, temp_len, i, effects, tokens, trims, havoc>>

\* (Mutant) one byte less is put back.
RestoreShort == Put(out_buf, i, SubSeq(in_buf, i + 1, i + last_len - 1))

Restore == Put(out_buf, i, SubSeq(in_buf, i + 1, i + last_len))

OverNext ==
  /\ pc \in {"user_over", "auto_over"} /\ i < Len(in_buf) /\ j = Len(Dict)
  /\ out_buf' = Restore
  /\ i' = i + 1 /\ j' = 0 /\ last_len' = 0 /\ tried' = {}
  /\ UNCHANGED <<pc, entry_vars, in_buf, temp_len, effects, tokens, trims, havoc>>

OverDone ==
  /\ pc \in {"user_over", "auto_over"} /\ i = Len(in_buf)
  /\ pc' = (IF pc = "user_over" THEN "user_insert" ELSE "mark") /\ i' = 0
  /\ UNCHANGED <<entry_vars, buffers, j, last_len, tried, effects, tokens, trims, havoc>>

\* (Mutant) the length of the case is compared, not that of the result.
FitsWithout(token) == Len(in_buf) <= MAX_FILE

Fits(token) == Len(in_buf) + Len(token) <= MAX_FILE

UserInsert ==
  /\ pc = "user_insert" /\ i <= Len(in_buf)
  /\ tried' =
       {SubSeq(out_buf, 1, i) \o token \o SubSeq(out_buf, i + 1, Len(in_buf)) :
          token \in {e \in {extras[n] : n \in DOMAIN extras} : Fits(e)}}
  /\ i' = i + 1
  /\ UNCHANGED <<pc, entry_vars, buffers, j, last_len, effects, tokens, trims, havoc>>

UserInsertDone ==
  /\ pc = "user_insert" /\ i > Len(in_buf) /\ pc' = "auto_over" /\ i' = 0
  /\ UNCHANGED <<entry_vars, buffers, j, last_len, tried, effects, tokens, trims, havoc>>

\* mark_as_det_done().
MarkAsDetDone ==
  /\ pc = "mark" /\ pc' = "havoc" /\ passed_det' = TRUE
  /\ tried' = {}
  /\ UNCHANGED <<start, entry, file, atom_cksum, misled, buffers, loops, effects, tokens, trims,
                 havoc>>

-----------------------------------------------------------------------------
(* Havoc: the contents are random, what counts is how long the buffer is. *)

\* choose_block_len(): the bounds are neighbours in HAVOC_BLK.
choose_block_len(limit) ==
  UNION {LET lowest == IF HAVOC_BLK[n] >= limit THEN 1 ELSE HAVOC_BLK[n]
         IN lowest..Min({HAVOC_BLK[n + 1], limit}) : n \in 1..Len(HAVOC_BLK) - 1}
HAVOC_BLK_XL == Last(HAVOC_BLK)

havoc_stage ==
  /\ pc = "havoc" /\ pc' = "havoc_loop"
  /\ perf_score' = IF splice_cycle = 0 THEN perf_score ELSE orig_perf
  /\ stage_max' = Max({HAVOC_MIN, perf_score'})
  /\ temp_len' = Len(in_buf) /\ i' = 0 /\ finds' = 0
  /\ UNCHANGED <<entry_vars, in_buf, out_buf, j, last_len, tried, effects, tokens, trims,
                 splice_cycle, orig_perf>>

Stack ==
  /\ pc = "havoc_loop" /\ i < stage_max /\ pc' = "tweak"
  /\ \E n \in 1..HAVOC_STACK_POW2 : j' = 2^n
  /\ UNCHANGED <<entry_vars, buffers, i, last_len, tried, effects, tokens, trims, havoc>>

Tweaked(buf, n) ==
  /\ pc = "tweak" /\ j > 0 /\ j' = j - 1
  /\ out_buf' = buf /\ temp_len' = n
  /\ UNCHANGED <<pc, entry_vars, in_buf, i, last_len, tried, effects, tokens, trims,
                 havoc>>

\* The tweaks that change bytes, or find nothing to do.
Overwrite == Tweaked(Random(Len(out_buf)), temp_len)

Delete == \E del_len \in choose_block_len(temp_len - 1) :
  /\ temp_len >= 2
  /\ Tweaked(Random(Len(out_buf)), temp_len - del_len)

Clone == \E clone_len \in choose_block_len(temp_len) \union choose_block_len(HAVOC_BLK_XL) :
  /\ temp_len + HAVOC_BLK_XL < MAX_FILE
  /\ Tweaked(Random(temp_len + clone_len), temp_len + clone_len)

InsertExtra ==
  \E token \in {extras[n] : n \in DOMAIN extras}
                \union {a_extras[n].data : n \in DOMAIN a_extras} :
    /\ temp_len + Len(token) < MAX_FILE
    /\ Tweaked(Random(temp_len + Len(token)), temp_len + Len(token))

\* (Mutant) the buffer keeps the size that a shorter one was given.
RestoredUnsized ==
  [p \in DOMAIN out_buf |-> IF p <= Len(in_buf) THEN in_buf[p] ELSE out_buf[p]]

\* out_buf is put back in its size and shape.
Restored ==
  [p \in 1..(IF temp_len < Len(in_buf) THEN Len(in_buf) ELSE Len(out_buf)) |->
     IF p <= Len(in_buf) THEN in_buf[p] ELSE out_buf[p]]

\* The run; a find lets the stage run longer.
HavocRun ==
  /\ pc = "tweak" /\ j = 0 /\ pc' = "havoc_loop"
  /\ out_buf' = Restored /\ temp_len' = Len(in_buf)
  /\ i' = i + 1
  /\ \/ UNCHANGED <<finds, perf_score, stage_max>>
     \/ /\ finds < MaxFinds /\ finds' = finds + 1
        /\ IF perf_score <= HAVOC_MAX_MULT
           THEN stage_max' = 2 * stage_max /\ perf_score' = 2 * perf_score
           ELSE UNCHANGED <<perf_score, stage_max>>
  /\ UNCHANGED <<entry_vars, in_buf, j, last_len, tried, effects, tokens, trims,
                 splice_cycle, orig_perf>>

HavocDone ==
  /\ pc = "havoc_loop" /\ i >= stage_max /\ pc' = "splice"
  /\ UNCHANGED <<entry_vars, buffers, loops, tried, effects, tokens, trims, havoc>>

-----------------------------------------------------------------------------
(* Splicing. *)

\* (Mutant) a cycle that found no partner is not counted.
TriesAgainForFree ==
  start.use_splicing /\ splice_cycle < SPLICE_CYCLES /\ Others # {} /\ Len(entry) > 1
    /\ splice_cycle' \in {splice_cycle, splice_cycle + 1}

retry_splicing ==
  start.use_splicing /\ splice_cycle < SPLICE_CYCLES /\ Others # {} /\ Len(entry) > 1
    /\ splice_cycle' = splice_cycle + 1

\* The positions at which the cases differ.
locate_diffs(target) ==
  {p \in 0..Min({Len(entry), Len(target)}) - 1 : entry[p + 1] # target[p + 1]}

Suits(target) ==
  LET diffs == locate_diffs(target)
  IN Len(target) >= 2 /\ diffs # {} /\ Max(diffs) >= 2 /\ Min(diffs) # Max(diffs)

\* in_buf is the entry's case again before a partner is looked for.
NoPartner == \E target \in Others :
  /\ pc = "splice" /\ retry_splicing /\ ~Suits(target)
  /\ in_buf' = entry
  /\ UNCHANGED <<pc, entry_vars, out_buf, temp_len, loops, tried, effects, tokens, trims,
                 orig_perf, perf_score, stage_max, finds>>

Splice == \E target \in {t \in Others : Suits(t)} :
  /\ pc = "splice" /\ retry_splicing /\ pc' = "havoc"
  /\ \E split_at \in Min(locate_diffs(target))..Max(locate_diffs(target)) - 1 :
       in_buf' = SubSeq(entry, 1, split_at) \o SubSeq(target, split_at + 1, Len(target))
  /\ out_buf' = in_buf'
  /\ UNCHANGED <<entry_vars, temp_len, loops, tried, effects, tokens, trims, orig_perf,
                 perf_score, stage_max, finds>>

Done ==
  /\ pc = "splice" /\ pc' = "done"
  /\ \/ ~start.use_splicing \/ splice_cycle >= SPLICE_CYCLES
     \/ Others = {} \/ Len(entry) <= 1
  /\ Leave

Trims == TrimSkip \/ TrimBegin \/ TrimTry \/ TrimHalve \/ TrimDone
Deterministic ==
  \/ Flip1 \/ Flip2and4 \/ Flip8 \/ Flip8Done \/ InStage \/ EndStage
  \/ Over \/ OverNext \/ OverDone \/ UserInsert \/ UserInsertDone \/ MarkAsDetDone
Tweaks == Overwrite \/ Delete \/ Clone \/ InsertExtra
Havoc == havoc_stage \/ Stack \/ Tweaks \/ HavocRun \/ HavocDone
Splices == NoPartner \/ Splice \/ Done

Stays == Trims \/ UpdateChecksum \/ Score \/ Deterministic \/ Havoc \/ Splices
Next == Stays \/ abandon_entry

Spec == Init /\ [][Next]_vars /\ WF_vars(Stays)

-----------------------------------------------------------------------------
\* Every stage, and every round of havoc, starts from the case itself, and out_buf
\* is large enough for it.
BufferRestored ==
  pc \notin {"trim", "trim_loop", "checksum", "score", "tweak", "splice", "done",
             "abandoned"} /\ j = 0
    => /\ Len(out_buf) >= Len(in_buf)
       /\ SubSeq(out_buf, 1, Len(in_buf)) = in_buf

\* What could_be_bitflip(), could_be_arith() and could_be_interest() leave out has
\* been tried: before the dictionaries a case has been through every mutation, but for
\* those that could_be_bitflip() mistakes for flips.
NothingUntried ==
  (pc = "user_over" /\ i = 0 /\ j = 0 /\ eff_map = Blocks /\ ~start.no_arith)
    => \A buf \in Variants(in_buf) : buf \in tried \/ Straddles(in_buf, buf)

\* The effector map marks the blocks of the bytes whose flip was seen to change the
\* trace, none whose bytes were all seen to leave it, and the two ends; everything only
\* if there are many of them, or few bytes.  The flip of a byte is told if its run was
\* whole and the checksum stored for the mode it ended in is that of the case.
Told(p) == seen[p + 1] # Unsure /\ Stored(seen[p + 1]) = Cksum(seen[p + 1], in_buf)
Changes(p) == Trace(seen[p + 1], Flip(in_buf, 8 * p, 8)) # Trace(seen[p + 1], in_buf)
EffMapExact ==
  pc = "flip16" /\ i = 0 =>
    LET Places == 0..Len(in_buf) - 1
        ends == {0, EFF_APOS(Len(in_buf) - 1)}
        must == ends \union {EFF_APOS(p) : p \in {q \in Places : Told(q) /\ Changes(q)}}
        may == ends \union {EFF_APOS(p) : p \in {q \in Places : Told(q) => Changes(q)}}
    IN \E marked \in SUBSET Blocks :
         /\ must \subseteq marked /\ marked \subseteq may
         /\ eff_map = IF Len(in_buf) < EFF_MIN_LEN \/ Dense(marked) THEN Blocks ELSE marked

\* No run is given an empty case or one that a later session would refuse to read.
CasesFit ==
  /\ pc = "tweak" => temp_len \in 1..MAX_FILE
  /\ \A buf \in tried : Len(buf) \in 1..MAX_FILE

\* Trimming keeps the trace for which the case was queued, whatever overflows on the
\* way, unless a run that was not whole showed that very trace without losing packets;
\* and the file is the case that the stages work on.
TrimKeepsTrace ==
  pc \notin {"trim", "trim_loop", "abandoned"} =>
    /\ file = entry
    /\ entry = start.case \/ Cksum(ExecMode, entry) = exec_cksum \/ misled

\* fuzz_one() returns.
Returns == <>(pc \in {"done", "abandoned"})

\* "Continue collecting string, but only if the bit flip actually made any
\* difference - we don't want no-op tokens" (afl-fuzz.c): each byte of a token
\* changes the trace.
TokensHadEffect == [][
  (a_extras' # a_extras)
    => \A n \in DOMAIN a_collect : \E mode \in Modes :
         Trace(mode, Flip(in_buf, 8 * a_collect[n] + 7, 1)) # Trace(mode, in_buf)]_vars
=============================================================================
