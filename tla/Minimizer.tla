------------------------------ MODULE Minimizer ------------------------------
(***************************************************************************)
(* afl-tmin: a test case is made smaller and plainer as long as the target *)
(* goes on to crash, or to take the same path.  minimize() alternates      *)
(* passes over the case, deleting blocks and writing '0' over symbols and  *)
(* characters, until a pass changes nothing.  The target is deterministic. *)
(***************************************************************************)
EXTENDS Naturals, FiniteSetsExt, SequencesExt

CONSTANTS
  Starts,             \* [data, target, exact_mode]: what afl-tmin may be started with
  Outcome(_, _),      \* of a target and a case: [exit |-> "ok", "crash" or "hang",
                      \* cksum |-> the path, 0 when no instrumentation is seen]
  TMIN_SET_STEPS, TMIN_SET_MIN_SIZE, TRIM_START_STEPS,
  TMIN_MAX_FILE,
  LenBits             \* of a u32 length: 32

\* The last conjunct is a fact of arithmetic that the provers have no rule for.
ASSUME ConstantsAssumption ==
  /\ \A s \in Starts : s.data \in Seq(0..255) /\ Len(s.data) \in 1..TMIN_MAX_FILE
  /\ LenBits \in Nat /\ TMIN_MAX_FILE \in Nat /\ TMIN_MAX_FILE <= 2^LenBits
  /\ TRIM_START_STEPS \in Nat \ {0}
  /\ \A n \in 0..LenBits : 2^n \in Nat \ {0}

Zero == 48            \* '0'

VARIABLES
  pc,                 \* the stage, "write" after them, or how the program ended
  start,
  in_data,
  pos,                \* set_pos, del_pos or the i of the last stage
  block,              \* set_len or del_len
  prev_del, changed_any,
  later_pass,         \* cur_pass > 1
  symbols,            \* those of alpha_map still to be replaced
  crash_mode, orig_cksum,
  stop_soon,
  late,               \* history: a run that ended was taken for a hang
  out_file            \* the output, as the set of what has been written to it

loop == <<pos, block, prev_del, changed_any, later_pass, symbols>>
dry == <<crash_mode, orig_cksum>>
vars == <<pc, start, in_data, loop, dry, stop_soon, late, out_file>>

Init ==
  /\ pc = "dry"
  /\ start \in Starts
  /\ in_data = start.data
  /\ pos = 0 /\ block = 1 /\ prev_del = TRUE /\ changed_any = FALSE /\ later_pass = FALSE
  /\ symbols = {}
  /\ crash_mode = FALSE /\ orig_cksum = 0
  /\ stop_soon = FALSE /\ late = FALSE
  /\ out_file = {}

-----------------------------------------------------------------------------
(* run_target(). *)

Run(case) == Outcome(start.target, case)

\* (Mutant) a run that was killed by the timer counts as a crash.
KeepsHangs(case) ==
  IF Run(case).exit \in {"crash", "hang"}
  THEN crash_mode /\ (~start.exact_mode \/ Run(case).cksum = orig_cksum)
  ELSE ~crash_mode /\ Run(case).cksum = orig_cksum

\* Should the changes be kept?
Keep(case) ==
  /\ Run(case).exit # "hang"
  /\ IF Run(case).exit = "crash"
     THEN crash_mode /\ (~start.exact_mode \/ Run(case).cksum = orig_cksum)
     ELSE ~crash_mode /\ Run(case).cksum = orig_cksum

\* A run whose result is not looked at if the user wants to stop.  The alarm may
\* come between the end of the child and the disarming of the timer.
Judged(case, keep) ==
  /\ ~stop_soon
  /\ \/ keep = Keep(case) /\ UNCHANGED late
     \/ keep = FALSE /\ late' = (late \/ Keep(case))

next_p2(val) == Min({p \in {2^n : n \in 0..LenBits} : p >= val})

\* The dry run tells what is to be kept.  It ends the program if the target hangs, or
\* the alarm comes late, or no instrumentation is seen.
DryRun ==
  /\ pc = "dry" /\ ~stop_soon
  /\ \/ pc' = "fatal" /\ UNCHANGED <<pos, block, dry>>
     \/ /\ Run(in_data).exit = "crash" \/ (Run(in_data).exit = "ok" /\ Run(in_data).cksum # 0)
        /\ pc' = "normalize"
        /\ crash_mode' = (Run(in_data).exit = "crash")
        /\ orig_cksum' = IF crash_mode' /\ ~start.exact_mode THEN 0 ELSE Run(in_data).cksum
        /\ pos' = 0
        /\ block' = Max({next_p2(Len(in_data) \div TMIN_SET_STEPS), TMIN_SET_MIN_SIZE})
  /\ UNCHANGED <<start, in_data, prev_del, changed_any, later_pass, symbols, stop_soon, late,
                 out_file>>

-----------------------------------------------------------------------------
(* minimize(). *)

Zeroed(from, n) ==
  [p \in DOMAIN in_data |-> IF p \in from + 1..from + n THEN Zero ELSE in_data[p]]
Without(from, n) ==
  SubSeq(in_data, 1, from) \o SubSeq(in_data, from + n + 1, Len(in_data))
Replaced(sym) == [p \in DOMAIN in_data |-> IF in_data[p] = sym THEN Zero ELSE in_data[p]]

Take(case, keep) == in_data' = IF keep THEN case ELSE in_data

\* Stage 0.  What it changes does not count as a change of the first pass.
Normalize ==
  /\ pc = "normalize" /\ pos < Len(in_data)
  /\ IF Zeroed(pos, block) = in_data THEN UNCHANGED <<in_data, late>>
     ELSE \E keep \in BOOLEAN :
            Judged(Zeroed(pos, block), keep) /\ Take(Zeroed(pos, block), keep)
  /\ pos' = pos + block
  /\ UNCHANGED <<pc, start, block, prev_del, changed_any, later_pass, symbols, dry, stop_soon,
                 out_file>>

StartPass ==
  /\ pc' = "delete" /\ changed_any' = FALSE
  /\ block' = next_p2(Len(in_data) \div TRIM_START_STEPS)
  /\ pos' = 0 /\ prev_del' = TRUE

NormalizeDone ==
  /\ pc = "normalize" /\ pos >= Len(in_data)
  /\ StartPass
  /\ UNCHANGED <<start, in_data, later_pass, symbols, dry, stop_soon, late, out_file>>

\* A block like the one before it, which could not be deleted, is left alone.
Repeats ==
  /\ ~prev_del /\ pos + block < Len(in_data)
  /\ SubSeq(in_data, pos - block + 1, pos) = SubSeq(in_data, pos + 1, pos + block)

\* Stage 1.
Delete ==
  /\ pc = "delete" /\ pos < Len(in_data)
  /\ IF Repeats THEN pos' = pos + block /\ UNCHANGED <<in_data, late, prev_del, changed_any>>
     ELSE \E keep \in BOOLEAN :
            /\ Judged(Without(pos, block), keep) /\ Take(Without(pos, block), keep)
            /\ pos' = IF keep THEN pos ELSE pos + block
            /\ prev_del' = keep /\ changed_any' = (changed_any \/ keep)
  /\ UNCHANGED <<pc, start, block, later_pass, symbols, dry, stop_soon, out_file>>

SmallerBlocks ==
  /\ pc = "delete" /\ pos >= Len(in_data) /\ block > 1 /\ Len(in_data) >= 1
  /\ block' = block \div 2 /\ pos' = 0 /\ prev_del' = TRUE
  /\ UNCHANGED <<pc, start, in_data, changed_any, later_pass, symbols, dry, stop_soon, late,
                 out_file>>

DeleteDone ==
  /\ pc = "delete" /\ pos >= Len(in_data) /\ (block = 1 \/ Len(in_data) = 0)
  /\ IF later_pass /\ ~changed_any THEN pc' = "write" /\ UNCHANGED symbols
     ELSE pc' = "alphabet" /\ symbols' = {in_data[p] : p \in DOMAIN in_data} \ {Zero}
  /\ UNCHANGED <<start, in_data, pos, block, prev_del, changed_any, later_pass, dry, stop_soon,
                 late, out_file>>

\* Stage 2: every occurrence of the next symbol.
Alphabet ==
  /\ pc = "alphabet" /\ symbols # {}
  /\ LET sym == Min(symbols)
     IN /\ \E keep \in BOOLEAN :
             /\ Judged(Replaced(sym), keep) /\ Take(Replaced(sym), keep)
             /\ changed_any' = (changed_any \/ keep)
        /\ symbols' = symbols \ {sym}
  /\ UNCHANGED <<pc, start, pos, block, prev_del, later_pass, dry, stop_soon, out_file>>

AlphabetDone ==
  /\ pc = "alphabet" /\ symbols = {} /\ pc' = "chars" /\ pos' = 0
  /\ UNCHANGED <<start, in_data, block, prev_del, changed_any, later_pass, symbols, dry,
                 stop_soon, late, out_file>>

\* Stage 3.
Chars ==
  /\ pc = "chars" /\ pos < Len(in_data)
  /\ IF in_data[pos + 1] = Zero THEN UNCHANGED <<in_data, late, changed_any>>
     ELSE \E keep \in BOOLEAN :
            /\ Judged(Zeroed(pos, 1), keep) /\ Take(Zeroed(pos, 1), keep)
            /\ changed_any' = (changed_any \/ keep)
  /\ pos' = pos + 1
  /\ UNCHANGED <<pc, start, block, prev_del, later_pass, symbols, dry, stop_soon, out_file>>

\* (Mutant) there is no second pass.
CharsDoneAtOnce ==
  /\ pc = "chars" /\ pos >= Len(in_data) /\ pc' = "write"
  /\ UNCHANGED <<start, in_data, loop, dry, stop_soon, late, out_file>>

\* (Mutant) the next pass does not know whether it has changed anything.
CharsDoneNoReset ==
  /\ pc = "chars" /\ pos >= Len(in_data)
  /\ IF changed_any
     THEN /\ pc' = "delete" /\ block' = next_p2(Len(in_data) \div TRIM_START_STEPS)
          /\ pos' = 0 /\ prev_del' = TRUE /\ later_pass' = TRUE /\ UNCHANGED changed_any
     ELSE pc' = "write" /\ UNCHANGED <<changed_any, block, pos, prev_del, later_pass>>
  /\ UNCHANGED <<start, in_data, symbols, dry, stop_soon, late, out_file>>

CharsDone ==
  /\ pc = "chars" /\ pos >= Len(in_data)
  /\ IF changed_any THEN StartPass /\ later_pass' = TRUE
     ELSE pc' = "write" /\ UNCHANGED <<changed_any, block, pos, prev_del, later_pass>>
  /\ UNCHANGED <<start, in_data, symbols, dry, stop_soon, late, out_file>>

WriteOutput ==
  /\ pc = "write" /\ pc' = "done" /\ out_file' = {in_data}
  /\ UNCHANGED <<start, in_data, loop, dry, stop_soon, late>>

-----------------------------------------------------------------------------
(* SIGINT, SIGTERM or SIGHUP, which also kills the child; the run that follows or is *)
(* under way is the last.                                                            *)

handle_stop_sig ==
  /\ pc \notin {"fatal", "aborted", "done"} /\ ~stop_soon /\ stop_soon' = TRUE
  /\ UNCHANGED <<pc, start, in_data, loop, dry, late, out_file>>

\* The run under way, if the stage has one to do.
Tried ==
  CASE pc = "dry" -> {in_data}
    [] pc = "normalize" /\ pos < Len(in_data) -> {Zeroed(pos, block)} \ {in_data}
    [] pc = "delete" /\ pos < Len(in_data) /\ ~Repeats -> {Without(pos, block)}
    [] pc = "alphabet" /\ symbols # {} -> {Replaced(Min(symbols))}
    [] pc = "chars" /\ pos < Len(in_data) -> {Zeroed(pos, 1)} \ {in_data}
    [] OTHER -> {}

\* (Mutant) what was being tried is written.
AbortsWithTried ==
  /\ stop_soon /\ Tried # {} /\ pc' = "aborted" /\ out_file' = Tried
  /\ UNCHANGED <<start, in_data, loop, dry, stop_soon, late>>

\* "Minimization aborted by user": what has been reached is written.
Abort ==
  /\ stop_soon /\ Tried # {} /\ pc' = "aborted" /\ out_file' = {in_data}
  /\ UNCHANGED <<start, in_data, loop, dry, stop_soon, late>>

minimize ==
  \/ Normalize \/ NormalizeDone \/ Delete \/ SmallerBlocks \/ DeleteDone
  \/ Alphabet \/ AlphabetDone \/ Chars \/ CharsDone

Program == DryRun \/ minimize \/ WriteOutput \/ Abort
Next == Program \/ handle_stop_sig

Spec == Init /\ [][Next]_vars /\ WF_vars(Program)

-----------------------------------------------------------------------------
\* Does a case do what the one afl-tmin was started with does?
Same(case) ==
  LET new == Outcome(start.target, case)
      old == Outcome(start.target, start.data)
  IN /\ new.exit # "hang" /\ (new.exit = "crash") = (old.exit = "crash")
     /\ (old.exit # "crash" \/ start.exact_mode) => new.cksum = old.cksum

\* Through all stages and passes the case keeps the crash, or the path, of the original
\* (a crash need not take the same path unless AFL_TMIN_EXACT is set), and so does what
\* is written to the output, also when the user stops the program.
KeepsBehaviour ==
  /\ pc \notin {"dry", "fatal", "aborted"} => Same(in_data)
  /\ \A case \in out_file : Same(case) \/ case = start.data

\* No byte of the result can be left out: the blocks that were skipped as repetitions
\* were none that could have been deleted, and no later stage has made another deletion
\* possible.
OneMinimal ==
  pc \in {"write", "done"} /\ ~late =>
    \A p \in 0..Len(in_data) - 1 : ~Same(Without(p, 1))

\* The passes come to an end.
Ends == <>(pc \in {"fatal", "aborted", "done"})
=============================================================================
