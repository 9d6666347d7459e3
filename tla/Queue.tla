-------------------------------- MODULE Queue --------------------------------
(***************************************************************************)
(* The queue of test cases and its culling: add_to_queue(), update_bitmap_ *)
(* score(), cull_queue(), and the parts of perform_dry_run(), fuzz_one(),  *)
(* calibrate_case(), trim_case() and main() that call them.  The loops     *)
(* over the coverage map take one step per byte, so the bookkeeping of     *)
(* references is visible in the order the code does it.                    *)
(*                                                                         *)
(* An entry is a number in queue order; 0 stands for NULL.  Its cost is    *)
(* exec_us * len.  Its behaviour is the set of map bytes its execution     *)
(* hits; an entry of variable behaviour may hit other bytes when it is     *)
(* calibrated than those its checksum was taken from.                      *)
(***************************************************************************)
EXTENDS Naturals, FiniteSets

CONSTANTS MaxEntries,   \* bound: entries in the queue
          Inputs,       \* entries read from the input directory
          NBytes,       \* MAP_SIZE
          MaxCost,      \* bound: exec_us * len
          CalChances,   \* CAL_CHANCES
          Variable      \* may behaviour vary between runs of an entry?

ASSUME QueueAssumption ==
  /\ {MaxEntries, MaxCost, NBytes, CalChances} \subseteq Nat \ {0}
  /\ Inputs \in 1..MaxEntries
  /\ Variable \in BOOLEAN

Entry == 1..MaxEntries
Byte == 0..(NBytes - 1)
Cost == 0..MaxCost
NoTrace == {}           \* trace_mini = NULL: a stored trace is never empty

VARIABLES
  pc,               \* where main() is
  queued_paths,     \* entries 1..queued_paths exist
  queue_cur,        \* the entry in hand, 0 at the start of a cycle
  exec_trace,       \* the bytes behind q->exec_cksum
  cost, cal_failed, trim_done, was_fuzzed, favored, fs_redundant,
  tc_ref,           \* slots of top_rated[] that name the entry
  trace_mini,       \* the bytes stored with the entry
  top_rated,        \* the best entry for each byte, or 0
  score_changed,
  queued_favored, pending_favored, pending_not_fuzzed,
  i,                \* index of the loop over the map
  trace_bits,       \* the bytes the scored run hit
  scored, ret,      \* update_bitmap_score(scored) returns to ret
  temp_v            \* the bytes cull_queue() has not covered yet

counters == <<queued_favored, pending_favored, pending_not_fuzzed>>
entry == <<exec_trace, cost, cal_failed, trim_done, was_fuzzed>>
culling == <<favored, fs_redundant, temp_v>>
rating == <<tc_ref, trace_mini, top_rated, score_changed>>
scoring == <<trace_bits, scored, ret>>
vars == <<pc, queued_paths, queue_cur, entry, culling, rating, counters, i,
          scoring>>

Trace == (SUBSET Byte) \ {{}}

Init ==
  /\ pc = "dryrun"
  /\ queued_paths = Inputs
  /\ queue_cur = 1
  /\ exec_trace \in [Entry -> Trace]
  /\ cost = [q \in Entry |-> 0]
  /\ cal_failed = [q \in Entry |-> 0]
  /\ trim_done = [q \in Entry |-> FALSE]
  /\ was_fuzzed = [q \in Entry |-> FALSE]
  /\ favored = [q \in Entry |-> FALSE]
  /\ fs_redundant = [q \in Entry |-> FALSE]
  /\ tc_ref = [q \in Entry |-> 0]
  /\ trace_mini = [q \in Entry |-> NoTrace]
  /\ top_rated = [b \in Byte |-> 0]
  /\ score_changed = FALSE
  /\ queued_favored = 0
  /\ pending_favored = 0
  /\ pending_not_fuzzed = Inputs
  /\ i = 0
  /\ trace_bits = {}
  /\ scored = 1
  /\ ret = "dryrun"
  /\ temp_v = {}

-----------------------------------------------------------------------------
(* update_bitmap_score(scored), called with the trace in trace_bits.        *)

\* The traces a successful calibration of q may leave in trace_bits[].
Observed(q) == IF Variable THEN Trace ELSE {exec_trace[q]}

\* Enter update_bitmap_score(q) and come back to "back".
StartScore(q, t, back) ==
  /\ pc' = "score"
  /\ i' = 0
  /\ trace_bits' = t
  /\ scored' = q
  /\ ret' = back

\* (Mutant) the newcomer takes the slot whatever it costs.
WinsAlways == i \in trace_bits

\* Does the entry being scored take slot i over?
Wins == i \in trace_bits /\
        (top_rated[i] = 0 \/ cost[scored] <= cost[top_rated[i]])

\* (Mutant) the trace of the previous winner is freed at once.
DroppedEagerly(p) ==
  IF p = 0 THEN <<tc_ref, trace_mini>>
  ELSE <<[tc_ref EXCEPT ![p] = @ - 1], [trace_mini EXCEPT ![p] = NoTrace]>>

\* (Mutant) the previous winner keeps its reference.
DroppedNot(p) == <<tc_ref, trace_mini>>

\* The state of references after the previous winner p of the slot lost it.
Dropped(p) ==
  IF p = 0 THEN <<tc_ref, trace_mini>>
  ELSE <<[tc_ref EXCEPT ![p] = @ - 1],
         [trace_mini EXCEPT ![p] = IF tc_ref[p] = 1 THEN NoTrace ELSE @]>>

ScoreByte ==
  /\ pc = "score" /\ i < NBytes
  /\ LET d == Dropped(top_rated[i])
         refs == d[1]
         minis == d[2]
     IN IF Wins
        THEN /\ tc_ref' = [refs EXCEPT ![scored] = @ + 1]
             /\ trace_mini' = [minis EXCEPT ![scored] =
                                 IF @ = NoTrace THEN trace_bits ELSE @]
             /\ top_rated' = [top_rated EXCEPT ![i] = scored]
             /\ score_changed' = TRUE
        ELSE UNCHANGED rating
  /\ i' = i + 1
  /\ UNCHANGED <<pc, queued_paths, queue_cur, entry, culling, counters, scoring>>

ScoreDone ==
  /\ pc = "score" /\ i = NBytes
  /\ pc' = ret
  /\ UNCHANGED <<queued_paths, queue_cur, entry, culling, rating, counters, i,
                 scoring>>

-----------------------------------------------------------------------------
(* cull_queue().                                                            *)

CullStart ==
  /\ pc = "cull"
  /\ IF score_changed
     THEN /\ pc' = "cullbyte"
          /\ score_changed' = FALSE
          /\ temp_v' = Byte
          /\ queued_favored' = 0
          /\ pending_favored' = 0
          /\ favored' = [q \in Entry |-> FALSE]
          /\ i' = 0
     ELSE /\ pc' = "pick"
          /\ UNCHANGED <<score_changed, temp_v, queued_favored,
                         pending_favored, favored, i>>
  /\ UNCHANGED <<queued_paths, queue_cur, entry, fs_redundant, tc_ref,
                 trace_mini, top_rated, pending_not_fuzzed, scoring>>

\* (Mutant) covering removes one byte too many: the test comes too late.
CullByteSkipsNext ==
  /\ pc = "cullbyte" /\ i < NBytes
  /\ LET q == top_rated[i] IN
     IF q # 0 /\ i \in temp_v
     THEN /\ temp_v' = temp_v \ (trace_mini[q] \union {i + 1})
          /\ favored' = [favored EXCEPT ![q] = TRUE]
          /\ queued_favored' = queued_favored + 1
          /\ pending_favored' = pending_favored + IF was_fuzzed[q] THEN 0 ELSE 1
     ELSE UNCHANGED <<temp_v, favored, queued_favored, pending_favored>>
  /\ i' = i + 1
  /\ UNCHANGED <<pc, queued_paths, queue_cur, entry, fs_redundant, rating,
                 pending_not_fuzzed, scoring>>

\* An uncovered byte with a winner makes the winner favored; all the bytes
\* stored with the winner are covered then.
CullByte ==
  /\ pc = "cullbyte" /\ i < NBytes
  /\ LET q == top_rated[i] IN
     IF q # 0 /\ i \in temp_v
     THEN /\ temp_v' = temp_v \ trace_mini[q]
          /\ favored' = [favored EXCEPT ![q] = TRUE]
          /\ queued_favored' = queued_favored + 1
          /\ pending_favored' = pending_favored + IF was_fuzzed[q] THEN 0 ELSE 1
     ELSE UNCHANGED <<temp_v, favored, queued_favored, pending_favored>>
  /\ i' = i + 1
  /\ UNCHANGED <<pc, queued_paths, queue_cur, entry, fs_redundant, rating,
                 pending_not_fuzzed, scoring>>

\* mark_as_redundant() for every entry, then on with the main loop.
CullDone ==
  /\ pc = "cullbyte" /\ i = NBytes
  /\ pc' = "pick"
  /\ fs_redundant' =
       [q \in Entry |-> IF q <= queued_paths THEN ~favored[q] ELSE FALSE]
  /\ UNCHANGED <<queued_paths, queue_cur, entry, favored, temp_v, rating,
                 counters, i, scoring>>

-----------------------------------------------------------------------------
(* calibrate_case(), as far as the queue sees it.                           *)

\* Success: exec_us is measured, cal_failed cleared, the trace scored.
Calibrated(q, t, c, back) ==
  /\ t \in Observed(q)
  /\ cal_failed' = [cal_failed EXCEPT ![q] = 0]
  /\ cost' = [cost EXCEPT ![q] = c]
  /\ StartScore(q, t, back)

\* perform_dry_run(): an input that cannot be calibrated is given up at once.
DryRun ==
  /\ pc = "dryrun" /\ queue_cur <= Inputs
  /\ queue_cur' = queue_cur + 1
  /\ \/ \E t \in Trace, c \in Cost : Calibrated(queue_cur, t, c, "dryrun")
     \/ /\ cal_failed' = [cal_failed EXCEPT ![queue_cur] = CalChances]
        /\ UNCHANGED <<pc, cost, i, scoring>>
  /\ UNCHANGED <<queued_paths, exec_trace, trim_done, was_fuzzed, culling,
                 rating, counters>>

\* main(): the first cycle starts at the head of the queue, unless no input at
\* all was calibrated.
DryRunDone ==
  /\ pc = "dryrun" /\ queue_cur > Inputs
  /\ pc' = IF \E q \in 1..Inputs : cal_failed[q] # CalChances THEN "cull"
            ELSE "fatal"
  /\ queue_cur' = 0
  /\ UNCHANGED <<queued_paths, entry, culling, rating, counters, i, scoring>>

\* FATAL("All test cases time out"): the program has ended.
Fatal == pc = "fatal" /\ UNCHANGED vars

-----------------------------------------------------------------------------
(* fuzz_one(queue_cur).                                                     *)

Pick ==
  /\ pc = "pick"
  /\ pc' = "fuzz"
  /\ queue_cur' = IF queue_cur = queued_paths THEN 1 ELSE queue_cur + 1
  /\ UNCHANGED <<queued_paths, entry, culling, rating, counters, i, scoring>>

\* (Mutant) the waiting favorites are skipped, not the fuzzed ones.
MaySkipWaiting(q) ==
  IF pending_favored > 0 THEN ~was_fuzzed[q] \/ ~favored[q] ELSE ~favored[q]

\* The three skipping rules with their dice (and queued_paths > 10) taken out.
MaySkip(q) ==
  IF pending_favored > 0 THEN was_fuzzed[q] \/ ~favored[q] ELSE ~favored[q]

Skip ==
  /\ pc = "fuzz" /\ MaySkip(queue_cur)
  /\ pc' = "cull"
  /\ UNCHANGED <<queued_paths, queue_cur, entry, culling, rating, counters, i,
                 scoring>>

\* A case whose calibration failed is calibrated again, CalChances times.
Recalibrate ==
  /\ pc = "fuzz" /\ cal_failed[queue_cur] > 0
  /\ \/ /\ cal_failed[queue_cur] < CalChances
        /\ \E t \in Trace, c \in Cost : Calibrated(queue_cur, t, c, "trim")
     \/ /\ cal_failed' = [cal_failed EXCEPT ![queue_cur] =
                            IF @ < CalChances THEN @ + 1 ELSE @]
        /\ pc' = "cull"
        /\ UNCHANGED <<cost, i, scoring>>
  /\ UNCHANGED <<queued_paths, queue_cur, exec_trace, trim_done, was_fuzzed,
                 culling, rating, counters>>

Process ==
  /\ pc = "fuzz" /\ cal_failed[queue_cur] = 0
  /\ pc' = "trim"
  /\ UNCHANGED <<queued_paths, queue_cur, entry, culling, rating, counters, i,
                 scoring>>

\* trim_case(): a shorter file with the trace of the checksum is scored again.
Trim ==
  /\ pc = "trim"
  /\ \/ /\ ~trim_done[queue_cur]
        /\ \E c \in Cost :
             /\ c <= cost[queue_cur]
             /\ cost' = [cost EXCEPT ![queue_cur] = c]
        /\ StartScore(queue_cur, exec_trace[queue_cur], "mutate")
     \/ pc' = "mutate" /\ UNCHANGED <<cost, i, scoring>>
  /\ trim_done' = [trim_done EXCEPT ![queue_cur] = TRUE]
  /\ UNCHANGED <<queued_paths, queue_cur, exec_trace, cal_failed, was_fuzzed,
                 culling, rating, counters>>

\* save_if_interesting(): a find is appended and calibrated.
Find ==
  /\ pc = "mutate" /\ queued_paths < MaxEntries
  /\ queued_paths' = queued_paths + 1
  /\ pending_not_fuzzed' = pending_not_fuzzed + 1
  /\ \/ \E t \in Trace, c \in Cost : Calibrated(queued_paths + 1, t, c, "mutate")
     \/ /\ cal_failed' = [cal_failed EXCEPT ![queued_paths + 1] = 1]
        /\ UNCHANGED <<pc, cost, i, scoring>>
  /\ UNCHANGED <<queue_cur, exec_trace, trim_done, was_fuzzed, culling, rating,
                 queued_favored, pending_favored>>

\* (Mutant) the pending counters go down every time the entry is fuzzed.
FinishAgain ==
  /\ pc = "mutate"
  /\ pc' = "cull"
  /\ was_fuzzed' = [was_fuzzed EXCEPT ![queue_cur] = TRUE]
  /\ pending_not_fuzzed' = pending_not_fuzzed - 1
  /\ UNCHANGED <<queued_favored, pending_favored, queued_paths, queue_cur,
                 exec_trace, cost, cal_failed, trim_done, culling, rating, i,
                 scoring>>

\* abandon_entry: the entry counts as fuzzed once.
Finish ==
  /\ pc = "mutate"
  /\ pc' = "cull"
  /\ IF was_fuzzed[queue_cur] THEN UNCHANGED <<was_fuzzed, counters>>
     ELSE /\ was_fuzzed' = [was_fuzzed EXCEPT ![queue_cur] = TRUE]
          /\ pending_not_fuzzed' = pending_not_fuzzed - 1
          /\ pending_favored' =
               pending_favored - IF favored[queue_cur] THEN 1 ELSE 0
          /\ UNCHANGED queued_favored
  /\ UNCHANGED <<queued_paths, queue_cur, exec_trace, cost, cal_failed,
                 trim_done, culling, rating, i, scoring>>

-----------------------------------------------------------------------------
Next ==
  \/ ScoreByte \/ ScoreDone
  \/ CullStart \/ CullByte \/ CullDone
  \/ DryRun \/ DryRunDone \/ Fatal
  \/ Pick \/ Skip \/ Recalibrate \/ Process \/ Trim \/ Find \/ Finish

Spec == Init /\ [][Next]_vars

\* main() never blocks here: some step is always taken.
FairSpec == Spec /\ WF_vars(Next)

-----------------------------------------------------------------------------
\* tc_ref counts the slots of top_rated[] that name the entry, in the middle of
\* update_bitmap_score() too: it can neither go below zero nor leak a trace.
RefsExact ==
  \A q \in Entry : tc_ref[q] = Cardinality({b \in Byte : top_rated[b] = q})

\* An entry has its trace_mini as long as a slot names it, and no longer:
\* cull_queue() dereferences it without a test.
TraceKept ==
  \A q \in Entry : (trace_mini[q] # NoTrace) <=> (\E b \in Byte : top_rated[b] = q)

\* A byte any calibrated or trimmed trace hit stays represented: after culling
\* some favored entry's stored trace, or favored winner, stands for it.
FavoredCover ==
  pc = "pick" /\ ~score_changed =>
    \A b \in Byte : top_rated[b] # 0 =>
      \E q \in Entry : favored[q] /\ (b \in trace_mini[q] \/ top_rated[b] = q)

\* "pending_favs - number of favored entries still waiting to be fuzzed" and
\* "pending_total - number of all entries waiting to be fuzzed" are exact: unsigned,
\* decremented at the end of fuzz_one() and restarted by culling, they never wrap.
PendingExact ==
  /\ pending_not_fuzzed = Cardinality({q \in 1..queued_paths : ~was_fuzzed[q]})
  /\ pc = "fuzz" =>
       pending_favored = Cardinality({q \in Entry : favored[q] /\ ~was_fuzzed[q]})

\* No byte loses its winner: once covered, the map position stays rated.
WinnersStay ==
  [][\A b \in Byte : top_rated[b] # 0 =>
       /\ top_rated'[b] # 0
       /\ top_rated'[b] # top_rated[b] => cost[top_rated'[b]] <= cost[top_rated[b]]]_vars

\* A favorite that waits is fuzzed, or stops being one: no skipping rule and no
\* counter keeps the main loop away from it.
FavoriteFuzzed ==
  \A q \in Entry : favored[q] /\ ~was_fuzzed[q] ~> was_fuzzed[q] \/ ~favored[q]
=============================================================================
