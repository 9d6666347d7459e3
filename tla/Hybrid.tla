------------------------------- MODULE Hybrid -------------------------------
(***************************************************************************)
(* Hybrid coverage (-E 3).  The trace unit has two modes: atom traces are  *)
(* cheap and only tell branches apart by a checksum of what was taken,     *)
(* address traces carry branch targets.  Test cases run in atom mode; one  *)
(* whose atom map is new runs again in address mode, and only new address  *)
(* coverage puts it into the queue.  The module follows bb_mode and the    *)
(* register set_etm_mode() writes through save_if_interesting(),           *)
(* calibrate_case(), trim_case(), fuzz_one() and perform_dry_run(), with a *)
(* step for every run of the target whose map is used.                     *)
(*                                                                         *)
(* A map is the set of bits a run set; a bit of an atom map and one of an  *)
(* address map are different values although the code keeps both in the    *)
(* same cells, so that a map taken for one of the other mode shows.  A     *)
(* checksum is the map it was taken from.  Which bits a run sets, whether  *)
(* it overflows, times out or crashes is free; a retried run counts as its *)
(* last attempt.                                                           *)
(***************************************************************************)
EXTENDS Naturals, FiniteSets

CONSTANTS AtomBit,        \* bits of maps decoded from atom traces
          AddressBit,     \* bits of maps decoded from address traces
          Half,           \* values of 16 bits of a checksum
          MaxEntries,     \* bound: entries in the queue
          MaxFuzzed,      \* bound: entries fuzz_one() does not skip
          Inputs,         \* entries read from the input directory
          CalCycles,      \* CAL_CYCLES, or 3 with fast_cal
          CalCyclesLong,  \* CAL_CYCLES_LONG
          CalChances,     \* CAL_CHANCES
          Zero            \* no bit: marks a checksum of 0

Bit == AtomBit \union AddressBit

ASSUME HybridAssumption ==
  /\ AtomBit \intersect AddressBit = {}
  /\ IsFiniteSet(Bit)
  /\ {MaxEntries, MaxFuzzed, CalCycles, CalCyclesLong, CalChances} \subseteq Nat \ {0}
  /\ Inputs \in 1..MaxEntries
  /\ CalCycles <= CalCyclesLong
  /\ Zero \notin Bit

None == {Zero}   \* a checksum of 0, a map never written

Atom == 0      \* bb_mode = 0, mode register 0x4C000040
Address == 1   \* bb_mode = 1, mode register 0x4C000050
Mode == {Atom, Address}

ByMode(a, b) == [m \in Mode |-> IF m = Atom THEN a ELSE b]
BitOf(m) == IF m = Atom THEN AtomBit ELSE AddressBit

Slot == 1..MaxEntries
Cksum == (SUBSET Bit) \union {None}
Fault == {"none", "tmout", "crash"}

\* The part of a queue_entry the modes concern.  Components that the code has
\* once per mode (atom_cksum and exec_cksum, atom_overflow and addr_overflow)
\* are functions of the mode.
Entry == [cksum : [Mode -> Cksum], overflow : [Mode -> BOOLEAN],
          cal_failed : 0..CalChances, trim_done : BOOLEAN]

NewEntry == [cksum |-> [m \in Mode |-> None],
             overflow |-> [m \in Mode |-> FALSE],
             cal_failed |-> 0, trim_done |-> FALSE]

VARIABLES
  pc,                \* the function that makes the next run
  bb_mode,           \* branch broadcast mode the program believes in
  etm,               \* mode register of the trace unit
  virgin,            \* virgin_atom and virgin_bits: bits not seen yet
  virgin_atom_real,  \* bits not seen in the atom map of a kept case
  pre_virgin_bits,   \* cells of virgin_bits touched at the last purge
  atom_check,        \* <<atom_check_up, atom_check_down>>: halves that are set
  entry, queued_paths,
  queue_cur,         \* the entry in hand
  fuzzed,            \* entries fuzz_one() did not skip
  found,             \* the case save_if_interesting() runs a second time:
                     \* trace_bits_tmp, overflow_nums_atom, prev_atom
  cal,               \* locals of calibrate_case()
  tmp_mode,          \* local of trim_case()
  shown,             \* history: bits set by runs of cases in the queue
  rejected           \* history: atom checksums found fruitless with this entry

modes == <<bb_mode, etm>>
maps == <<virgin, virgin_atom_real, pre_virgin_bits>>
queue == <<entry, queued_paths>>
current == <<queue_cur, fuzzed>>
vars == <<pc, modes, maps, atom_check, queue, current,
          found, cal, tmp_mode, shown, rejected>>

Key == Half \X Half
NoKey == <<Zero, Zero>>
NoCase == [trace |-> {}, overflow |-> FALSE, key |-> NoKey]
NoCal == [caller |-> "none"]

Locals == [caller : {"dry", "fuzz", "save"}, q : Slot, mode : Mode,
           stage_cur : Nat, stage_max : {CalCycles, CalCyclesLong},
           switch_flag : BOOLEAN, first_run : BOOLEAN, new_bits : BOOLEAN,
           var_detected : BOOLEAN, var_bytes : SUBSET Bit,
           first_trace : Cksum, trace_bits_addr : Cksum]

\* setup: -E 3 selects address mode and init_etm() programs it.
Init ==
  /\ pc = "dry"
  /\ bb_mode = Address /\ etm = Address
  /\ virgin = [m \in Mode |-> Bit] /\ virgin_atom_real = Bit
  /\ pre_virgin_bits = 0
  /\ atom_check = <<{}, {}>>
  /\ entry = [q \in Slot |-> NewEntry] /\ queued_paths = Inputs
  /\ queue_cur = 1 /\ fuzzed = 0
  /\ found = NoCase /\ cal = NoCal /\ tmp_mode = Atom
  /\ shown = {} /\ rejected = {}

-----------------------------------------------------------------------------
(* One run of the target.                                                  *)

\* run_target() with the trace unit in mode m gives the map t.  A run that times
\* out is not decoded: its map is empty and overflow_nums that of the run before,
\* so any run may come with any overflow flag.
Run(m, t) == t \subseteq BitOf(m)

\* count_non_255_bytes(): cells with a bit that is no longer virgin.
Touched(map) == Cardinality(Bit \ map)

PurgeDue ==
  \/ 100 * Touched(virgin[Address]) <= 101 * pre_virgin_bits
  \/ 2 * Touched(virgin_atom_real) < Touched(virgin[Atom])

\* purge_atom_coverage(), called in every counted run: once the interval is
\* over (p), virgin_atom goes back to what kept cases showed if address coverage
\* hardly grew or atom coverage grew too fast.
Purged(p) == IF p /\ PurgeDue THEN virgin_atom_real ELSE virgin[Atom]
PurgeNote(p) ==
  pre_virgin_bits' = IF p THEN Touched(virgin[Address]) ELSE pre_virgin_bits

-----------------------------------------------------------------------------
(* calibrate_case().                                                       *)

\* Entry of calibrate_case() for q with value e, in mode m, trace_bits being t.
\* first_trace is static in the code, but no value of an earlier call is read:
\* it starts as None here, which TypeOK keeps out of var_bytes.
Calibrate(caller, q, e, m, t) ==
  /\ pc' = "calibrate"
  /\ entry' = [entry EXCEPT ![q] = [e EXCEPT !.cal_failed = @ + 1]]
  /\ cal' = [caller |-> caller, q |-> q, mode |-> m,
             stage_cur |-> 0, stage_max |-> CalCycles, switch_flag |-> TRUE,
             first_run |-> e.cksum[Address] = None,
             new_bits |-> FALSE, var_detected |-> FALSE, var_bytes |-> {},
             first_trace |-> IF e.cksum[m] # None THEN t ELSE None,
             trace_bits_addr |-> None]

\* (Mutant) the half is compared with the whole: no switch takes place.
SwitchingLate == cal.switch_flag /\ cal.stage_cur >= cal.stage_max

\* Halfway through the stage the other mode is switched to, once.
Switching == cal.switch_flag /\ 2 * cal.stage_cur >= cal.stage_max

CalMode == IF Switching THEN 1 - bb_mode ELSE bb_mode

\* first_trace after a run with map t.  "else if (switch_mode = 2)" assigns: but
\* for the switch to atom mode, every run of an entry with a checksum of its
\* address map overwrites the first trace.
FirstTrace(t) ==
  LET m == IF Switching /\ bb_mode = Address THEN Atom ELSE Address
  IN IF entry[cal.q].cksum[m] # None THEN t ELSE cal.first_trace

\* The run is judged: no overflow and another checksum than the stored one.
Unlike(t, o) == ~o /\ entry[cal.q].cksum[CalMode] # t

\* ... and it shows variable behaviour, no overflow excusing the difference.
Varies(t, o) ==
  /\ Unlike(t, o)
  /\ entry[cal.q].cksum[CalMode] # None
  /\ ~entry[cal.q].overflow[CalMode]

\* Cells in which the maps differ that are not marked variable yet.
Variable(t, o) ==
  IF Varies(t, o)
  THEN ((FirstTrace(t) \ t) \union (t \ FirstTrace(t))) \ cal.var_bytes
  ELSE {}

\* The entry after the comparison of checksums.
Compared(t, o) ==
  LET e == entry[cal.q]
  IN IF Unlike(t, o) /\ ~Varies(t, o)
     THEN [e EXCEPT !.cksum[CalMode] = t,
                    !.overflow[CalMode] = @ /\ e.cksum[CalMode] = None]
     ELSE e

\* (Mutant) the trace a checksum was first taken from is not kept.
KeptTraceOld(t, o) == FirstTrace(t)

\* first_trace at the end of the cycle: the trace of the first checksum.
KeptTrace(t, o) ==
  IF Unlike(t, o) /\ entry[cal.q].cksum[CalMode] = None THEN t ELSE FirstTrace(t)

\* The locals after one more cycle.
Cycled(t, o) ==
  [cal EXCEPT
     !.stage_cur = @ + 1,
     !.stage_max = IF Variable(t, o) # {} THEN CalCyclesLong ELSE @,
     !.switch_flag = @ /\ ~Switching,
     !.new_bits = @ \/ (Unlike(t, o) /\ t \intersect virgin[CalMode] # {}),
     !.var_detected = @ \/ Varies(t, o),
     !.var_bytes = @ \union Variable(t, o),
     !.first_trace = KeptTrace(t, o),
     !.trace_bits_addr = IF CalMode = Address THEN t ELSE @]

\* The first run of the calibration has an empty map.
NoInst(t) == cal.stage_cur = 0 /\ t = {}

Last(t, o) == Cycled(t, o).stage_cur >= Cycled(t, o).stage_max

\* A cycle that is not the last one.
CalibrateCycle(t, o) ==
  /\ pc = "calibrate"
  /\ Run(CalMode, t) /\ ~NoInst(t) /\ ~Last(t, o)
  /\ bb_mode' = CalMode /\ etm' = CalMode
  /\ virgin' = [virgin EXCEPT ![CalMode] = IF Unlike(t, o) THEN @ \ t ELSE @]
  /\ entry' = [entry EXCEPT ![cal.q] = Compared(t, o)]
  /\ cal' = Cycled(t, o)
  /\ shown' = shown \union t
  /\ UNCHANGED <<pc, virgin_atom_real, pre_virgin_bits, atom_check,
                 queued_paths, current, found, tmp_mode, rejected>>

\* (Mutant) a calibration made inline does not switch back.
LeftModeKept == IF cal.caller = "dry" THEN Atom ELSE CalMode

\* The mode calibrate_case() leaves: 0 in the dry run, else the other one.
LeftMode == IF cal.caller = "dry" THEN Atom ELSE 1 - CalMode

\* calibrate_case() returns res to its caller, the entry being e.  The dry run
\* stops the program on an input that fails, or skips it for good (-t nn+,
\* AFL_SKIP_CRASHES); fuzz_one() goes on only after success.
Return(res, e) ==
  /\ bb_mode' = LeftMode /\ etm' = LeftMode
  /\ cal' = NoCal
  /\ \/ /\ cal.caller = "dry" /\ res \in {"none", "nobits"}
        /\ pc' = "dry" /\ queue_cur' = queue_cur + 1
        /\ entry' = [entry EXCEPT ![cal.q] = e]
     \/ /\ cal.caller = "dry" /\ res \in {"tmout", "crash"}
        /\ pc' = "dry" /\ queue_cur' = queue_cur + 1
        /\ entry' = [entry EXCEPT ![cal.q] =
                       [e EXCEPT !.cal_failed = CalChances]]
     \/ /\ cal.caller = "dry" /\ res \in {"tmout", "crash", "noinst"}
        /\ pc' = "fatal" /\ UNCHANGED <<queue_cur, entry>>
     \/ /\ cal.caller = "fuzz"
        /\ pc' = IF res = "none" THEN "trim" ELSE "main"
        /\ UNCHANGED queue_cur
        /\ entry' = [entry EXCEPT ![cal.q] = e]
     \/ /\ cal.caller = "save"
        /\ pc' = "stage" /\ UNCHANGED queue_cur
        /\ entry' = [entry EXCEPT ![cal.q] = e]

\* A failed run, or an empty map in the first one, ends the calibration.
CalibrateAbort(f) ==
  /\ pc = "calibrate"
  /\ f = "none" => NoInst({})
  /\ Return(IF f = "none" THEN "noinst" ELSE f, entry[cal.q])
  /\ UNCHANGED <<maps, atom_check, queued_paths, fuzzed, found,
                 tmp_mode, shown, rejected>>

\* The last cycle: the entry is scored by the last address map.
CalibrateEnd(t, o) ==
  /\ pc = "calibrate"
  /\ Run(CalMode, t) /\ ~NoInst(t) /\ Last(t, o)
  /\ virgin' = [virgin EXCEPT ![CalMode] = IF Unlike(t, o) THEN @ \ t ELSE @]
  /\ Return(IF cal.first_run /\ ~Cycled(t, o).new_bits THEN "nobits" ELSE "none",
            [Compared(t, o) EXCEPT !.cal_failed = 0])
  /\ shown' = shown \union t
  /\ UNCHANGED <<virgin_atom_real, pre_virgin_bits, atom_check, queued_paths,
                 fuzzed, found, tmp_mode, rejected>>

-----------------------------------------------------------------------------
(* perform_dry_run() and the main loop.                                    *)

DryRun ==
  /\ pc = "dry" /\ queue_cur <= Inputs
  /\ Calibrate("dry", queue_cur, entry[queue_cur], bb_mode, {})
  /\ UNCHANGED <<modes, maps, atom_check, queued_paths,
                 current, found, tmp_mode, shown, rejected>>

\* The end of the dry run: at least one input must have been usable.
EnterMain ==
  /\ pc = "dry" /\ queue_cur > Inputs
  /\ pc' = IF \A q \in 1..Inputs : entry[q].cal_failed = CalChances
           THEN "fatal" ELSE "main"
  /\ queue_cur' = 1
  /\ pre_virgin_bits' = Touched(virgin[Address])
  /\ UNCHANGED <<modes, virgin, virgin_atom_real,
                 atom_check, queue, fuzzed, found, cal, tmp_mode, shown, rejected>>

\* fuzz_one() up to its first run, for an entry it does not skip: calibration
\* if it failed before and may be tried again, then trimming.  The map left from
\* the run before is any map.  (Bounds: the entries fuzzed, room in the queue.)
FuzzOne(q) ==
  /\ pc = "main" /\ q <= queued_paths
  /\ fuzzed < MaxFuzzed /\ queued_paths < MaxEntries
  /\ queue_cur' = q /\ fuzzed' = fuzzed + 1
  /\ atom_check' = <<{}, {}>> /\ rejected' = {}
  /\ IF entry[q].cal_failed = 0
     THEN pc' = "trim" /\ UNCHANGED <<entry, cal>>
     ELSE /\ entry[q].cal_failed < CalChances
          /\ \E t \in SUBSET Bit : Calibrate("fuzz", q, entry[q], bb_mode, t)
  /\ UNCHANGED <<modes, maps, queued_paths, found,
                 tmp_mode, shown>>

\* fuzz_one() returns at once: skipped, or calibration failed too often.  (The
\* entry in hand is of interest only while it is fuzzed.)
SkipOne ==
  /\ pc = "main"
  /\ atom_check' = <<{}, {}>> /\ rejected' = {}
  /\ UNCHANGED <<pc, modes, maps, queue, current, found,
                 cal, tmp_mode, shown>>

\* Trimming was done before or the case is too short (len < 5).
TrimNot ==
  /\ pc = "trim"
  /\ pc' = "update"
  /\ entry' = [entry EXCEPT ![queue_cur].trim_done = TRUE]
  /\ UNCHANGED <<modes, maps, atom_check, queued_paths,
                 current, found, cal, tmp_mode, shown, rejected>>

\* trim_case() runs in address mode whatever the mode was; its runs leave nothing
\* but the trace that scores the entry.
TrimStart ==
  /\ pc = "trim" /\ ~entry[queue_cur].trim_done
  /\ pc' = "trimming"
  /\ tmp_mode' = bb_mode
  /\ bb_mode' = Address /\ etm' = Address
  /\ UNCHANGED <<maps, atom_check, queue, current,
                 found, cal, shown, rejected>>

\* (Mutant) trim_case() puts back the variable, not the register.
TrimEndSoft ==
  /\ pc = "trimming"
  /\ pc' = "update"
  /\ bb_mode' = tmp_mode /\ tmp_mode' = Atom
  /\ entry' = [entry EXCEPT ![queue_cur].trim_done = TRUE]
  /\ UNCHANGED <<etm, maps, atom_check, queued_paths,
                 current, found, cal, shown, rejected>>

TrimEnd ==
  /\ pc = "trimming"
  /\ pc' = "update"
  /\ bb_mode' = tmp_mode /\ etm' = tmp_mode /\ tmp_mode' = Atom
  /\ entry' = [entry EXCEPT ![queue_cur].trim_done = TRUE]
  /\ UNCHANGED <<maps, atom_check, queued_paths,
                 current, found, cal, shown, rejected>>

\* update_checksum_in_hybrid_mode() in whatever mode is on, its verdict unread;
\* only then fuzz_one() goes back to atom mode.
UpdateChecksum(t, o) ==
  /\ pc = "update"
  /\ Run(etm, t)
  /\ pc' = "stage"
  /\ entry' = IF o THEN entry
              ELSE [entry EXCEPT ![queue_cur].cksum[Atom] = t]
  /\ bb_mode' = Atom /\ etm' = Atom
  /\ UNCHANGED <<maps, atom_check, queued_paths, current, found, cal,
                 tmp_mode, shown, rejected>>

-----------------------------------------------------------------------------
(* The fuzzing stages: common_fuzz_stuff() and save_if_interesting().      *)

\* The checksum's halves were both seen in fruitless cases.
Filtered(key) == key[1] \in atom_check[1] /\ key[2] \in atom_check[2]

\* A counted run of a mutated case with nothing left to do after it but, if it
\* timed out and looks unique, a second run with hang_tmout.  (Crashes and timeouts
\* have maps of their own, not modelled here.)
StageRun(t, p) ==
  /\ pc = "stage"
  /\ Run(etm, t)
  /\ IF bb_mode = Atom
     THEN (\E key \in Key : Filtered(key)) \/ t \intersect Purged(p) = {}
     ELSE t \intersect virgin[Address] = {}
  /\ virgin' = [virgin EXCEPT ![Atom] = Purged(p)]
  /\ PurgeNote(p)
  /\ UNCHANGED <<pc, modes, virgin_atom_real, atom_check, queue, current,
                 found, cal, tmp_mode, shown, rejected>>

\* A new atom map: the case is set aside and the trace unit switched.
StageNew(t, o, key, p) ==
  /\ pc = "stage" /\ bb_mode = Atom
  /\ Run(etm, t)
  /\ ~Filtered(key) /\ t \intersect Purged(p) # {}
  /\ pc' = "confirm"
  /\ virgin' = [virgin EXCEPT ![Atom] = Purged(p) \ t]
  /\ PurgeNote(p)
  /\ found' = [trace |-> t, overflow |-> o, key |-> key]
  /\ bb_mode' = Address /\ etm' = Address
  /\ UNCHANGED <<virgin_atom_real, atom_check, queue, current, cal, tmp_mode,
                 shown, rejected>>

\* The case joins the queue: its address map is t, its atom map a (None if it
\* did not run in atom mode), and the calibration starts in mode m.
Keep(t, o, a, ao, m) ==
  /\ queued_paths < MaxEntries
  /\ queued_paths' = queued_paths + 1
  /\ Calibrate("save", queued_paths + 1,
       [NewEntry EXCEPT !.cksum = ByMode(a, t),
                        !.overflow = ByMode(ao, o)],
       m, t)

\* bb_mode = 1 in a stage, left by an aborted calibration: no atom filter.
StageKeep(t, o, p) ==
  /\ pc = "stage" /\ bb_mode = Address
  /\ Run(etm, t)
  /\ t \intersect virgin[Address] # {}
  /\ virgin' = ByMode(Purged(p), virgin[Address] \ t)
  /\ PurgeNote(p)
  /\ Keep(t, o, None, FALSE, Address)
  /\ shown' = shown \union t
  /\ UNCHANGED <<modes, virgin_atom_real, atom_check, current, found,
                 tmp_mode, rejected>>

\* (Mutant) only one half of a fruitless checksum is noted.
ConfirmOldHalf(t, p) ==
  /\ pc = "confirm"
  /\ Run(etm, t)
  /\ t \intersect virgin[Address] = {}
  /\ pc' = "stage"
  /\ bb_mode' = Atom /\ etm' = Atom
  /\ virgin' = [virgin EXCEPT ![Atom] = Purged(p)]
  /\ PurgeNote(p)
  /\ atom_check' = [atom_check EXCEPT ![1] = @ \union {found.key[1]}]
  /\ rejected' = rejected \union {found.key}
  /\ found' = NoCase
  /\ UNCHANGED <<virgin_atom_real, queue, current, cal, tmp_mode, shown>>

\* The second run, in address mode and counted; its verdict is not looked at.
\* Nothing new: the atom checksum is noted in the filter.
ConfirmOld(t, p) ==
  /\ pc = "confirm"
  /\ Run(etm, t)
  /\ t \intersect virgin[Address] = {}
  /\ pc' = "stage"
  /\ bb_mode' = Atom /\ etm' = Atom
  /\ virgin' = [virgin EXCEPT ![Atom] = Purged(p)]
  /\ PurgeNote(p)
  /\ atom_check' = <<atom_check[1] \union {found.key[1]},
                     atom_check[2] \union {found.key[2]}>>
  /\ rejected' = rejected \union {found.key}
  /\ found' = NoCase
  /\ UNCHANGED <<virgin_atom_real, queue, current, cal, tmp_mode, shown>>

\* (Mutant) a second run that overflows is dropped after its bits were cleared.
ConfirmNewStrict(t, o, p) ==
  /\ pc = "confirm"
  /\ Run(etm, t)
  /\ t \intersect virgin[Address] # {}
  /\ bb_mode' = Atom /\ etm' = Atom
  /\ virgin' = ByMode(Purged(p), virgin[Address] \ t)
  /\ PurgeNote(p)
  /\ IF o
     THEN pc' = "stage" /\ UNCHANGED <<virgin_atom_real, queue, cal, shown>>
     ELSE /\ virgin_atom_real' = virgin_atom_real \ found.trace
          /\ Keep(t, o, found.trace, found.overflow, Atom)
          /\ shown' = shown \union t \union found.trace
  /\ found' = NoCase
  /\ UNCHANGED <<atom_check, current, tmp_mode, rejected>>

\* New address coverage: the case is kept, and its atom map counts for good.
ConfirmNew(t, o, p) ==
  /\ pc = "confirm"
  /\ Run(etm, t)
  /\ t \intersect virgin[Address] # {}
  /\ bb_mode' = Atom /\ etm' = Atom
  /\ virgin' = ByMode(Purged(p), virgin[Address] \ t)
  /\ PurgeNote(p)
  /\ virgin_atom_real' = virgin_atom_real \ found.trace
  /\ Keep(t, o, found.trace, found.overflow, Atom)
  /\ shown' = shown \union t \union found.trace
  /\ found' = NoCase
  /\ UNCHANGED <<atom_check, current, tmp_mode, rejected>>

\* The stages of this entry are over, or it is abandoned.
LeaveStage ==
  /\ pc = "stage"
  /\ pc' = "main"
  /\ UNCHANGED <<modes, maps, atom_check, queue,
                 current, found, cal, tmp_mode, shown, rejected>>

-----------------------------------------------------------------------------
Fatal == pc = "fatal" /\ UNCHANGED vars

Next ==
  \/ Fatal \/ DryRun \/ EnterMain \/ TrimNot \/ TrimStart \/ TrimEnd
  \/ LeaveStage \/ SkipOne
  \/ \E q \in Slot : FuzzOne(q)
  \/ \E t \in SUBSET Bit, o \in BOOLEAN :
       \/ CalibrateCycle(t, o) \/ CalibrateEnd(t, o) \/ UpdateChecksum(t, o)
  \/ \E f \in Fault : CalibrateAbort(f)
  \/ \E t \in SUBSET Bit, p \in BOOLEAN :
       \/ StageRun(t, p) \/ ConfirmOld(t, p)
       \/ \E o \in BOOLEAN : \/ StageKeep(t, o, p) \/ ConfirmNew(t, o, p)
                            \/ \E key \in Key : StageNew(t, o, key, p)

Spec == Init /\ [][Next]_vars

-----------------------------------------------------------------------------
TypeOK ==
  /\ pc \in {"dry", "main", "calibrate", "trim", "trimming", "update", "stage",
            "confirm", "fatal"}
  /\ bb_mode \in Mode /\ etm \in Mode
  /\ virgin \in [Mode -> SUBSET Bit] /\ virgin_atom_real \in SUBSET Bit
  /\ pre_virgin_bits \in Nat
  /\ atom_check \in (SUBSET Half) \X (SUBSET Half)
  /\ entry \in [Slot -> Entry]
  /\ queued_paths \in Inputs..MaxEntries
  /\ queue_cur \in 1..(MaxEntries + 1) /\ fuzzed \in 0..MaxFuzzed
  /\ found \in [trace : SUBSET Bit, overflow : BOOLEAN, key : Key \union {NoKey}]
  /\ cal \in {NoCal} \union Locals
  /\ tmp_mode \in Mode
  /\ shown \in SUBSET Bit /\ rejected \in SUBSET Key

\* Whatever was switched, aborted or nested, the trace unit is in the mode the
\* program believes in, and three maps take no bits of a trace of the other mode:
\* virgin_bits and exec_cksum know address bits only, virgin_atom and
\* virgin_atom_real atom bits only.  (Not so atom_cksum, which
\* UpdateChecksum may take in address mode.)
MapsNotMixed ==
  /\ bb_mode = etm
  /\ AtomBit \subseteq virgin[Address]
  /\ AddressBit \subseteq virgin[Atom] \intersect virgin_atom_real
  /\ \A q \in Slot : entry[q].cksum[Address] # None
       => entry[q].cksum[Address] \subseteq AddressBit

\* No coverage is lost: what virgin_bits and virgin_atom_real no longer call new
\* was shown by a run of a case that is in the queue, although a nested run, its
\* verdict and a purge come between finding the case and keeping it.
CoverageOwned ==
  /\ AddressBit \ virgin[Address] \subseteq shown
  /\ AtomBit \ virgin_atom_real \subseteq shown

\* The filter of atom checksums does its work: a checksum whose second run
\* brought nothing is not run in address mode again for the same entry.
ConfirmedOnce ==
  [][pc # "confirm" /\ pc' = "confirm" => found'.key \notin rejected]_vars

\* An entry whose calibration succeeds is scored by an address map of its own,
\* in whichever mode the calibration began: half of its cycles are run in each.
ScoredByAddressMap ==
  [][pc = "calibrate" /\ pc' # "calibrate" /\ entry'[cal.q].cal_failed = 0
       => CalMode = Address \/ cal.trace_bits_addr \in SUBSET AddressBit]_vars

\* A calibration that succeeds in the course of fuzzing leaves the mode it
\* found: the switch at half time and the one at the end cancel out.
CalibrationRestoresMode ==
  [][pc = "calibrate" /\ pc' # "calibrate" /\ cal.caller # "dry"
       /\ entry'[cal.q].cal_failed = 0 => bb_mode' = cal.mode]_vars

=============================================================================
