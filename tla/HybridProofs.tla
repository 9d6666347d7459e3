---------------------------- MODULE HybridProofs ----------------------------
(***************************************************************************)
(* Proofs about Hybrid: type correctness (which includes that no map of an *)
(* earlier calibration is ever read), the separation of the two modes, and *)
(* that coverage is only consumed by cases in the queue; that the filter   *)
(* of checksums works; what a calibration scores by and which mode it      *)
(* leaves.                                                                 *)
(*                                                                         *)
(* Facts about calibrate_case() come first: what its helpers return, given *)
(* the invariant at a calibration.  Then one lemma for each group of       *)
(* actions, and the theorems.                                              *)
(***************************************************************************)
EXTENDS Hybrid, TLAPS, FiniteSetTheorems

(* The links between variables that make the properties inductive.         *)

\* An entry the dry run has not reached was never calibrated.
Untried(first) ==
  \A q \in Slot : q >= first => entry[q].cal_failed < CalChances

\* A calibration in progress: its first trace was written if the next judged
\* atom run may be compared with it; in the dry run it is that of queue_cur.
CalLinked ==
  pc = "calibrate" =>
    /\ cal \in Locals
    /\ bb_mode = Atom /\ entry[cal.q].cksum[Atom] # None
         => cal.first_trace # None
    /\ cal.caller = "dry" =>
         queue_cur = cal.q /\ queue_cur <= Inputs /\ Untried(queue_cur + 1)

\* The case set aside was found by an atom trace, and runs in address mode.
FoundLinked ==
  pc = "confirm" =>
    bb_mode = Address /\ found.trace \subseteq AtomBit /\ found.key \in Key

Linked ==
  /\ CalLinked
  /\ FoundLinked
  /\ pc = "dry" => Untried(queue_cur)

Inv == TypeOK /\ MapsNotMixed /\ CoverageOwned /\ Linked

-----------------------------------------------------------------------------
(* Maps and entries.                                                       *)

\* Facts about the constants in the form the steps use.
LEMMA ConstantFacts ==
  /\ MaxEntries \in Nat /\ MaxFuzzed \in Nat /\ CalCycles \in Nat
  /\ CalCyclesLong \in Nat /\ CalChances \in Nat /\ CalChances >= 1
  /\ Inputs \in Nat /\ Inputs >= 1 /\ Inputs <= MaxEntries
BY HybridAssumption

\* A map is not None: None holds a value that is no bit.
LEMMA MapIsNotNone == ASSUME NEW t \in SUBSET Bit PROVE t # None
BY HybridAssumption DEF None

LEMMA BitOfMode ==
  ASSUME NEW m \in Mode
  PROVE /\ BitOf(m) \subseteq Bit
        /\ m = Atom => BitOf(m) \intersect AddressBit = {}
        /\ m = Address => BitOf(m) \intersect AtomBit = {}
BY HybridAssumption DEF BitOf, Bit, Mode, Atom, Address

LEMMA TouchedIsNat == ASSUME NEW map PROVE Touched(map) \in Nat
<1>1. IsFiniteSet(Bit)
  BY HybridAssumption
<1>2. IsFiniteSet(Bit \ map)
  BY <1>1, FS_Difference
<1> QED
  BY <1>2, FS_CardinalityType DEF Touched

LEMMA NewEntryOK == NewEntry \in Entry /\ NewEntry.cal_failed = 0
BY ConstantFacts DEF NewEntry, Entry, Cksum

-----------------------------------------------------------------------------
(* calibrate_case().                                                       *)

\* Calling calibrate_case() for an entry that may still be calibrated.
LEMMA CalibrateOK ==
  ASSUME entry \in [Slot -> Entry], NEW q \in Slot, NEW e \in Entry,
         e.cal_failed < CalChances, NEW m \in Mode, NEW t \in SUBSET Bit,
         NEW caller \in {"dry", "fuzz", "save"}, Calibrate(caller, q, e, m, t)
  PROVE /\ pc' = "calibrate" /\ entry' \in [Slot -> Entry]
        /\ entry'[q].cksum = e.cksum
        /\ \A r \in Slot \ {q} : entry'[r] = entry[r]
        /\ cal' \in Locals /\ cal'.q = q /\ cal'.caller = caller
        /\ e.cksum[m] # None => cal'.first_trace # None
<1>1. pc' = "calibrate" /\ entry' = [entry EXCEPT ![q] = [e EXCEPT !.cal_failed = @ + 1]]
  BY DEF Calibrate
<1>2. [e EXCEPT !.cal_failed = @ + 1] \in Entry
  BY ConstantFacts DEF Entry
<1>3. [e EXCEPT !.cal_failed = @ + 1].cksum = e.cksum
  BY DEF Entry
<1>4. /\ entry' \in [Slot -> Entry] /\ entry'[q].cksum = e.cksum
      /\ \A r \in Slot \ {q} : entry'[r] = entry[r]
  BY <1>1, <1>2, <1>3
<1>5. (IF e.cksum[m] # None THEN t ELSE None) \in Cksum
  BY DEF Cksum
<1>6. None \in Cksum /\ {} \in SUBSET Bit
  BY DEF Cksum
<1>7. cal' \in Locals /\ cal'.q = q /\ cal'.caller = caller
  BY <1>5, <1>6 DEF Calibrate, Locals
<1>8. e.cksum[m] # None => cal'.first_trace # None
  BY MapIsNotNone DEF Calibrate
<1> QED
  BY <1>1, <1>4, <1>7, <1>8

\* What the steps of a calibration know: the invariant, a run of the target.
CalRun(t, o) ==
  /\ Inv /\ pc = "calibrate"
  /\ CalMode \in Mode /\ t \in SUBSET Bit /\ t \subseteq BitOf(CalMode)
  /\ o \in BOOLEAN

LEMMA CalModeOK ==
  ASSUME TypeOK PROVE CalMode \in Mode
BY DEF TypeOK, CalMode, Mode, Atom, Address

\* The first trace a run is compared with was written in this call.
LEMMA FirstTraceWritten ==
  ASSUME NEW t, NEW o, CalRun(t, o), Varies(t, o)
  PROVE FirstTrace(t) \in SUBSET Bit
<1> DEFINE e == entry[cal.q]
<1>1. /\ cal \in Locals /\ bb_mode \in Mode /\ e \in Entry
      /\ bb_mode = Atom /\ e.cksum[Atom] # None => cal.first_trace # None
  BY DEF CalRun, Inv, TypeOK, Linked, CalLinked, Locals
<1>2. e.cksum[CalMode] # None /\ t \in SUBSET Bit
  BY DEF CalRun, Varies
<1>3. CASE Switching /\ bb_mode = Address
  <2>1. CalMode = Atom
    BY <1>3 DEF CalMode, Atom, Address
  <2> QED
    BY <1>2, <1>3, <2>1 DEF FirstTrace
<1>4. CASE ~(Switching /\ bb_mode = Address) /\ e.cksum[Address] # None
  BY <1>2, <1>4 DEF FirstTrace
<1>5. CASE ~(Switching /\ bb_mode = Address) /\ e.cksum[Address] = None
  <2>1. CalMode = Atom
    BY <1>2, <1>5, CalModeOK DEF CalRun, Inv, Mode
  <2>2. bb_mode = Atom
    BY <1>1, <1>5, <2>1 DEF CalMode, Mode, Atom, Address
  <2>3. FirstTrace(t) = cal.first_trace
    BY <1>5 DEF FirstTrace
  <2>4. cal.first_trace # None
    BY <1>1, <1>2, <2>1, <2>2
  <2> QED
    BY <1>1, <2>3, <2>4 DEF Locals, Cksum
<1> QED
  BY <1>3, <1>4, <1>5

LEMMA VariableOK ==
  ASSUME NEW t, NEW o, CalRun(t, o) PROVE Variable(t, o) \in SUBSET Bit
BY FirstTraceWritten DEF Variable, CalRun

\* The entry keeps its type, and only a map of the mode of the run gets into it.
LEMMA ComparedOK ==
  ASSUME NEW t, NEW o, CalRun(t, o)
  PROVE /\ Compared(t, o) \in Entry
        /\ Compared(t, o).cal_failed = entry[cal.q].cal_failed
        /\ \A m \in Mode :
             Compared(t, o).cksum[m] \in
               {entry[cal.q].cksum[m]} \union (IF m = CalMode THEN {t} ELSE {})
<1> DEFINE e == entry[cal.q]
<1>1. e \in Entry /\ CalMode \in Mode /\ t \in SUBSET Bit /\ t \in Cksum
  BY DEF CalRun, Inv, TypeOK, Linked, CalLinked, Locals, Cksum
<1>2. CASE Unlike(t, o) /\ ~Varies(t, o)
  <2> DEFINE c == [e EXCEPT !.cksum[CalMode] = t,
                           !.overflow[CalMode] = @ /\ e.cksum[CalMode] = None]
  <2>1. Compared(t, o) = c
    BY <1>2 DEF Compared
  <2>2. /\ c.cksum = [e.cksum EXCEPT ![CalMode] = t]
        /\ c.overflow = [e.overflow EXCEPT
                           ![CalMode] = @ /\ e.cksum[CalMode] = None]
        /\ c.cal_failed = e.cal_failed /\ c.trim_done = e.trim_done
    BY <1>1 DEF Entry
  <2>3. c.cksum \in [Mode -> Cksum]
    BY <1>1, <2>2 DEF Entry
  <2>4. c.overflow \in [Mode -> BOOLEAN]
    BY <1>1, <2>2 DEF Entry
  <2>5. c \in Entry
    BY <1>1, <2>2, <2>3, <2>4 DEF Entry
  <2>6. \A m \in Mode : c.cksum[m] \in {e.cksum[m]} \union (IF m = CalMode THEN {t} ELSE {})
    BY <1>1, <2>2 DEF Entry
  <2> QED
    BY <2>1, <2>2, <2>5, <2>6
<1>3. CASE ~(Unlike(t, o) /\ ~Varies(t, o))
  BY <1>1, <1>3 DEF Compared
<1> QED
  BY <1>2, <1>3

\* The locals keep their type, and a first trace written stays written.
LEMMA CycledOK ==
  ASSUME NEW t, NEW o, CalRun(t, o)
  PROVE /\ Cycled(t, o) \in Locals
        /\ Cycled(t, o).q = cal.q /\ Cycled(t, o).caller = cal.caller
        /\ CalMode = Atom /\ Compared(t, o).cksum[Atom] # None
             => Cycled(t, o).first_trace # None
<1> DEFINE e == entry[cal.q]
<1>1. cal \in Locals /\ t \in SUBSET Bit /\ o \in BOOLEAN /\ bb_mode \in Mode
  BY DEF CalRun, Inv, Linked, CalLinked, TypeOK
<1>2. FirstTrace(t) \in Cksum
  BY <1>1 DEF FirstTrace, Cksum, Locals
<1>3. Variable(t, o) \in SUBSET Bit
  BY VariableOK
<1>4. Unlike(t, o) \in BOOLEAN /\ Varies(t, o) \in BOOLEAN /\ Switching \in BOOLEAN
  BY DEF Unlike, Varies, Switching
<1>5. Cycled(t, o) \in Locals
  <2> DEFINE sc == cal.stage_cur + 1
             sm == IF Variable(t, o) # {} THEN CalCyclesLong ELSE cal.stage_max
             sf == cal.switch_flag /\ ~Switching
             nb == \/ cal.new_bits
                   \/ Unlike(t, o) /\ t \intersect virgin[CalMode] # {}
             vd == cal.var_detected \/ Varies(t, o)
             vb == cal.var_bytes \union Variable(t, o)
             ft == KeptTrace(t, o)
             tb == IF CalMode = Address THEN t ELSE cal.trace_bits_addr
  <2>1. sc \in Nat
    BY <1>1 DEF Locals
  <2>2. sm \in {CalCycles, CalCyclesLong}
    BY <1>1 DEF Locals
  <2>3. sf \in BOOLEAN /\ nb \in BOOLEAN /\ vd \in BOOLEAN
    OBVIOUS
  <2>4. vb \in SUBSET Bit
    BY <1>1, <1>3 DEF Locals
  <2>5. ft \in Cksum
    BY <1>1, <1>2 DEF Cksum, KeptTrace
  <2>6. tb \in Cksum
    BY <1>1 DEF Cksum, Locals
  <2>7. Cycled(t, o) =
          [cal EXCEPT !.stage_cur = sc, !.stage_max = sm, !.switch_flag = sf,
                      !.new_bits = nb, !.var_detected = vd, !.var_bytes = vb,
                      !.first_trace = ft, !.trace_bits_addr = tb]
    BY Zenon DEF Cycled
  <2> HIDE DEF sc, sm, sf, nb, vd, vb, ft, tb
  <2> QED
    BY <1>1, <2>1, <2>2, <2>3, <2>4, <2>5, <2>6, <2>7 DEF Locals
<1>6. Cycled(t, o).q = cal.q /\ Cycled(t, o).caller = cal.caller
  BY <1>1 DEF Cycled, Locals
<1>7. ASSUME CalMode = Atom, Compared(t, o).cksum[Atom] # None
      PROVE Cycled(t, o).first_trace # None
  <2>1. Cycled(t, o).first_trace =
          IF Unlike(t, o) /\ e.cksum[CalMode] = None THEN t ELSE FirstTrace(t)
    BY <1>1 DEF Cycled, Locals, KeptTrace
  <2>2. t # None
    BY <1>1, MapIsNotNone
  <2>3. CASE Unlike(t, o) /\ e.cksum[Atom] = None
    BY <1>7, <2>1, <2>2, <2>3
  <2>4. CASE ~(Unlike(t, o) /\ e.cksum[Atom] = None)
    <3>1. e.cksum[Atom] # None
      <4>1. CASE Unlike(t, o)
        BY <2>4, <4>1
      <4>2. CASE ~Unlike(t, o)
        BY <1>7, <4>2 DEF Compared
      <4> QED
        BY <4>1, <4>2
    <3>2. bb_mode = Atom => cal.first_trace # None
      BY <3>1 DEF CalRun, Inv, Linked, CalLinked
    <3>3. bb_mode # Atom => Switching /\ bb_mode = Address
      BY <1>1, <1>7 DEF CalMode, Mode, Atom, Address
    <3>4. FirstTrace(t) # None
      BY <2>2, <3>1, <3>2, <3>3 DEF FirstTrace
    <3> QED
      BY <1>7, <2>1, <2>4, <3>4
  <2> QED
    BY <2>3, <2>4
<1> QED
  BY <1>5, <1>6, <1>7

\* No entry has an address checksum taken from an atom map.
AddressSums(en) ==
  \A q \in Slot : en[q].cksum[Address] # None
    => en[q].cksum[Address] \subseteq AddressBit

LEMMA CalRunOK ==
  ASSUME Inv, pc = "calibrate", NEW t \in SUBSET Bit, NEW o \in BOOLEAN,
         Run(CalMode, t)
  PROVE CalRun(t, o)
BY CalModeOK DEF CalRun, Run, Inv

\* A run of a calibration clears bits of its own mode only, and shows them.
LEMMA VirginOK ==
  ASSUME NEW t, NEW o, CalRun(t, o), shown' = shown \union t,
         virgin' = [virgin EXCEPT ![CalMode] = IF Unlike(t, o) THEN @ \ t ELSE @]
  PROVE /\ virgin' \in [Mode -> SUBSET Bit] /\ shown' \in SUBSET Bit
        /\ AtomBit \subseteq virgin'[Address]
        /\ AddressBit \subseteq virgin'[Atom]
        /\ AddressBit \ virgin'[Address] \subseteq shown'
        /\ AtomBit \ virgin_atom_real \subseteq shown'
<1>1. /\ virgin \in [Mode -> SUBSET Bit] /\ shown \in SUBSET Bit
      /\ CalMode \in Mode /\ t \in SUBSET Bit /\ t \subseteq BitOf(CalMode)
      /\ AtomBit \subseteq virgin[Address] /\ AddressBit \subseteq virgin[Atom]
      /\ AddressBit \ virgin[Address] \subseteq shown
      /\ AtomBit \ virgin_atom_real \subseteq shown
  BY DEF CalRun, Inv, TypeOK, MapsNotMixed, CoverageOwned
<1>2. virgin' \in [Mode -> SUBSET Bit]
  BY <1>1
<1>3. CASE CalMode = Atom
  <2>1. t \intersect AddressBit = {}
    BY <1>1, <1>3, BitOfMode
  <2>2. /\ virgin'[Address] = virgin[Address]
        /\ virgin'[Atom] \in {virgin[Atom], virgin[Atom] \ t}
    BY <1>1, <1>3 DEF Mode, Atom, Address
  <2> QED
    BY <1>1, <1>2, <2>1, <2>2
<1>4. CASE CalMode = Address
  <2>1. t \intersect AtomBit = {}
    BY <1>1, <1>4, BitOfMode
  <2>2. /\ virgin'[Atom] = virgin[Atom]
        /\ virgin'[Address] \in {virgin[Address], virgin[Address] \ t}
    BY <1>1, <1>4 DEF Mode, Atom, Address
  <2> QED
    BY <1>1, <1>2, <2>1, <2>2
<1> QED
  BY <1>1, <1>3, <1>4 DEF Mode

\* Replacing the entry by the compared one keeps the checksums separate.
LEMMA ComparedSums ==
  ASSUME NEW t, NEW o, CalRun(t, o), NEW e \in Entry,
         e.cksum = Compared(t, o).cksum
  PROVE /\ [entry EXCEPT ![cal.q] = e] \in [Slot -> Entry]
        /\ AddressSums([entry EXCEPT ![cal.q] = e])
<1>1. cal.q \in Slot /\ entry \in [Slot -> Entry] /\ t \subseteq BitOf(CalMode)
  BY DEF CalRun, Inv, TypeOK, Linked, CalLinked, Locals
<1>2. AddressSums(entry)
  BY DEF CalRun, Inv, MapsNotMixed, AddressSums
<1>3. e.cksum[Address] # None => e.cksum[Address] \subseteq AddressBit
  <2>1. e.cksum[Address] \in
          {entry[cal.q].cksum[Address]} \union (IF Address = CalMode THEN {t} ELSE {})
    BY ComparedOK DEF Mode
  <2>2. CalMode = Address => t \subseteq AddressBit
    BY <1>1 DEF BitOf, Atom, Address
  <2> QED
    BY <1>1, <1>2, <2>1, <2>2 DEF AddressSums
<1> QED
  BY <1>1, <1>2, <1>3 DEF AddressSums

LEMMA CycleStep ==
  ASSUME Inv, NEW t \in SUBSET Bit, NEW o \in BOOLEAN,
         CalibrateCycle(t, o)
  PROVE Inv'
<1>1. CalRun(t, o)
  BY CalRunOK DEF CalibrateCycle
<1>2. /\ Compared(t, o) \in Entry
      /\ Compared(t, o).cal_failed = entry[cal.q].cal_failed
  BY <1>1, ComparedOK
<1>3. entry' \in [Slot -> Entry] /\ AddressSums(entry')
  BY <1>1, <1>2, ComparedSums DEF CalibrateCycle
<1>4. /\ virgin' \in [Mode -> SUBSET Bit] /\ shown' \in SUBSET Bit
      /\ AtomBit \subseteq virgin'[Address]
      /\ AddressBit \subseteq virgin'[Atom]
      /\ AddressBit \ virgin'[Address] \subseteq shown'
      /\ AtomBit \ virgin_atom_real \subseteq shown'
  BY <1>1, VirginOK DEF CalibrateCycle
<1>5. /\ cal' \in Locals /\ cal'.q = cal.q /\ cal'.caller = cal.caller
      /\ CalMode = Atom /\ Compared(t, o).cksum[Atom] # None
           => cal'.first_trace # None
  BY <1>1, CycledOK DEF CalibrateCycle
<1>6. bb_mode' = CalMode /\ etm' = CalMode /\ CalMode \in Mode
  BY <1>1 DEF CalibrateCycle, CalRun
<1>7. TypeOK'
  BY <1>1, <1>3, <1>4, <1>5, <1>6 DEF Inv, TypeOK, CalibrateCycle, current
<1>8. MapsNotMixed'
  BY <1>3, <1>4, <1>6 DEF Inv, MapsNotMixed, CalibrateCycle, AddressSums
<1>9. CoverageOwned'
  BY <1>4 DEF CoverageOwned, CalibrateCycle
<1>10. Linked'
  <2>1. cal.q \in Slot /\ entry \in [Slot -> Entry]
    BY <1>1 DEF CalRun, Inv, TypeOK, Linked, CalLinked, Locals
  <2>2. entry' = [entry EXCEPT ![cal.q] = Compared(t, o)] /\ pc' = "calibrate"
        /\ queue_cur' = queue_cur
    BY DEF CalibrateCycle, current
  <2>3. entry'[cal.q] = Compared(t, o)
    BY <2>1, <2>2
  <2>4. \A q \in Slot : entry'[q].cal_failed = entry[q].cal_failed
    BY <1>2, <2>1, <2>2
  <2>5. cal.caller = "dry" =>
          queue_cur = cal.q /\ queue_cur <= Inputs /\ Untried(queue_cur + 1)
    BY <1>1 DEF CalRun, Inv, Linked, CalLinked
  <2> QED
    BY <1>5, <1>6, <2>2, <2>3, <2>4, <2>5 DEF Linked, CalLinked, FoundLinked, Untried
<1> QED
  BY <1>7, <1>8, <1>9, <1>10 DEF Inv

\* The part of the invariant that calibrate_case() hands over on its return,
\* for an entry e in place of the one calibrated.
LEMMA ReturnOK ==
  ASSUME NEW t, NEW o, CalRun(t, o), NEW res, NEW e \in Entry,
         e.cksum = Compared(t, o).cksum \/ e.cksum = entry[cal.q].cksum,
         Return(res, e), queued_paths' = queued_paths, fuzzed' = fuzzed
  PROVE /\ bb_mode' \in Mode /\ etm' = bb_mode'
        /\ pc' \in {"dry", "main", "trim", "stage", "fatal"}
        /\ cal' = NoCal
        /\ queue_cur' \in 1..(MaxEntries + 1)
        /\ entry' \in [Slot -> Entry] /\ AddressSums(entry')
        /\ Linked'
<1> DEFINE fail == [e EXCEPT !.cal_failed = CalChances]
<1>1. /\ cal \in Locals /\ cal.q \in Slot /\ CalMode \in Mode
      /\ entry \in [Slot -> Entry] /\ AddressSums(entry)
      /\ queue_cur \in 1..(MaxEntries + 1)
      /\ cal.caller = "dry" =>
           queue_cur = cal.q /\ queue_cur <= Inputs /\ Untried(queue_cur + 1)
  BY DEF CalRun, Inv, TypeOK, MapsNotMixed, AddressSums, Linked, CalLinked, Locals
<1>2. bb_mode' \in Mode /\ etm' = bb_mode' /\ cal' = NoCal
  BY <1>1 DEF Return, LeftMode, Mode, Atom, Address
<1>3. fail \in Entry /\ fail.cksum = e.cksum
  BY ConstantFacts DEF Entry
<1>4. ASSUME NEW x \in Entry, x.cksum = e.cksum
      PROVE /\ [entry EXCEPT ![cal.q] = x] \in [Slot -> Entry]
            /\ AddressSums([entry EXCEPT ![cal.q] = x])
  <2>1. CASE e.cksum = Compared(t, o).cksum
    BY <1>4, <2>1, ComparedSums
  <2>2. CASE e.cksum = entry[cal.q].cksum
    BY <1>1, <1>4, <2>2 DEF AddressSums
  <2> QED
    BY <2>1, <2>2
<1>5. entry' \in {entry, [entry EXCEPT ![cal.q] = e], [entry EXCEPT ![cal.q] = fail]}
  BY DEF Return
<1>6. entry' \in [Slot -> Entry] /\ AddressSums(entry')
  BY <1>1, <1>3, <1>4, <1>5
<1>7. /\ pc' \in {"dry", "main", "trim", "stage", "fatal"}
      /\ queue_cur' = IF pc' = "dry" THEN queue_cur + 1 ELSE queue_cur
      /\ pc' = "dry" => cal.caller = "dry"
  BY DEF Return
<1>8. queue_cur' \in 1..(MaxEntries + 1)
  BY <1>1, <1>7, ConstantFacts
<1>9. Linked'
  <2>1. pc' = "dry" =>
          \A q \in Slot : q >= queue_cur' => entry'[q].cal_failed < CalChances
    <3>1. \A q \in Slot \ {cal.q} : entry'[q] = entry[q]
      BY <1>1, <1>5
    <3> SUFFICES ASSUME pc' = "dry", NEW q \in Slot, q >= queue_cur + 1
                 PROVE entry'[q].cal_failed < CalChances
      BY <1>7
    <3>2. q # cal.q
      BY <1>1, <1>7 DEF Slot
    <3> QED
      BY <1>1, <1>7, <3>1, <3>2 DEF Untried
  <2> QED
    BY <1>7, <2>1 DEF Linked, CalLinked, FoundLinked, Untried
<1> QED
  BY <1>2, <1>6, <1>7, <1>8, <1>9

LEMMA AbortStep == ASSUME Inv, NEW f \in Fault, CalibrateAbort(f) PROVE Inv'
<1> DEFINE res == IF f = "none" THEN "noinst" ELSE f
<1>1. CalRun({}, FALSE)
  BY CalRunOK DEF CalibrateAbort, Run
<1>2. entry[cal.q] \in Entry
  BY <1>1 DEF CalRun, Inv, TypeOK, Linked, CalLinked, Locals
<1>3. Return(res, entry[cal.q]) /\ queued_paths' = queued_paths /\ fuzzed' = fuzzed
  BY DEF CalibrateAbort
<1> HIDE DEF res
<1>4. /\ bb_mode' \in Mode /\ etm' = bb_mode'
      /\ pc' \in {"dry", "main", "trim", "stage", "fatal"}
      /\ cal' = NoCal
      /\ queue_cur' \in 1..(MaxEntries + 1)
      /\ entry' \in [Slot -> Entry] /\ AddressSums(entry')
      /\ Linked'
  BY <1>1, <1>2, <1>3, ReturnOK
<1>5. TypeOK'
  BY <1>1, <1>4 DEF Inv, TypeOK, CalibrateAbort, maps
<1>6. MapsNotMixed'
  BY <1>4 DEF Inv, MapsNotMixed, CalibrateAbort, maps, AddressSums
<1>7. CoverageOwned'
  BY DEF Inv, CoverageOwned, CalibrateAbort, maps
<1> QED
  BY <1>4, <1>5, <1>6, <1>7 DEF Inv

LEMMA EndStep ==
  ASSUME Inv, NEW t \in SUBSET Bit, NEW o \in BOOLEAN,
         CalibrateEnd(t, o)
  PROVE Inv'
<1> DEFINE res == IF cal.first_run /\ ~Cycled(t, o).new_bits
                  THEN "nobits" ELSE "none"
           e == [Compared(t, o) EXCEPT !.cal_failed = 0]
<1>1. CalRun(t, o)
  BY CalRunOK DEF CalibrateEnd
<1>2. e \in Entry /\ e.cksum = Compared(t, o).cksum
  BY <1>1, ComparedOK, ConstantFacts DEF Entry
<1>3. Return(res, e) /\ queued_paths' = queued_paths /\ fuzzed' = fuzzed
  BY DEF CalibrateEnd
<1>4. /\ virgin' \in [Mode -> SUBSET Bit] /\ shown' \in SUBSET Bit
      /\ AtomBit \subseteq virgin'[Address]
      /\ AddressBit \subseteq virgin'[Atom]
      /\ AddressBit \ virgin'[Address] \subseteq shown'
      /\ AtomBit \ virgin_atom_real \subseteq shown'
  BY <1>1, VirginOK DEF CalibrateEnd
<1> HIDE DEF res, e
<1>5. /\ bb_mode' \in Mode /\ etm' = bb_mode'
      /\ pc' \in {"dry", "main", "trim", "stage", "fatal"}
      /\ cal' = NoCal
      /\ queue_cur' \in 1..(MaxEntries + 1)
      /\ entry' \in [Slot -> Entry] /\ AddressSums(entry')
      /\ Linked'
  BY <1>1, <1>2, <1>3, ReturnOK
<1>6. TypeOK'
  BY <1>1, <1>4, <1>5 DEF Inv, TypeOK, CalibrateEnd
<1>7. MapsNotMixed'
  BY <1>4, <1>5 DEF Inv, MapsNotMixed, CalibrateEnd, AddressSums
<1>8. CoverageOwned'
  BY <1>4 DEF CoverageOwned, CalibrateEnd
<1> QED
  BY <1>5, <1>6, <1>7, <1>8 DEF Inv

-----------------------------------------------------------------------------
(* The other actions.                                                      *)

\* A call of calibrate_case() from a state that has the invariant, when what
\* it leaves alone has its type and the maps are in order.
LEMMA CallOK ==
  ASSUME Inv, NEW q \in Slot, NEW e \in Entry, e.cal_failed < CalChances,
         e.cksum[Address] # None => e.cksum[Address] \subseteq AddressBit,
         NEW m \in Mode, NEW t \in SUBSET Bit,
         NEW caller \in {"dry", "fuzz", "save"}, Calibrate(caller, q, e, m, t)
  PROVE /\ pc' = "calibrate" /\ entry' \in [Slot -> Entry]
        /\ AddressSums(entry') /\ cal' \in Locals /\ cal'.caller = caller
        /\ cal'.q = q /\ entry'[q].cksum = e.cksum
        /\ e.cksum[m] # None => cal'.first_trace # None
        /\ \A r \in Slot \ {q} : entry'[r] = entry[r]
<1>1. entry \in [Slot -> Entry] /\ AddressSums(entry)
  BY DEF Inv, TypeOK, MapsNotMixed, AddressSums
<1>2. /\ pc' = "calibrate" /\ entry' \in [Slot -> Entry]
      /\ entry'[q].cksum = e.cksum
      /\ \A r \in Slot \ {q} : entry'[r] = entry[r]
      /\ cal' \in Locals /\ cal'.q = q /\ cal'.caller = caller
      /\ e.cksum[m] # None => cal'.first_trace # None
  BY <1>1, CalibrateOK
<1> QED
  BY <1>1, <1>2 DEF AddressSums

LEMMA DryRunStep == ASSUME Inv, DryRun PROVE Inv'
<1>1. /\ queue_cur \in Slot /\ entry[queue_cur] \in Entry /\ bb_mode \in Mode
      /\ queue_cur <= Inputs /\ Untried(queue_cur)
  BY ConstantFacts DEF Inv, TypeOK, DryRun, Linked, Slot
<1>2. entry[queue_cur].cal_failed < CalChances
  BY <1>1, ConstantFacts DEF Untried, Slot
<1>3. /\ pc' = "calibrate" /\ entry' \in [Slot -> Entry]
      /\ AddressSums(entry') /\ cal' \in Locals /\ cal'.caller = "dry"
      /\ cal'.q = queue_cur /\ entry'[queue_cur].cksum = entry[queue_cur].cksum
      /\ entry[queue_cur].cksum[bb_mode] # None => cal'.first_trace # None
      /\ \A r \in Slot \ {queue_cur} : entry'[r] = entry[r]
  <2>1. Calibrate("dry", queue_cur, entry[queue_cur], bb_mode, {})
    BY DEF DryRun
  <2>2. entry[queue_cur].cksum[Address] # None
          => entry[queue_cur].cksum[Address] \subseteq AddressBit
    BY <1>1 DEF Inv, MapsNotMixed
  <2> QED
    BY <1>1, <1>2, <2>1, <2>2, CallOK
<1>4. TypeOK'
  BY <1>3 DEF Inv, TypeOK, DryRun, modes, maps, current
<1>5. MapsNotMixed' /\ CoverageOwned'
  BY <1>3 DEF Inv, MapsNotMixed, CoverageOwned, AddressSums, DryRun, modes, maps
<1>6. Linked'
  <2>1. bb_mode' = bb_mode /\ queue_cur' = queue_cur
    BY DEF DryRun, modes, current
  <2>2. \A r \in Slot : r >= queue_cur + 1 => entry'[r].cal_failed < CalChances
    BY <1>1, <1>3 DEF Untried, Slot
  <2> QED
    BY <1>1, <1>3, <2>1, <2>2 DEF Linked, CalLinked, FoundLinked, Untried
<1> QED
  BY <1>4, <1>5, <1>6 DEF Inv

LEMMA FuzzOneStep == ASSUME Inv, NEW q \in Slot, FuzzOne(q) PROVE Inv'
<1>1. /\ entry[q] \in Entry /\ bb_mode \in Mode
      /\ entry[q].cksum[Address] # None
           => entry[q].cksum[Address] \subseteq AddressBit
  BY DEF Inv, TypeOK, MapsNotMixed
<1>2. /\ fuzzed' \in 0..MaxFuzzed /\ queue_cur' \in 1..(MaxEntries + 1)
      /\ atom_check' \in (SUBSET Half) \X (SUBSET Half) /\ rejected' = {}
  BY ConstantFacts DEF Inv, TypeOK, FuzzOne, Slot
<1>3. CASE entry[q].cal_failed = 0
  <2>1. pc' = "trim" /\ entry' = entry /\ cal' = cal
    BY <1>3 DEF FuzzOne
  <2>2. TypeOK'
    BY <1>2, <2>1 DEF Inv, TypeOK, FuzzOne, modes, maps
  <2>3. MapsNotMixed' /\ CoverageOwned' /\ Linked'
    BY <2>1 DEF Inv, MapsNotMixed, CoverageOwned, Linked, CalLinked,
                FoundLinked, FuzzOne, modes, maps
  <2> QED
    BY <2>2, <2>3 DEF Inv
<1>4. CASE entry[q].cal_failed # 0
  <2>1. PICK t \in SUBSET Bit : Calibrate("fuzz", q, entry[q], bb_mode, t)
    BY <1>4 DEF FuzzOne
  <2>2. entry[q].cal_failed < CalChances
    BY <1>4 DEF FuzzOne
  <2>3. /\ pc' = "calibrate" /\ entry' \in [Slot -> Entry]
        /\ AddressSums(entry') /\ cal' \in Locals /\ cal'.caller = "fuzz"
        /\ cal'.q = q /\ entry'[q].cksum = entry[q].cksum
        /\ entry[q].cksum[bb_mode] # None => cal'.first_trace # None
    BY <1>1, <2>1, <2>2, CallOK
  <2>4. TypeOK'
    BY <1>2, <2>3 DEF Inv, TypeOK, FuzzOne, modes, maps
  <2>5. MapsNotMixed' /\ CoverageOwned'
    BY <2>3 DEF Inv, MapsNotMixed, CoverageOwned, AddressSums, FuzzOne, modes, maps
  <2>6. Linked'
    <3>1. bb_mode' = bb_mode
      BY DEF FuzzOne, modes
    <3> QED
      BY <2>3, <3>1 DEF Linked, CalLinked, FoundLinked
  <2> QED
    BY <2>4, <2>5, <2>6 DEF Inv
<1> QED
  BY <1>3, <1>4

LEMMA EnterMainStep == ASSUME Inv, EnterMain PROVE Inv'
<1>1. /\ pc' \in {"fatal", "main"} /\ queue_cur' = 1
      /\ pre_virgin_bits' \in Nat
  BY TouchedIsNat DEF EnterMain
<1>2. TypeOK'
  BY <1>1, ConstantFacts DEF Inv, TypeOK, EnterMain, modes, queue
<1>3. MapsNotMixed' /\ CoverageOwned' /\ Linked'
  BY <1>1 DEF Inv, MapsNotMixed, CoverageOwned, Linked, CalLinked, FoundLinked,
              EnterMain, modes, queue
<1> QED
  BY <1>2, <1>3 DEF Inv

LEMMA SkipOneStep == ASSUME Inv, SkipOne PROVE Inv'
<1>1. /\ pc = "main"
      /\ atom_check' \in (SUBSET Half) \X (SUBSET Half) /\ rejected' = {}
  BY DEF SkipOne
<1>2. TypeOK'
  BY <1>1 DEF Inv, TypeOK, SkipOne, modes, maps, queue, current
<1>3. MapsNotMixed' /\ CoverageOwned' /\ Linked'
  BY <1>1 DEF Inv, MapsNotMixed, CoverageOwned, Linked, CalLinked, FoundLinked,
              SkipOne, modes, maps, queue, current
<1> QED
  BY <1>2, <1>3 DEF Inv

\* What trim_case() writes to the entry in hand leaves its checksums alone.
LEMMA TrimDoneOK ==
  ASSUME Inv, entry' = [entry EXCEPT ![queue_cur].trim_done = TRUE]
  PROVE entry' \in [Slot -> Entry] /\ AddressSums(entry')
<1>1. entry \in [Slot -> Entry] /\ AddressSums(entry)
  BY DEF Inv, TypeOK, MapsNotMixed, AddressSums
<1>2. ASSUME NEW q \in Slot
      PROVE entry'[q] \in Entry /\ entry'[q].cksum = entry[q].cksum
  <2>1. entry'[q] \in {entry[q], [entry[q] EXCEPT !.trim_done = TRUE]}
    BY <1>1
  <2> QED
    BY <1>1, <2>1 DEF Entry
<1>3. entry' \in [Slot -> Entry]
  BY <1>1, <1>2
<1> QED
  BY <1>1, <1>2, <1>3 DEF AddressSums

LEMMA TrimStep ==
  ASSUME Inv, TrimNot \/ TrimStart \/ TrimEnd
  PROVE Inv'
<1>1. /\ entry' \in [Slot -> Entry] /\ AddressSums(entry')
      /\ queued_paths' = queued_paths
  <2>1. CASE entry' = [entry EXCEPT ![queue_cur].trim_done = TRUE]
    BY <2>1, TrimDoneOK DEF TrimNot, TrimStart, TrimEnd, queue
  <2>2. CASE entry' = entry
    BY <2>2 DEF Inv, TypeOK, MapsNotMixed, AddressSums,
                TrimNot, TrimStart, TrimEnd, queue
  <2> QED
    BY <2>1, <2>2 DEF TrimNot, TrimStart, TrimEnd, queue
<1>2. /\ bb_mode' \in Mode /\ etm' = bb_mode' /\ tmp_mode' \in Mode
      /\ pc' \in {"update", "trimming"}
  BY DEF Inv, TypeOK, MapsNotMixed, TrimNot, TrimStart, TrimEnd, modes,
         Mode, Atom, Address
<1>3. UNCHANGED <<maps, atom_check, current, found, cal,
                  shown, rejected>>
  BY DEF TrimNot, TrimStart, TrimEnd
<1>4. TypeOK'
  BY <1>1, <1>2, <1>3 DEF Inv, TypeOK, maps, current
<1>5. MapsNotMixed' /\ CoverageOwned' /\ Linked'
  BY <1>1, <1>2, <1>3 DEF Inv, MapsNotMixed, CoverageOwned, AddressSums, maps,
                          Linked, CalLinked, FoundLinked
<1> QED
  BY <1>4, <1>5 DEF Inv

LEMMA UpdateStep ==
  ASSUME Inv, NEW t \in SUBSET Bit, NEW o \in BOOLEAN,
         UpdateChecksum(t, o)
  PROVE Inv'
<1>1. entry \in [Slot -> Entry] /\ AddressSums(entry) /\ t \in Cksum
  BY DEF Inv, TypeOK, MapsNotMixed, AddressSums, Cksum
<1>2. ASSUME NEW q \in Slot
      PROVE entry'[q] \in Entry /\ entry'[q].cksum[Address] = entry[q].cksum[Address]
  <2> DEFINE e == entry[q]
             c == [e EXCEPT !.cksum = [e.cksum EXCEPT ![Atom] = t]]
  <2>1. e \in Entry
    BY <1>1
  <2>2. e.cksum \in [Mode -> Cksum]
    BY <2>1 DEF Entry
  <2>3. [e.cksum EXCEPT ![Atom] = t] \in [Mode -> Cksum]
    BY <1>1, <2>2
  <2>4. [e.cksum EXCEPT ![Atom] = t][Address] = e.cksum[Address]
    BY <2>2 DEF Mode, Atom, Address
  <2> HIDE DEF e
  <2>5. c \in Entry /\ c.cksum[Address] = e.cksum[Address]
    BY <2>1, <2>3, <2>4 DEF Entry
  <2>6. entry'[q] \in {e, c}
    BY <1>1 DEF UpdateChecksum, e
  <2> QED
    BY <2>1, <2>5, <2>6 DEF e
<1>3. entry' \in [Slot -> Entry]
  BY <1>1, <1>2 DEF UpdateChecksum
<1>4. AddressSums(entry')
  BY <1>1, <1>2 DEF AddressSums
<1>5. /\ pc' = "stage"
      /\ bb_mode' = Atom /\ etm' = Atom /\ Atom \in Mode
  BY DEF UpdateChecksum, Run, Mode
<1>6. TypeOK'
  BY <1>3, <1>5 DEF Inv, TypeOK, UpdateChecksum, maps, current
<1>7. MapsNotMixed' /\ CoverageOwned' /\ Linked'
  BY <1>4, <1>5 DEF Inv, MapsNotMixed, CoverageOwned, AddressSums, Linked,
                    CalLinked, FoundLinked, UpdateChecksum, maps
<1> QED
  BY <1>6, <1>7 DEF Inv

LEMMA LeaveStep == ASSUME Inv, LeaveStage PROVE Inv'
BY DEF LeaveStage, Inv, TypeOK, MapsNotMixed, CoverageOwned, Linked, CalLinked,
       FoundLinked, modes, maps, queue, current

LEMMA StutterStep == ASSUME Inv, UNCHANGED vars PROVE Inv'
BY DEF vars, Inv, TypeOK, MapsNotMixed, CoverageOwned, Linked, CalLinked,
       FoundLinked, Untried, modes, maps, queue, current

-----------------------------------------------------------------------------
(* The fuzzing stages.                                                     *)

\* A purge leaves a map of atom bits, and of none it did not know.
LEMMA PurgedOK ==
  ASSUME Inv, NEW p \in BOOLEAN
  PROVE Purged(p) \in SUBSET Bit /\ AddressBit \subseteq Purged(p)
BY DEF Inv, TypeOK, MapsNotMixed, Purged, Mode, Atom, Address

LEMMA PurgeNoteOK ==
  ASSUME Inv, NEW p \in BOOLEAN, PurgeNote(p) PROVE pre_virgin_bits' \in Nat
BY TouchedIsNat DEF Inv, TypeOK, PurgeNote

\* virgin_atom is replaced by the purged map, or by a part of it.
LEMMA AtomReplaced ==
  ASSUME Inv, NEW v \in SUBSET Bit, AddressBit \subseteq v,
         virgin' = [virgin EXCEPT ![Atom] = v]
  PROVE /\ virgin' \in [Mode -> SUBSET Bit]
        /\ virgin'[Address] = virgin[Address] /\ virgin'[Atom] = v
BY DEF Inv, TypeOK, Mode, Atom, Address

\* Counted runs after which no case is kept.
LEMMA StageRunStep ==
  ASSUME Inv, NEW t \in SUBSET Bit, NEW p \in BOOLEAN, StageRun(t, p)
  PROVE Inv'
<1>1. /\ virgin' = [virgin EXCEPT ![Atom] = Purged(p)] /\ PurgeNote(p)
      /\ pc = "stage" /\ pc' = "stage"
      /\ UNCHANGED <<modes, virgin_atom_real, atom_check, queue, current,
                     found, cal, tmp_mode, shown, rejected>>
  BY DEF StageRun
<1>2. /\ virgin' \in [Mode -> SUBSET Bit]
      /\ virgin'[Address] = virgin[Address] /\ virgin'[Atom] = Purged(p)
      /\ AddressBit \subseteq Purged(p) /\ pre_virgin_bits' \in Nat
  BY <1>1, PurgedOK, PurgeNoteOK, AtomReplaced
<1>3. TypeOK'
  BY <1>1, <1>2 DEF Inv, TypeOK, modes, queue, current
<1>4. MapsNotMixed' /\ CoverageOwned' /\ Linked'
  BY <1>1, <1>2 DEF Inv, MapsNotMixed, CoverageOwned, Linked, CalLinked,
                    FoundLinked, modes, queue, current
<1> QED
  BY <1>3, <1>4 DEF Inv

LEMMA StageNewStep ==
  ASSUME Inv, NEW t \in SUBSET Bit, NEW o \in BOOLEAN, NEW key \in Key,
         NEW p \in BOOLEAN, StageNew(t, o, key, p)
  PROVE Inv'
<1>1. /\ pc' = "confirm"
      /\ bb_mode' = Address /\ etm' = Address /\ Address \in Mode
      /\ virgin' = [virgin EXCEPT ![Atom] = Purged(p) \ t] /\ PurgeNote(p)
      /\ found' = [trace |-> t, overflow |-> o, key |-> key]
      /\ UNCHANGED <<virgin_atom_real, atom_check, queue, current, cal,
                     tmp_mode, shown, rejected>>
  BY DEF StageNew, Run, Mode
<1>2. t \subseteq AtomBit /\ t \intersect AddressBit = {}
  BY HybridAssumption DEF StageNew, Run, Inv, MapsNotMixed, BitOf, Mode, Atom, Address
<1>3. /\ virgin' \in [Mode -> SUBSET Bit]
      /\ virgin'[Address] = virgin[Address] /\ virgin'[Atom] = Purged(p) \ t
      /\ AddressBit \subseteq Purged(p) \ t /\ pre_virgin_bits' \in Nat
  BY <1>1, <1>2, PurgedOK, PurgeNoteOK, AtomReplaced
<1>4. TypeOK'
  BY <1>1, <1>3 DEF Inv, TypeOK, queue, current
<1>5. MapsNotMixed' /\ CoverageOwned' /\ Linked'
  BY <1>1, <1>2, <1>3 DEF Inv, MapsNotMixed, CoverageOwned, Linked, CalLinked,
                          FoundLinked, queue, current
<1> QED
  BY <1>4, <1>5 DEF Inv

\* The second run brings nothing: the checksum goes into the filter.
LEMMA ConfirmOldStep ==
  ASSUME Inv, NEW t \in SUBSET Bit, NEW p \in BOOLEAN, ConfirmOld(t, p)
  PROVE Inv'
<1>1. /\ pc' = "stage"
      /\ bb_mode' = Atom /\ etm' = Atom /\ Atom \in Mode
      /\ virgin' = [virgin EXCEPT ![Atom] = Purged(p)] /\ PurgeNote(p)
      /\ found' = NoCase
      /\ UNCHANGED <<virgin_atom_real, queue, current, cal, tmp_mode, shown>>
  BY DEF ConfirmOld, Run, Mode
<1>2. found.key \in Key
  BY DEF Inv, Linked, FoundLinked, ConfirmOld
<1>3. /\ atom_check' \in (SUBSET Half) \X (SUBSET Half)
      /\ rejected' \in SUBSET Key
  BY <1>2 DEF Inv, TypeOK, ConfirmOld, Key
<1>4. NoCase \in [trace : SUBSET Bit, overflow : BOOLEAN, key : Key \union {NoKey}]
  BY DEF NoCase
<1>5. /\ virgin' \in [Mode -> SUBSET Bit]
      /\ virgin'[Address] = virgin[Address] /\ virgin'[Atom] = Purged(p)
      /\ AddressBit \subseteq Purged(p) /\ pre_virgin_bits' \in Nat
  BY <1>1, PurgedOK, PurgeNoteOK, AtomReplaced
<1>6. TypeOK'
  BY <1>1, <1>3, <1>4, <1>5 DEF Inv, TypeOK, queue, current
<1>7. MapsNotMixed' /\ CoverageOwned' /\ Linked'
  BY <1>1, <1>5 DEF Inv, MapsNotMixed, CoverageOwned, Linked, CalLinked,
                    FoundLinked, queue, current
<1> QED
  BY <1>6, <1>7 DEF Inv

\* A new entry with address map t and atom map a starts its calibration.
LEMMA KeepOK ==
  ASSUME Inv, NEW t \in SUBSET AddressBit, NEW o \in BOOLEAN, NEW a \in Cksum,
         NEW ao \in BOOLEAN, NEW m \in Mode, Keep(t, o, a, ao, m),
         m = Atom => a # None
  PROVE /\ pc' = "calibrate" /\ queued_paths' \in Inputs..MaxEntries
        /\ entry' \in [Slot -> Entry] /\ AddressSums(entry')
        /\ cal' \in Locals /\ cal'.caller = "save"
        /\ m = Atom => cal'.first_trace # None
<1> DEFINE q == queued_paths + 1
           e == [NewEntry EXCEPT !.cksum = ByMode(a, t),
                                 !.overflow = ByMode(ao, o)]
<1>1. q \in Slot /\ queued_paths' = q /\ q \in Inputs..MaxEntries
  BY ConstantFacts DEF Keep, Inv, TypeOK, Slot
<1>2. /\ e \in Entry /\ e.cal_failed = 0
      /\ e.cksum[Atom] = a /\ e.cksum[Address] = t
  <2>1. t \in Cksum
    BY DEF Cksum, Bit
  <2>2. /\ ByMode(a, t) \in [Mode -> Cksum]
        /\ ByMode(a, t)[Atom] = a /\ ByMode(a, t)[Address] = t
    BY <2>1 DEF ByMode, Mode, Atom, Address
  <2>3. ByMode(ao, o) \in [Mode -> BOOLEAN]
    BY DEF ByMode
  <2> HIDE DEF ByMode
  <2> QED
    BY <2>2, <2>3, NewEntryOK DEF Entry, NewEntry
<1>3. Calibrate("save", q, e, m, t)
  BY DEF Keep
<1>4. t \in SUBSET Bit
  BY DEF Bit
<1> HIDE DEF q, e
<1>5. /\ pc' = "calibrate" /\ entry' \in [Slot -> Entry]
      /\ AddressSums(entry') /\ cal' \in Locals /\ cal'.caller = "save"
      /\ e.cksum[m] # None => cal'.first_trace # None
  BY <1>1, <1>2, <1>3, <1>4, CallOK, ConstantFacts
<1> QED
  BY <1>1, <1>2, <1>5

\* Both maps are replaced when a case is kept.
LEMMA BothReplaced ==
  ASSUME NEW a \in SUBSET Bit, NEW b \in SUBSET Bit, virgin' = ByMode(a, b)
  PROVE /\ virgin' \in [Mode -> SUBSET Bit]
        /\ virgin'[Atom] = a /\ virgin'[Address] = b
BY DEF ByMode, Mode, Atom, Address

LEMMA StageKeepStep ==
  ASSUME Inv, NEW t \in SUBSET Bit, NEW o \in BOOLEAN, NEW p \in BOOLEAN,
         StageKeep(t, o, p)
  PROVE Inv'
<1>1. t \in SUBSET AddressBit
  BY DEF StageKeep, Run, Inv, MapsNotMixed, BitOf, Atom, Address
<1>2. /\ PurgeNote(p)
      /\ virgin' = ByMode(Purged(p), virgin[Address] \ t)
      /\ Keep(t, o, None, FALSE, Address) /\ shown' = shown \union t
      /\ bb_mode = Address
      /\ UNCHANGED <<modes, virgin_atom_real, atom_check, current, found,
                     tmp_mode, rejected>>
  BY DEF StageKeep, Run
<1>3. /\ virgin' \in [Mode -> SUBSET Bit] /\ virgin'[Atom] = Purged(p)
      /\ virgin'[Address] = virgin[Address] \ t
      /\ AddressBit \subseteq Purged(p) /\ pre_virgin_bits' \in Nat
  <2>1. virgin[Address] \ t \in SUBSET Bit
    BY DEF Inv, TypeOK, Mode
  <2> QED
    BY <1>2, <2>1, PurgedOK, PurgeNoteOK, BothReplaced
<1>4. /\ pc' = "calibrate" /\ queued_paths' \in Inputs..MaxEntries
      /\ entry' \in [Slot -> Entry] /\ AddressSums(entry')
      /\ cal' \in Locals /\ cal'.caller = "save"
  <2>1. None \in Cksum /\ Address \in Mode /\ Address # Atom
    BY DEF Cksum, Mode, Atom, Address
  <2> QED
    BY <1>1, <1>2, <2>1, KeepOK
<1>5. TypeOK'
  BY <1>2, <1>3, <1>4 DEF Inv, TypeOK, modes, current
<1>6. AtomBit \subseteq virgin'[Address]
  BY <1>1, <1>3, HybridAssumption DEF Inv, MapsNotMixed
<1>7. MapsNotMixed' /\ CoverageOwned'
  BY <1>2, <1>3, <1>4, <1>6
     DEF Inv, MapsNotMixed, CoverageOwned, AddressSums, modes
<1>8. Linked'
  BY <1>2, <1>4 DEF Linked, CalLinked, FoundLinked, modes, Atom, Address
<1> QED
  BY <1>5, <1>7, <1>8 DEF Inv

LEMMA ConfirmNewStep ==
  ASSUME Inv, NEW t \in SUBSET Bit, NEW o \in BOOLEAN, NEW p \in BOOLEAN,
         ConfirmNew(t, o, p)
  PROVE Inv'
<1>1. /\ t \in SUBSET AddressBit /\ found.trace \subseteq AtomBit
      /\ found.trace \in SUBSET Bit /\ found.overflow \in BOOLEAN
  BY DEF ConfirmNew, Run, Inv, TypeOK, MapsNotMixed, Linked, FoundLinked,
         BitOf, Atom, Address
<1>2. /\ PurgeNote(p)
      /\ bb_mode' = Atom /\ etm' = Atom /\ Atom \in Mode
      /\ virgin' = ByMode(Purged(p), virgin[Address] \ t)
      /\ virgin_atom_real' = virgin_atom_real \ found.trace
      /\ Keep(t, o, found.trace, found.overflow, Atom)
      /\ shown' = (shown \union t) \union found.trace
      /\ found' = NoCase
      /\ UNCHANGED <<atom_check, current, tmp_mode, rejected>>
  BY DEF ConfirmNew, Run, Mode
<1>3. /\ virgin' \in [Mode -> SUBSET Bit] /\ virgin'[Atom] = Purged(p)
      /\ virgin'[Address] = virgin[Address] \ t
      /\ AddressBit \subseteq Purged(p) /\ pre_virgin_bits' \in Nat
  <2>1. virgin[Address] \ t \in SUBSET Bit
    BY DEF Inv, TypeOK, Mode
  <2> QED
    BY <1>2, <2>1, PurgedOK, PurgeNoteOK, BothReplaced
<1>4. /\ pc' = "calibrate" /\ queued_paths' \in Inputs..MaxEntries
      /\ entry' \in [Slot -> Entry] /\ AddressSums(entry')
      /\ cal' \in Locals /\ cal'.caller = "save" /\ cal'.first_trace # None
  <2>1. found.trace \in Cksum /\ found.trace # None
    BY <1>1, MapIsNotNone DEF Cksum
  <2> QED
    BY <1>1, <1>2, <2>1, KeepOK
<1>5. NoCase \in [trace : SUBSET Bit, overflow : BOOLEAN, key : Key \union {NoKey}]
  BY DEF NoCase
<1>6. TypeOK'
  BY <1>1, <1>2, <1>3, <1>4, <1>5 DEF Inv, TypeOK, current
<1>7. /\ AtomBit \subseteq virgin'[Address]
      /\ AddressBit \subseteq virgin_atom_real'
  BY <1>1, <1>2, <1>3, HybridAssumption DEF Inv, MapsNotMixed
<1>8. MapsNotMixed'
  BY <1>2, <1>3, <1>4, <1>7 DEF MapsNotMixed, AddressSums
<1>9. CoverageOwned'
  BY <1>2, <1>3 DEF Inv, CoverageOwned
<1>10. Linked'
  BY <1>2, <1>4 DEF Linked, CalLinked, FoundLinked
<1> QED
  BY <1>6, <1>8, <1>9, <1>10 DEF Inv

-----------------------------------------------------------------------------
(* The theorems.                                                           *)

LEMMA InitOK == Init => Inv
<1> SUFFICES ASSUME Init PROVE Inv
  OBVIOUS
<1>1. NoCase \in [trace : SUBSET Bit, overflow : BOOLEAN, key : Key \union {NoKey}]
  BY DEF NoCase
<1>2. TypeOK
  <2>1. entry \in [Slot -> Entry] /\ virgin \in [Mode -> SUBSET Bit]
    BY NewEntryOK DEF Init
  <2>2. /\ queued_paths \in Inputs..MaxEntries
        /\ queue_cur \in 1..(MaxEntries + 1) /\ fuzzed \in 0..MaxFuzzed
    BY ConstantFacts DEF Init
  <2>3. atom_check \in (SUBSET Half) \X (SUBSET Half)
    BY DEF Init
  <2>4. Atom \in Mode /\ Address \in Mode
    BY DEF Mode
  <2> QED
    BY <1>1, <2>1, <2>2, <2>3, <2>4 DEF Init, TypeOK
<1>3. MapsNotMixed
  BY DEF Init, MapsNotMixed, NewEntry, Bit, Mode, Atom, Address
<1>4. CoverageOwned
  BY DEF Init, CoverageOwned, Bit, Mode, Atom, Address
<1>5. Linked
  BY ConstantFacts, NewEntryOK DEF Init, Linked, CalLinked, FoundLinked, Untried
<1> QED
  BY <1>2, <1>3, <1>4, <1>5 DEF Inv

LEMMA InvPreserved == Inv /\ [Next]_vars => Inv'
<1> SUFFICES ASSUME Inv, [Next]_vars PROVE Inv'
  OBVIOUS
<1>1. CASE DryRun \/ EnterMain \/ LeaveStage \/ SkipOne
  BY <1>1, DryRunStep, EnterMainStep, LeaveStep, SkipOneStep
<1>2. CASE TrimNot \/ TrimStart \/ TrimEnd
  BY <1>2, TrimStep
<1>3. CASE \E q \in Slot : FuzzOne(q)
  BY <1>3, FuzzOneStep
<1>4. CASE \E t \in SUBSET Bit, o \in BOOLEAN :
             \/ CalibrateCycle(t, o) \/ CalibrateEnd(t, o) \/ UpdateChecksum(t, o)
  BY <1>4, CycleStep, EndStep, UpdateStep
<1>5. CASE \E f \in Fault : CalibrateAbort(f)
  BY <1>5, AbortStep
<1>6. CASE \E t \in SUBSET Bit, p \in BOOLEAN :
             \/ StageRun(t, p) \/ ConfirmOld(t, p)
             \/ \E o \in BOOLEAN : \/ StageKeep(t, o, p) \/ ConfirmNew(t, o, p)
                                  \/ \E key \in Key : StageNew(t, o, key, p)
  BY <1>6, StageRunStep, ConfirmOldStep, StageKeepStep, ConfirmNewStep,
     StageNewStep
<1>7. CASE Fatal \/ UNCHANGED vars
  BY <1>7, StutterStep DEF Fatal
<1> QED
  BY <1>1, <1>2, <1>3, <1>4, <1>5, <1>6, <1>7 DEF Next

LEMMA InvAlways == Spec => []Inv
BY InitOK, InvPreserved, PTL DEF Spec

\* Type correctness of hybrid coverage, for any number of entries, cycles and
\* chances; in particular the first_trace left by an earlier calibration never
\* reaches the variable bytes of an entry.
THEOREM HybridTypeCorrect == Spec => []TypeOK
<1>1. Inv => TypeOK
  BY DEF Inv
<1> QED
  BY <1>1, InvAlways, PTL

\* The trace unit is always in the mode the program believes in, and a map or
\* an address checksum never holds bits of a trace of the other mode.
THEOREM ModesKeptApart == Spec => []MapsNotMixed
<1>1. Inv => MapsNotMixed
  BY DEF Inv
<1> QED
  BY <1>1, InvAlways, PTL

\* Coverage is taken off the maps of what is new only by runs of cases that are
\* in the queue.
THEOREM CoverageIsOwned == Spec => []CoverageOwned
<1>1. Inv => CoverageOwned
  BY DEF Inv
<1> QED
  BY <1>1, InvAlways, PTL
-----------------------------------------------------------------------------
(* What single steps may not do.                                           *)

\* The halves of every checksum found fruitless are in the filter.
Noted == \A key \in rejected : Filtered(key)

\* It holds after every step: ConfirmOld notes both, a new entry in hand clears both.
LEMMA NotedKept == Inv /\ Noted /\ [Next]_vars => Noted'
<1> SUFFICES ASSUME Inv, Noted, [Next]_vars PROVE Noted'
  OBVIOUS
<1> USE DEF Noted, Filtered
<1>1. CASE UNCHANGED <<atom_check, rejected>>
  BY <1>1
<1>2. CASE rejected' = {}
  BY <1>2
<1>3. ASSUME NEW t \in SUBSET Bit, NEW p \in BOOLEAN, ConfirmOld(t, p) PROVE Noted'
  <2>1. /\ atom_check' = <<atom_check[1] \union {found.key[1]},
                           atom_check[2] \union {found.key[2]}>>
        /\ rejected' = rejected \union {found.key}
    BY <1>3 DEF ConfirmOld
  <2> QED
    BY <2>1
<1>4. CASE DryRun \/ EnterMain \/ LeaveStage \/ SkipOne \/ TrimNot \/ TrimStart \/ TrimEnd
  BY <1>1, <1>2, <1>4
  DEF DryRun, EnterMain, LeaveStage, SkipOne, TrimNot, TrimStart, TrimEnd
<1>5. ASSUME NEW q \in Slot, FuzzOne(q) PROVE Noted'
  BY <1>2, <1>5 DEF FuzzOne
<1>6. ASSUME NEW t \in SUBSET Bit, NEW o \in BOOLEAN,
             CalibrateCycle(t, o) \/ CalibrateEnd(t, o) \/ UpdateChecksum(t, o)
      PROVE Noted'
  BY <1>1, <1>6 DEF CalibrateCycle, CalibrateEnd, UpdateChecksum
<1>7. ASSUME NEW f \in Fault, CalibrateAbort(f) PROVE Noted'
  BY <1>1, <1>7 DEF CalibrateAbort
<1>8. ASSUME NEW t \in SUBSET Bit, NEW p \in BOOLEAN,
             \/ StageRun(t, p)
             \/ \E o \in BOOLEAN : \/ StageKeep(t, o, p) \/ ConfirmNew(t, o, p)
                                  \/ \E key \in Key : StageNew(t, o, key, p)
      PROVE Noted'
  BY <1>1, <1>8 DEF StageRun, StageKeep, ConfirmNew, StageNew
<1>9. CASE Fatal \/ UNCHANGED vars
  BY <1>1, <1>9 DEF Fatal, vars
<1> QED
  BY <1>3, <1>4, <1>5, <1>6, <1>7, <1>8, <1>9 DEF Next

\* The checksum filter of save_if_interesting(): within the stages of one entry no case
\* runs in address mode whose atom checksum did so before in vain.
THEOREM FilterHolds == Spec => ConfirmedOnce
<1>1. Init => Noted
  BY DEF Init, Noted
<1>2. Noted /\ [Next]_vars
        => [pc # "confirm" /\ pc' = "confirm" => found'.key \notin rejected]_vars
  <2> SUFFICES ASSUME Noted, Next, pc # "confirm", pc' = "confirm"
               PROVE  found'.key \notin rejected
    OBVIOUS
  <2>1. PICK t \in SUBSET Bit, o \in BOOLEAN, key \in Key, p \in BOOLEAN :
          StageNew(t, o, key, p)
    BY DEF Next, Fatal, DryRun, EnterMain, LeaveStage, SkipOne, TrimNot, TrimStart, TrimEnd,
           FuzzOne, Calibrate, CalibrateCycle, CalibrateEnd, UpdateChecksum, CalibrateAbort,
           Return, StageRun, ConfirmOld, StageKeep, ConfirmNew, Keep, vars
  <2>2. ~Filtered(key) /\ found' = [trace |-> t, overflow |-> o, key |-> key]
    BY <2>1 DEF StageNew
  <2> QED
    BY <2>2 DEF Noted
<1> QED
  BY <1>1, <1>2, NotedKept, InvAlways, PTL DEF Spec, ConfirmedOnce

\* Where the loop of calibrate_case() stands between its two modes: the mode it began
\* with until the switch, the other one after it, and a map of addresses once there was
\* a run of that mode.
CalModes ==
  pc = "calibrate" =>
    /\ bb_mode = IF cal.switch_flag THEN cal.mode ELSE 1 - cal.mode
    /\ ~cal.switch_flag => cal.stage_cur > 0
    /\ cal.stage_cur > 0 /\ cal.mode = Address => cal.trace_bits_addr \in SUBSET AddressBit
    /\ entry[cal.q].cal_failed > 0

\* It holds when calibrate_case() is entered,
LEMMA CallModes ==
  ASSUME entry \in [Slot -> Entry], NEW q \in Slot, NEW e \in Entry, NEW m, NEW t,
         NEW caller, Calibrate(caller, q, e, m, t), bb_mode' = m
  PROVE  CalModes'
<1>1. cal' = [caller |-> caller, q |-> q, mode |-> m,
              stage_cur |-> 0, stage_max |-> CalCycles, switch_flag |-> TRUE,
              first_run |-> e.cksum[Address] = None,
              new_bits |-> FALSE, var_detected |-> FALSE, var_bytes |-> {},
              first_trace |-> IF e.cksum[m] # None THEN t ELSE None,
              trace_bits_addr |-> None]
  BY DEF Calibrate
<1>2. cal'.mode = m /\ cal'.stage_cur = 0 /\ cal'.switch_flag = TRUE /\ cal'.q = q
  BY <1>1
<1>3. entry'[q].cal_failed = e.cal_failed + 1
  BY DEF Calibrate, Entry
<1>4. e.cal_failed \in Nat
  BY ConstantFacts DEF Entry
<1> QED
  BY <1>2, <1>3, <1>4 DEF CalModes

\* What the switch at half time means for a run, whichever mode the loop began with.
LEMMA ModeOfRun ==
  ASSUME Inv, CalModes, pc = "calibrate"
  PROVE /\ cal \in Locals /\ bb_mode \in Mode
        /\ Switching => cal.stage_cur > 0
        /\ CalMode = IF cal.switch_flag /\ ~Switching THEN cal.mode ELSE 1 - cal.mode
<1>1. cal \in Locals /\ bb_mode \in Mode
  BY DEF Inv, TypeOK, Linked, CalLinked
<1>2. cal.mode \in Mode /\ cal.stage_cur \in Nat /\ cal.stage_max \in Nat \ {0}
  BY <1>1, HybridAssumption DEF Locals
<1>3. Switching => cal.stage_cur > 0
  BY <1>2 DEF Switching
<1>4. CalMode = IF cal.switch_flag /\ ~Switching THEN cal.mode ELSE 1 - cal.mode
  BY <1>1, <1>2 DEF CalModes, CalMode, Switching, Mode, Atom, Address
<1> QED
  BY <1>1, <1>3, <1>4

\* after every cycle,
LEMMA CycleModes ==
  ASSUME Inv, CalModes, NEW t \in SUBSET Bit, NEW o \in BOOLEAN, CalibrateCycle(t, o)
  PROVE  CalModes'
<1>1. CalRun(t, o) /\ pc = "calibrate"
  BY CalRunOK DEF CalibrateCycle
<1>2. /\ cal \in Locals /\ cal.stage_cur \in Nat /\ cal.mode \in Mode /\ cal.q \in Slot
      /\ Switching => cal.stage_cur > 0
      /\ CalMode = IF cal.switch_flag /\ ~Switching THEN cal.mode ELSE 1 - cal.mode
  BY <1>1, ModeOfRun DEF Locals
<1>3. /\ cal' = Cycled(t, o) /\ bb_mode' = CalMode
      /\ entry' = [entry EXCEPT ![cal.q] = Compared(t, o)]
  BY DEF CalibrateCycle
<1>4. /\ cal'.stage_cur = cal.stage_cur + 1
      /\ cal'.switch_flag = (cal.switch_flag /\ ~Switching)
      /\ cal'.mode = cal.mode /\ cal'.q = cal.q
      /\ cal'.trace_bits_addr = IF CalMode = Address THEN t ELSE cal.trace_bits_addr
  BY <1>2, <1>3 DEF Cycled, Locals
<1>5. CalMode = Address => t \in SUBSET AddressBit
  BY DEF CalibrateCycle, Run, BitOf, Atom, Address
<1>6. cal.mode = Address => cal'.trace_bits_addr \in SUBSET AddressBit
  BY <1>1, <1>2, <1>4, <1>5 DEF CalModes, Mode, Atom, Address
<1>7. entry'[cal.q].cal_failed > 0
  <2>1. entry'[cal.q] = Compared(t, o)
    BY <1>2, <1>3 DEF Inv, TypeOK
  <2> QED
    BY <1>1, <2>1, ComparedOK DEF CalModes
<1>8. bb_mode' = IF cal'.switch_flag THEN cal'.mode ELSE 1 - cal'.mode
  BY <1>2, <1>3, <1>4
<1>9. cal'.stage_cur > 0
  BY <1>2, <1>4
<1> QED
  BY <1>4, <1>6, <1>7, <1>8, <1>9 DEF CalModes

\* and so after every step: no other one leads into calibrate_case().
LEMMA ModesKept == Inv /\ CalModes /\ [Next]_vars => CalModes'
<1> SUFFICES ASSUME Inv, CalModes, [Next]_vars PROVE CalModes'
  OBVIOUS
<1>0. /\ entry \in [Slot -> Entry] /\ queue_cur \in 1..(MaxEntries + 1)
      /\ queued_paths \in Inputs..MaxEntries
      /\ pc = "confirm" => found.trace \in SUBSET Bit /\ found.overflow \in BOOLEAN
  BY DEF Inv, TypeOK
<1>1. CASE pc' # "calibrate"
  BY <1>1 DEF CalModes
<1>2. CASE DryRun
  <2>1. queue_cur \in Slot
    BY <1>0, <1>2, ConstantFacts DEF DryRun, Slot
  <2> QED
    BY <1>0, <1>2, <2>1, CallModes DEF DryRun, modes
<1>3. ASSUME NEW q \in Slot, FuzzOne(q) PROVE CalModes'
  <2>1. CASE entry[q].cal_failed = 0
    BY <1>1, <1>3, <2>1 DEF FuzzOne
  <2>2. CASE entry[q].cal_failed # 0
    BY <1>0, <1>3, <2>2, CallModes DEF FuzzOne, modes
  <2> QED
    BY <2>1, <2>2
<1>4. ASSUME NEW t \in SUBSET Bit, NEW o \in BOOLEAN, CalibrateCycle(t, o) PROVE CalModes'
  BY <1>4, CycleModes
<1>5. ASSUME NEW t \in SUBSET Bit, NEW o \in BOOLEAN, NEW a, NEW ao, NEW m,
             Keep(t, o, a, ao, m), bb_mode' = m, a \in Cksum, ao \in BOOLEAN
      PROVE CalModes'
  <2> DEFINE e == [NewEntry EXCEPT !.cksum = ByMode(a, t), !.overflow = ByMode(ao, o)]
  <2>1. e \in Entry
    BY <1>5, NewEntryOK DEF Entry, ByMode, Cksum
  <2>2. queued_paths + 1 \in Slot /\ Calibrate("save", queued_paths + 1, e, m, t)
    BY <1>0, <1>5, ConstantFacts DEF Keep, Slot
  <2> HIDE DEF e
  <2> QED
    BY <1>0, <1>5, <2>1, <2>2, CallModes, SMTT(30)
<1>6. ASSUME NEW t \in SUBSET Bit, NEW o \in BOOLEAN, NEW p \in BOOLEAN,
             StageKeep(t, o, p) \/ ConfirmNew(t, o, p)
      PROVE CalModes'
  BY <1>0, <1>5, <1>6 DEF StageKeep, ConfirmNew, modes, Cksum
<1>7. CASE UNCHANGED vars
  BY <1>7 DEF vars, modes, queue, CalModes
<1>8. ASSUME Next, pc' = "calibrate"
      PROVE \/ UNCHANGED vars \/ DryRun \/ \E q \in Slot : FuzzOne(q)
            \/ \E t \in SUBSET Bit, o \in BOOLEAN : CalibrateCycle(t, o)
            \/ \E t \in SUBSET Bit, o \in BOOLEAN, p \in BOOLEAN :
                 StageKeep(t, o, p) \/ ConfirmNew(t, o, p)
  BY <1>8 DEF Next, Fatal, EnterMain, LeaveStage, SkipOne, TrimNot, TrimStart, TrimEnd,
         CalibrateEnd, UpdateChecksum, CalibrateAbort, Return, StageRun, ConfirmOld, StageNew
<1> QED
  BY <1>1, <1>2, <1>3, <1>4, <1>6, <1>7, <1>8

LEMMA ModesAlways == Spec => []CalModes
<1>1. Init => CalModes
  BY DEF Init, CalModes
<1> QED
  BY <1>1, ModesKept, InvAlways, PTL DEF Spec

\* A calibration that ends well has made its last cycle.
LEMMA SuccessIsTheEnd ==
  ASSUME Inv, CalModes, Next, pc = "calibrate", pc' # "calibrate",
         entry'[cal.q].cal_failed = 0
  PROVE  \E t \in SUBSET Bit, o \in BOOLEAN : CalibrateEnd(t, o)
<1>1. \/ \E t \in SUBSET Bit, o \in BOOLEAN : CalibrateEnd(t, o)
      \/ \E f \in Fault : CalibrateAbort(f)
  BY DEF Next, Fatal, DryRun, EnterMain, LeaveStage, SkipOne, TrimNot, TrimStart, TrimEnd,
         FuzzOne, CalibrateCycle, UpdateChecksum, StageRun, ConfirmOld, StageKeep, ConfirmNew,
         StageNew
<1>2. ASSUME NEW f \in Fault, CalibrateAbort(f) PROVE FALSE
  <2>1. cal.q \in Slot /\ entry \in [Slot -> Entry] /\ entry[cal.q].cal_failed > 0
    BY DEF Inv, TypeOK, Linked, CalLinked, Locals, CalModes
  <2>2. entry'[cal.q] \in {entry[cal.q], [entry[cal.q] EXCEPT !.cal_failed = CalChances]}
    BY <1>2, <2>1 DEF CalibrateAbort, Return
  <2> QED
    BY <2>1, <2>2, ConstantFacts DEF Entry
<1> QED
  BY <1>1, <1>2

\* The last cycle comes after the switch, unless there is only one.
LEMMA EndIsSwitched ==
  ASSUME 1 < CalCycles, Inv, CalModes,
         NEW t \in SUBSET Bit, NEW o \in BOOLEAN, CalibrateEnd(t, o)
  PROVE  CalMode = 1 - cal.mode /\ cal.stage_cur > 0
<1>1. pc = "calibrate" /\ Last(t, o)
  BY DEF CalibrateEnd
<1>2. /\ cal \in Locals /\ cal.stage_cur \in Nat
      /\ cal.stage_max \in {CalCycles, CalCyclesLong}
      /\ Switching => cal.stage_cur > 0
      /\ CalMode = IF cal.switch_flag /\ ~Switching THEN cal.mode ELSE 1 - cal.mode
  BY <1>1, ModeOfRun DEF Locals
<1>3. /\ Cycled(t, o).stage_cur = cal.stage_cur + 1
      /\ Cycled(t, o).stage_max \in {cal.stage_max, CalCyclesLong}
  BY <1>2 DEF Cycled, Locals
<1>4. CalCycles \in Nat /\ CalCyclesLong \in Nat /\ CalCycles <= CalCyclesLong
  BY HybridAssumption
<1>5. cal.stage_max <= cal.stage_cur + 1
  BY <1>1, <1>2, <1>3, <1>4 DEF Last
<1>6. 2 * cal.stage_cur >= cal.stage_max
  BY <1>2, <1>4, <1>5
<1>7. ~(cal.switch_flag /\ ~Switching)
  BY <1>6 DEF Switching
<1> QED
  BY <1>1, <1>2, <1>7 DEF CalModes

\* The map an entry is scored by comes from an address trace of this calibration, in
\* whichever mode calibrate_case() began: trace_bits_addr is never read unwritten.
THEOREM ScoredByAddresses ==
  ASSUME 1 < CalCycles PROVE Spec => ScoredByAddressMap
<1>1. Inv /\ CalModes /\ [Next]_vars
        => [pc = "calibrate" /\ pc' # "calibrate" /\ entry'[cal.q].cal_failed = 0
              => CalMode = Address \/ cal.trace_bits_addr \in SUBSET AddressBit]_vars
  <2> SUFFICES ASSUME Inv, CalModes, Next, pc = "calibrate", pc' # "calibrate",
                      entry'[cal.q].cal_failed = 0
               PROVE  CalMode = Address \/ cal.trace_bits_addr \in SUBSET AddressBit
    OBVIOUS
  <2>1. CalMode = 1 - cal.mode /\ cal.stage_cur > 0
    BY SuccessIsTheEnd, EndIsSwitched
  <2>2. cal.mode \in Mode
    BY ModeOfRun DEF Locals
  <2> QED
    BY <2>1, <2>2 DEF CalModes, Mode, Atom, Address
<1> QED
  BY <1>1, ModesAlways, InvAlways, PTL DEF Spec, ScoredByAddressMap

\* calibrate_case() gives back the mode it was called in, if it succeeds in the course of
\* fuzzing: one switch in its loop, one at its end.
THEOREM ModeIsRestored ==
  ASSUME 1 < CalCycles PROVE Spec => CalibrationRestoresMode
<1>1. Inv /\ CalModes /\ [Next]_vars
        => [pc = "calibrate" /\ pc' # "calibrate" /\ cal.caller # "dry"
              /\ entry'[cal.q].cal_failed = 0 => bb_mode' = cal.mode]_vars
  <2> SUFFICES ASSUME Inv, CalModes, Next, pc = "calibrate", pc' # "calibrate",
                      cal.caller # "dry", entry'[cal.q].cal_failed = 0
               PROVE  bb_mode' = cal.mode
    OBVIOUS
  <2>1. PICK t \in SUBSET Bit, o \in BOOLEAN : CalibrateEnd(t, o)
    BY SuccessIsTheEnd
  <2>2. CalMode = 1 - cal.mode
    BY <2>1, EndIsSwitched
  <2>3. bb_mode' = 1 - CalMode
    BY <2>1 DEF CalibrateEnd, Return, LeftMode
  <2>4. cal.mode \in Mode
    BY ModeOfRun DEF Locals
  <2> QED
    BY <2>2, <2>3, <2>4 DEF Mode, Atom, Address
<1> QED
  BY <1>1, ModesAlways, InvAlways, PTL DEF Spec, CalibrationRestoresMode
=============================================================================
