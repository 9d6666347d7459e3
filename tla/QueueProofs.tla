----------------------------- MODULE QueueProofs -----------------------------
(***************************************************************************)
(* For every map size, queue and cost, with traces that vary from run to   *)
(* run: the reference counts of top_rated[] are exact at every step of     *)
(* update_bitmap_score(), so that cull_queue() never dereferences a        *)
(* trace_mini that is NULL; culling covers the map; the pending counters   *)
(* are exact.                                                              *)
(***************************************************************************)
EXTENDS Queue, FiniteSetTheorems, TLAPS

Slots(tr, q) == {b \in Byte : tr[b] = q}

\* The part of the state the reference counts live in, and what makes every
\* call of update_bitmap_score() name an existing entry.
RefType ==
  /\ tc_ref \in [Entry -> Nat]
  /\ trace_mini \in [Entry -> SUBSET Byte]
  /\ top_rated \in [Byte -> Entry \union {0}]
  /\ exec_trace \in [Entry -> Trace]
  /\ trace_bits \in SUBSET Byte
  /\ scored \in Entry
  /\ i \in Nat
  /\ queued_paths \in Inputs..MaxEntries
  /\ queue_cur \in 0..(MaxEntries + 1)
  /\ ret \in {"dryrun", "trim", "mutate"}
  /\ IF pc = "dryrun" \/ (pc = "score" /\ ret = "dryrun")
     THEN queue_cur # 0
     ELSE /\ queue_cur <= queued_paths
          /\ pc \notin {"cull", "cullbyte", "pick", "fatal"} => queue_cur # 0

\* A trace is stored exactly while the count is not zero.
MiniInv == \A q \in Entry : trace_mini[q] # NoTrace <=> tc_ref[q] # 0

RefInv == RefType /\ RefsExact /\ MiniInv

LEMMA BytesFinite == IsFiniteSet(Byte)
BY FS_Interval, QueueAssumption DEF Byte

LEMMA SlotsFinite ==
  ASSUME NEW tr, NEW q
  PROVE  IsFiniteSet(Slots(tr, q)) /\ Cardinality(Slots(tr, q)) \in Nat
BY BytesFinite, FS_Subset, FS_CardinalityType DEF Slots

\* Giving slot b to entry s takes one slot from its old winner and gives one
\* to s.
LEMMA SlotMoves ==
  ASSUME NEW tr \in [Byte -> Entry \union {0}], NEW b \in Byte, NEW s \in Entry,
         NEW q \in Entry, tr[b] # s, NEW p, p = tr[b],
         NEW new, \A c \in Byte : new[c] = IF c = b THEN s ELSE tr[c]
  PROVE  /\ q = s => Cardinality(Slots(new, q)) = Cardinality(Slots(tr, q)) + 1
         /\ q = tr[b] => Cardinality(Slots(new, q)) = Cardinality(Slots(tr, q)) - 1
         /\ q # s /\ q # tr[b] => Cardinality(Slots(new, q)) = Cardinality(Slots(tr, q))
<1>0. IsFiniteSet(Slots(tr, q))
  BY SlotsFinite
<1>1. CASE q = s
  <2>1. Slots(new, q) = Slots(tr, q) \union {b} /\ b \notin Slots(tr, q)
    BY <1>1 DEF Slots
  <2>2. Cardinality(Slots(new, q)) = Cardinality(Slots(tr, q)) + 1
    BY <2>1, <1>0, FS_AddElement
  <2> QED
    BY <1>1, <2>2
<1>2. CASE q = tr[b]
  <2>1. Slots(new, q) = Slots(tr, q) \ {b} /\ b \in Slots(tr, q)
    BY <1>2 DEF Slots
  <2>2. Cardinality(Slots(tr, q) \ {b}) = Cardinality(Slots(tr, q)) - 1
    BY <2>1, <1>0, FS_RemoveElement
  <2> QED
    BY <1>2, <2>1, <2>2
<1>3. CASE q # s /\ q # tr[b]
  <2>1. Slots(new, q) = Slots(tr, q)
    BY <1>3 DEF Slots
  <2> QED
    BY <1>3, <2>1
<1> QED
  BY <1>1, <1>2, <1>3

\* An entry that holds a slot has at least that slot counted.
LEMMA WinnerCounted ==
  ASSUME NEW tr \in [Byte -> Entry \union {0}], NEW b \in Byte,
         NEW q \in Entry, tr[b] = q
  PROVE  Cardinality(Slots(tr, q)) \in Nat \ {0}
<1>1. Slots(tr, q) # {}
  BY DEF Slots
<1> QED
  BY <1>1, SlotsFinite, FS_EmptySet

-----------------------------------------------------------------------------
LEMMA InitRefInv == Init => RefInv
<1> SUFFICES ASSUME Init PROVE RefInv
  OBVIOUS
<1>1. RefType
  BY QueueAssumption DEF Init, RefType, Entry, Byte, Trace, NoTrace
<1>2. ASSUME NEW q \in Entry
      PROVE  tc_ref[q] = Cardinality({b \in Byte : top_rated[b] = q})
  <2>1. {b \in Byte : top_rated[b] = q} = {}
    BY DEF Init, Entry
  <2> QED
    BY <2>1, FS_EmptySet DEF Init
<1>3. MiniInv
  BY DEF Init, MiniInv
<1> QED
  BY <1>1, <1>2, <1>3 DEF RefInv, RefsExact

\* Every call of update_bitmap_score() is made for an entry of the queue.
LEMMA RefTypeStep == RefInv /\ [Next]_vars => RefType'
<1> SUFFICES ASSUME RefInv, [Next]_vars PROVE RefType'
  OBVIOUS
<1> USE QueueAssumption DEF RefInv, RefType
<1>1. CASE ScoreByte
  <2> DEFINE p == top_rated[i]
  <2>1. i \in Byte
    BY <1>1 DEF ScoreByte, Byte
  <2>2. CASE ~Wins
    BY <1>1, <2>2 DEF ScoreByte, rating, entry, counters, scoring, Entry
  <2>3. CASE Wins
    <3>1. Dropped(p)[1] \in [Entry -> Nat] /\ Dropped(p)[2] \in [Entry -> SUBSET Byte]
      <4>1. CASE p = 0
        BY <4>1 DEF Dropped
      <4>2. CASE p # 0
        <5>1. p \in Entry
          BY <2>1, <4>2
        <5>2. tc_ref[p] \in Nat \ {0}
          BY <5>1, <2>1, WinnerCounted DEF RefsExact, Slots
        <5> QED
          BY <4>2, <5>1, <5>2 DEF Dropped, NoTrace
      <4> QED
        BY <4>1, <4>2
    <3>2. /\ tc_ref' = [Dropped(p)[1] EXCEPT ![scored] = @ + 1]
          /\ trace_mini' = [Dropped(p)[2] EXCEPT ![scored] =
                              IF @ = NoTrace THEN trace_bits ELSE @]
          /\ top_rated' = [top_rated EXCEPT ![i] = scored]
      BY <1>1, <2>3 DEF ScoreByte
    <3>3. /\ tc_ref' \in [Entry -> Nat]
          /\ trace_mini' \in [Entry -> SUBSET Byte]
          /\ top_rated' \in [Byte -> Entry \union {0}]
      <4>1. tc_ref' \in [Entry -> Nat]
        BY <3>1, <3>2
      <4>2. trace_mini' \in [Entry -> SUBSET Byte]
        BY <3>1, <3>2
      <4>3. top_rated' \in [Byte -> Entry \union {0}]
        BY <2>1, <3>2
      <4> QED
        BY <4>1, <4>2, <4>3
    <3> QED
      BY <1>1, <3>3 DEF ScoreByte, entry, counters, scoring
  <2> QED
    BY <2>2, <2>3
<1>2. CASE ScoreDone
  BY <1>2 DEF ScoreDone, rating, entry, scoring
<1>3. CASE CullStart
  BY <1>3 DEF CullStart, rating, entry, scoring
<1>4. CASE CullByte
  BY <1>4 DEF CullByte, rating, entry, scoring
<1>5. CASE CullDone
  BY <1>5 DEF CullDone, rating, entry, scoring
<1>6. CASE DryRun
  <2>1. queue_cur \in Entry
    BY <1>6 DEF DryRun, Entry
  <2> QED
    BY <1>6, <2>1, SMTT(30) DEF DryRun, Calibrated, StartScore, rating, scoring, Entry, Trace
<1>7. CASE DryRunDone
  BY <1>7 DEF DryRunDone, rating, entry, scoring
<1>8. CASE Pick
  BY <1>8 DEF Pick, rating, entry, scoring, Entry
<1>9. CASE Skip
  BY <1>9 DEF Skip, rating, entry, scoring
<1>10. CASE Recalibrate
  <2>1. queue_cur \in Entry
    BY <1>10 DEF Recalibrate, Entry
  <2> QED
    BY <1>10, <2>1 DEF Recalibrate, Calibrated, Observed, StartScore, rating,
                       scoring, Trace
<1>11. CASE Process
  BY <1>11 DEF Process, rating, entry, scoring
<1>12. CASE Trim
  <2>1. queue_cur \in Entry
    BY <1>12 DEF Trim, Entry
  <2> QED
    BY <1>12, <2>1 DEF Trim, StartScore, rating, scoring, Trace
<1>13. CASE Find
  <2>1. queued_paths + 1 \in Entry
    BY <1>13 DEF Find, Entry
  <2> QED
    BY <1>13, <2>1 DEF Find, Calibrated, StartScore, rating, scoring, Trace
<1>14. CASE Finish
  BY <1>14 DEF Finish, rating, scoring
<1>15. CASE UNCHANGED vars
  BY <1>15 DEF vars, rating, entry, scoring
<1>16. CASE Fatal
  BY <1>16 DEF Fatal, vars, rating, entry, scoring
<1> QED
  BY <1>1, <1>2, <1>3, <1>4, <1>5, <1>6, <1>7, <1>8, <1>9, <1>10, <1>11,
     <1>12, <1>13, <1>14, <1>15, <1>16 DEF Next

\* No other action than ScoreByte touches the references.
LEMMA OthersKeepReferences ==
  [Next]_vars /\ ~ScoreByte => UNCHANGED <<tc_ref, trace_mini, top_rated>>
BY DEF Next, ScoreDone, CullStart, CullByte, CullDone, DryRun, DryRunDone, Fatal,
       Pick, Skip, Recalibrate, Process, Trim, Find, Finish, vars, rating

\* What update_bitmap_score() does to one slot: the old winner's reference goes,
\* its trace with the last one, and the new winner gets both.
LEMMA ScoreByteCounts == RefInv /\ ScoreByte => RefsExact' /\ MiniInv'
<1> SUFFICES ASSUME RefInv, ScoreByte PROVE RefsExact' /\ MiniInv'
  OBVIOUS
<1> DEFINE p == top_rated[i]
<1>1. i \in Byte /\ p \in Entry \union {0} /\ scored \in Entry
  <2>1. i \in Byte
    BY QueueAssumption DEF ScoreByte, Byte, RefInv, RefType
  <2> QED
    BY <2>1 DEF RefInv, RefType
<1>2. CASE ~Wins
  BY <1>2 DEF ScoreByte, rating, RefInv, RefsExact, MiniInv
<1>3. CASE Wins
  <2>1. /\ tc_ref' = [Dropped(p)[1] EXCEPT ![scored] = @ + 1]
        /\ trace_mini' = [Dropped(p)[2] EXCEPT ![scored] =
                            IF @ = NoTrace THEN trace_bits ELSE @]
        /\ top_rated' = [top_rated EXCEPT ![i] = scored]
    BY <1>3 DEF ScoreByte
  <2>2. trace_bits # NoTrace
    BY <1>3 DEF Wins, NoTrace
  <2>3. /\ tc_ref \in [Entry -> Nat] /\ trace_mini \in [Entry -> SUBSET Byte]
        /\ top_rated \in [Byte -> Entry \union {0}]
        /\ top_rated' \in [Byte -> Entry \union {0}]
    BY <1>1, <2>1 DEF RefInv, RefType
  <2>4. \A q \in Entry : /\ tc_ref[q] = Cardinality(Slots(top_rated, q))
                         /\ trace_mini[q] # NoTrace <=> tc_ref[q] # 0
    BY DEF RefInv, RefsExact, MiniInv, Slots
  <2>7. \A c \in Byte : top_rated'[c] = IF c = i THEN scored ELSE top_rated[c]
    BY <2>1, <2>3
  <2>5. p # 0 => tc_ref[p] \in Nat \ {0}
    BY <1>1, <2>3, <2>4, WinnerCounted
  <2>6. ASSUME NEW q \in Entry
        PROVE  /\ tc_ref'[q] = Cardinality(Slots(top_rated', q))
               /\ trace_mini'[q] # NoTrace <=> tc_ref'[q] # 0
    <3>1. CASE p = scored
      <4>1. top_rated' = top_rated
        BY <2>1, <2>3, <3>1, <1>1
      <4>2. tc_ref'[q] = tc_ref[q]
        <5>0. scored # 0
          BY <1>1 DEF Entry
        <5>1. Dropped(p)[1] = [tc_ref EXCEPT ![scored] = @ - 1]
          BY <5>0, <3>1 DEF Dropped
        <5>2. tc_ref[scored] \in Nat
          BY <1>1, <2>3
        <5> QED
          BY <1>1, <2>1, <2>3, <5>1, <5>2
      <4>3. p # 0 /\ tc_ref[scored] # 0
        BY <1>1, <2>5, <3>1 DEF Entry
      <4>4. trace_mini'[q] # NoTrace <=> trace_mini[q] # NoTrace
        BY <1>1, <2>1, <2>2, <2>3, <2>4, <3>1, <4>3 DEF Dropped
      <4> QED
        BY <2>4, <4>1, <4>2, <4>4
    <3>2. CASE p = 0
      <4>1. tc_ref'[q] = tc_ref[q] + IF q = scored THEN 1 ELSE 0
        BY <1>1, <2>1, <2>3, <3>2 DEF Dropped
      <4>2. Cardinality(Slots(top_rated', q)) =
              Cardinality(Slots(top_rated, q)) + IF q = scored THEN 1 ELSE 0
        <5>1. p # scored /\ q # p
          BY <1>1, <3>2 DEF Entry
        <5>2. /\ q = scored => Cardinality(Slots(top_rated', q)) =
                                 Cardinality(Slots(top_rated, q)) + 1
              /\ q # scored => Cardinality(Slots(top_rated', q)) =
                                 Cardinality(Slots(top_rated, q))
          BY <1>1, <2>3, <2>7, <5>1, SlotMoves
        <5> QED
          BY <5>2, SlotsFinite
      <4>3. trace_mini'[q] # NoTrace <=> (trace_mini[q] # NoTrace \/ q = scored)
        BY <1>1, <2>1, <2>2, <2>3, <3>2 DEF Dropped
      <4> QED
        BY <2>3, <2>4, <4>1, <4>2, <4>3
    <3>3. CASE p # 0 /\ p # scored
      <4>1. tc_ref'[q] = IF q = scored THEN tc_ref[q] + 1
                         ELSE IF q = p THEN tc_ref[q] - 1 ELSE tc_ref[q]
        BY <1>1, <2>1, <2>3, <3>3 DEF Dropped
      <4>2. /\ q = scored => Cardinality(Slots(top_rated', q)) =
                               Cardinality(Slots(top_rated, q)) + 1
            /\ q = p => Cardinality(Slots(top_rated', q)) =
                          Cardinality(Slots(top_rated, q)) - 1
            /\ q # scored /\ q # p => Cardinality(Slots(top_rated', q)) =
                                        Cardinality(Slots(top_rated, q))
        BY <1>1, <2>3, <2>7, <3>3, SlotMoves
      <4>3. tc_ref'[q] = Cardinality(Slots(top_rated', q))
        BY <2>4, <3>3, <4>1, <4>2
      <4>4. trace_mini'[q] =
              IF q = scored THEN IF trace_mini[q] = NoTrace THEN trace_bits
                                 ELSE trace_mini[q]
              ELSE IF q = p /\ tc_ref[q] = 1 THEN NoTrace ELSE trace_mini[q]
        BY <1>1, <2>1, <2>3, <3>3 DEF Dropped
      <4>5. trace_mini'[q] # NoTrace <=> tc_ref'[q] # 0
        BY <2>2, <2>3, <2>4, <2>5, <3>3, <4>1, <4>4
      <4> QED
        BY <4>3, <4>5
    <3> QED
      BY <3>1, <3>2, <3>3
  <2> QED
    BY <2>6 DEF RefsExact, MiniInv, Slots
<1> QED
  BY <1>2, <1>3

LEMMA RefInvariant == Spec => []RefInv
<1>1. Init => RefInv
  BY InitRefInv
<1>2. RefInv /\ [Next]_vars => RefInv'
  <2> SUFFICES ASSUME RefInv, [Next]_vars PROVE RefsExact' /\ MiniInv'
    BY RefTypeStep DEF RefInv
  <2>1. CASE ScoreByte
    BY <2>1, ScoreByteCounts
  <2>2. CASE ~ScoreByte
    BY <2>2, OthersKeepReferences DEF RefInv, RefsExact, MiniInv
  <2> QED
    BY <2>1, <2>2
<1> QED
  BY <1>1, <1>2, PTL DEF Spec

-----------------------------------------------------------------------------
\* tc_ref is the number of slots of top_rated[] naming the entry, at every step
\* of update_bitmap_score(), for every map, queue and cost: it never goes below
\* zero and never keeps a trace alive that no slot needs.
THEOREM ReferencesExact == Spec => []RefsExact
BY RefInvariant, PTL DEF RefInv

LEMMA KeptByRefs == RefInv => TraceKept
<1> SUFFICES ASSUME RefInv, NEW q \in Entry
             PROVE  trace_mini[q] # NoTrace <=> \E b \in Byte : top_rated[b] = q
  BY DEF TraceKept
<1>1. tc_ref[q] = Cardinality(Slots(top_rated, q))
      /\ (trace_mini[q] # NoTrace <=> tc_ref[q] # 0)
  BY DEF RefInv, RefsExact, MiniInv, Slots
<1>2. Cardinality(Slots(top_rated, q)) = 0 <=> Slots(top_rated, q) = {}
  BY SlotsFinite, FS_EmptySet
<1>3. Slots(top_rated, q) = {} <=> ~\E b \in Byte : top_rated[b] = q
  BY DEF Slots
<1> QED BY <1>1, <1>2, <1>3

\* An entry a slot names has its trace_mini, so cull_queue() never dereferences
\* NULL; an entry no slot names has none, so nothing leaks.
THEOREM WinnersHaveTraces == Spec => []TraceKept
BY KeptByRefs, RefInvariant, PTL

\* A byte of the map that was hit keeps a winner, and only a run that costs no more
\* takes it over.
THEOREM WinnersAreKept == Spec => WinnersStay
<1>1. RefInv /\ [Next]_vars =>
        [\A b \in Byte : top_rated[b] # 0 =>
           /\ top_rated'[b] # 0
           /\ top_rated'[b] # top_rated[b] =>
                cost[top_rated'[b]] <= cost[top_rated[b]]]_vars
  <2> SUFFICES ASSUME RefInv, [Next]_vars, ~UNCHANGED vars,
                      NEW b \in Byte, top_rated[b] # 0, top_rated'[b] # top_rated[b]
               PROVE  top_rated'[b] # 0 /\ cost[top_rated'[b]] <= cost[top_rated[b]]
    OBVIOUS
  <2>1. ScoreByte
    BY OthersKeepReferences
  <2>2. Wins /\ top_rated' = [top_rated EXCEPT ![i] = scored]
    BY <2>1 DEF ScoreByte, rating
  <2>3. b = i /\ top_rated'[b] = scored
    BY <2>2 DEF RefInv, RefType
  <2>4. cost[scored] <= cost[top_rated[b]]
    BY <2>2, <2>3 DEF Wins
  <2> QED BY <2>3, <2>4 DEF RefInv, RefType, Entry
<1> QED BY <1>1, RefInvariant, PTL DEF Spec, WinnersStay

-----------------------------------------------------------------------------
(* Culling covers the map.                                                  *)

\* Some favorite stands for the byte.
Stands(b) == \E q \in Entry : favored[q] /\ (b \in trace_mini[q] \/ top_rated[b] = q)

\* Since the last culling nothing was rated; during one, the bytes that were passed
\* or covered have their favorites.
CoverInv ==
  /\ favored \in [Entry -> BOOLEAN]
  /\ pc # "cullbyte" /\ ~score_changed => \A b \in Byte : top_rated[b] # 0 => Stands(b)
  /\ pc = "cullbyte" =>
       \A b \in Byte : top_rated[b] # 0 /\ (b < i \/ b \notin temp_v) => Stands(b)

LEMMA CoverStep == ASSUME RefInv, CoverInv, [Next]_vars PROVE CoverInv'
<1>1. CASE ScoreByte
  <2>1. pc = "score" /\ pc' = "score" /\ favored' = favored
    BY <1>1 DEF ScoreByte, culling
  <2>2. \/ UNCHANGED <<trace_mini, top_rated, score_changed>>
        \/ score_changed' = TRUE
    BY <1>1 DEF ScoreByte, rating
  <2>3. CASE UNCHANGED <<trace_mini, top_rated, score_changed>>
    BY <2>1, <2>3 DEF CoverInv, Stands
  <2>4. CASE score_changed'
    BY <2>1, <2>4 DEF CoverInv
  <2> QED BY <2>2, <2>3, <2>4
<1>2. CASE CullStart
  <2>1. pc = "cull" /\ UNCHANGED <<trace_mini, top_rated>>
    BY <1>2 DEF CullStart
  <2>2. CASE score_changed
    <3>1. /\ pc' = "cullbyte" /\ temp_v' = Byte /\ i' = 0
          /\ favored' = [q \in Entry |-> FALSE]
      BY <1>2, <2>2 DEF CullStart
    <3>2. \A b \in Byte : ~(b < 0)
      BY DEF Byte
    <3> QED BY <3>1, <3>2 DEF CoverInv
  <2>3. CASE ~score_changed
    <3>1. pc' = "pick" /\ UNCHANGED <<favored, score_changed>>
      BY <1>2, <2>3 DEF CullStart
    <3> QED BY <2>1, <2>3, <3>1 DEF CoverInv, Stands
  <2> QED BY <2>2, <2>3
<1>3. CASE CullByte
  <2>1. /\ pc = "cullbyte" /\ pc' = "cullbyte" /\ i \in Nat /\ i' = i + 1
        /\ UNCHANGED <<trace_mini, top_rated>>
    BY <1>3 DEF CullByte, rating, RefInv, RefType
  <2>2. CASE top_rated[i] # 0 /\ i \in temp_v
    <3>1. /\ temp_v' = temp_v \ trace_mini[top_rated[i]]
          /\ favored' = [favored EXCEPT ![top_rated[i]] = TRUE]
      BY <1>3, <2>2 DEF CullByte
    <3>2. i \in Byte /\ top_rated[i] \in Entry
      <4>1. i \in Byte
        BY <1>3, <2>1, QueueAssumption DEF CullByte, Byte
      <4> QED BY <2>2, <4>1 DEF RefInv, RefType
    <3>3. favored' \in [Entry -> BOOLEAN] /\ favored'[top_rated[i]]
          /\ \A q \in Entry : favored[q] => favored'[q]
      BY <3>1, <3>2 DEF CoverInv
    <3>4. \A b \in Byte : Stands(b) => Stands(b)'
      BY <2>1, <3>3 DEF Stands
    <3>5. ASSUME NEW b \in Byte, top_rated[b] # 0, b < i + 1 \/ b \notin temp_v'
          PROVE  Stands(b)'
      <4>1. CASE b < i \/ b \notin temp_v
        BY <2>1, <3>4, <3>5, <4>1 DEF CoverInv
      <4>2. CASE b = i
        BY <2>1, <3>2, <3>3, <4>2 DEF Stands
      <4>3. CASE b \in trace_mini[top_rated[i]]
        BY <2>1, <3>2, <3>3, <4>3 DEF Stands
      <4>4. b < i + 1 => b < i \/ b = i
        BY <2>1 DEF Byte
      <4> QED BY <3>1, <3>5, <4>1, <4>2, <4>3, <4>4
    <3> QED BY <2>1, <3>3, <3>5 DEF CoverInv
  <2>3. CASE ~(top_rated[i] # 0 /\ i \in temp_v)
    <3>1. UNCHANGED <<temp_v, favored>>
      BY <1>3, <2>3 DEF CullByte
    <3>2. ASSUME NEW b \in Byte, top_rated[b] # 0, b < i + 1 \/ b \notin temp_v
          PROVE  b < i \/ b \notin temp_v
      BY <2>1, <2>3, <3>2 DEF Byte
    <3> QED BY <2>1, <3>1, <3>2 DEF CoverInv, Stands
  <2> QED BY <2>2, <2>3
<1>4. CASE CullDone
  <2>1. /\ pc = "cullbyte" /\ i = NBytes /\ pc' = "pick"
        /\ UNCHANGED <<favored, trace_mini, top_rated>>
    BY <1>4 DEF CullDone, rating
  <2>2. \A b \in Byte : b < i
    BY <2>1, QueueAssumption DEF Byte
  <2> QED BY <2>1, <2>2 DEF CoverInv, Stands
<1>5. CASE \/ ScoreDone \/ DryRun \/ DryRunDone \/ Fatal \/ Pick \/ Skip \/ Recalibrate
           \/ Process \/ Trim \/ Find \/ Finish \/ UNCHANGED vars
  <2>1. UNCHANGED <<favored, trace_mini, top_rated, score_changed, temp_v>>
    BY <1>5 DEF ScoreDone, DryRun, DryRunDone, Fatal, Pick, Skip, Recalibrate, Process,
                Trim, Find, Finish, vars, rating, culling
  <2>2. UNCHANGED <<pc, i>> \/ (pc # "cullbyte" /\ pc' # "cullbyte")
    BY <1>5 DEF ScoreDone, DryRun, DryRunDone, Fatal, Pick, Skip, Recalibrate, Process,
                Trim, Find, Finish, vars, Calibrated, StartScore, RefInv, RefType
  <2> QED BY <2>1, <2>2 DEF CoverInv, Stands
<1> QED BY <1>1, <1>2, <1>3, <1>4, <1>5 DEF Next

\* After cull_queue() every byte of the map that has a winner is represented by a
\* favorite, however old the traces stored with the entries are.
THEOREM CullingCovers == Spec => []FavoredCover
<1>1. Init => CoverInv
  BY DEF Init, CoverInv
<1>2. RefInv /\ CoverInv /\ [Next]_vars => CoverInv'
  BY CoverStep
<1>3. CoverInv => FavoredCover
  BY DEF CoverInv, FavoredCover, Stands
<1> QED BY <1>1, <1>2, <1>3, RefInvariant, PTL DEF Spec

-----------------------------------------------------------------------------
(* The pending counters.                                                    *)

InDryRun == pc = "dryrun" \/ (pc = "score" /\ ret = "dryrun")
InHand(q) ==
  /\ q = queue_cur
  /\ pc \in {"trim", "mutate"} \/ (pc = "score" /\ ret \in {"trim", "mutate"})
Unscored(q) ==
  q > queued_paths \/ cal_failed[q] > 0 \/ (InDryRun /\ q >= queue_cur)

Waiting == {q \in 1..queued_paths : ~was_fuzzed[q]}
WaitingFavorites == {q \in Entry : favored[q] /\ ~was_fuzzed[q]}

PendingCounted ==
  /\ pending_not_fuzzed = Cardinality(Waiting)
  /\ pending_favored = Cardinality(WaitingFavorites)

\* An entry is scored once before it is fuzzed, so that culling, which leaves out
\* the bytes stored with a favorite, meets it once: only trimming and a second
\* calibration score again, and then the entry is in hand and counts as fuzzed before
\* the next culling.
ScoredOnce ==
  /\ was_fuzzed \in [Entry -> BOOLEAN] /\ cal_failed \in [Entry -> Nat]
  /\ \A q \in Entry : q > queued_paths => ~was_fuzzed[q]
  /\ \A q \in Entry : Unscored(q) => trace_mini[q] = NoTrace
  /\ pc = "score" => ~Unscored(scored)
  /\ pc = "score" /\ ~InHand(scored) => trace_mini[scored] \in {NoTrace, trace_bits}
  /\ \A q \in Entry : InHand(q) => cal_failed[q] = 0
  /\ \A q \in Entry : ~was_fuzzed[q] /\ ~InHand(q) =>
       \A b \in Byte : top_rated[b] = q => b \in trace_mini[q]

\* What a favorite stands for is not left to be covered.
CulledOnce ==
  pc = "cullbyte" => \A q \in Entry : favored[q] => trace_mini[q] \intersect temp_v = {}

\* update_bitmap_score() stores the trace with the entry it scores, and takes the
\* stored ones of others away only with their last slot.
LEMMA ScoreByteOnce ==
  ASSUME RefInv, RefInv', ScoredOnce, ScoreByte PROVE ScoredOnce'
<1>1. /\ pc = "score" /\ pc' = "score"
      /\ UNCHANGED <<queued_paths, queue_cur, cal_failed, was_fuzzed, trace_bits, scored, ret>>
  BY DEF ScoreByte, entry, scoring
<1>2. /\ i \in Byte /\ scored \in Entry /\ trace_mini \in [Entry -> SUBSET Byte]
      /\ top_rated \in [Byte -> Entry \union {0}] /\ tc_ref \in [Entry -> Nat]
  BY QueueAssumption, SMTT(30) DEF ScoreByte, Byte, RefInv, RefType
<1>3. CASE ~Wins
  <2>1. UNCHANGED <<trace_mini, top_rated>>
    BY <1>3 DEF ScoreByte, rating
  <2> QED BY <1>1, <2>1 DEF ScoredOnce, Unscored, InDryRun, InHand
<1>4. CASE Wins
  <2> DEFINE p == top_rated[i]
             minis == Dropped(p)[2]
  <2>1. /\ trace_mini' = [minis EXCEPT ![scored] = IF @ = NoTrace THEN trace_bits ELSE @]
        /\ top_rated' = [top_rated EXCEPT ![i] = scored]
    BY <1>4 DEF ScoreByte
  <2>2. /\ minis \in [Entry -> SUBSET Byte]
        /\ \A q \in Entry : minis[q] \in {NoTrace, trace_mini[q]}
    <3>1. p \in Entry \union {0}
      BY <1>2
    <3> QED BY <1>2, <3>1 DEF Dropped, NoTrace
  <2>3. i \in trace_bits
    BY <1>4 DEF Wins
  <2> HIDE DEF minis, p
  <2>4. \A q \in Entry : q # scored => trace_mini'[q] \in {NoTrace, trace_mini[q]}
    BY <1>2, <2>1, <2>2
  <2>5. ~InHand(scored) => trace_mini'[scored] = trace_bits
    <3>1. trace_mini'[scored] = IF minis[scored] = NoTrace THEN trace_bits ELSE minis[scored]
      BY <1>2, <2>1, <2>2
    <3>2. minis[scored] \in {NoTrace, trace_mini[scored]}
      BY <1>2, <2>2
    <3> QED BY <1>1, <3>1, <3>2 DEF ScoredOnce
  <2>6. \A q : InHand(q)' <=> InHand(q)
    BY <1>1 DEF InHand
  <2>7. \A q : Unscored(q)' <=> Unscored(q)
    BY <1>1 DEF Unscored, InDryRun
  <2>8. ASSUME NEW q \in Entry, Unscored(q) PROVE trace_mini'[q] = NoTrace
    BY <1>1, <2>4, <2>8 DEF ScoredOnce
  <2>9. ASSUME NEW q \in Entry, ~was_fuzzed[q], ~InHand(q), NEW b \in Byte,
               top_rated'[b] = q
        PROVE  b \in trace_mini'[q]
    <3>1. CASE q = scored
      <4>1. trace_mini'[scored] = trace_bits
        BY <2>5, <2>9, <3>1
      <4>2. CASE b = i
        BY <2>3, <3>1, <4>1, <4>2
      <4>3. CASE b # i
        <5>1. top_rated[b] = scored
          BY <1>2, <2>1, <2>9, <3>1, <4>3
        <5>2. b \in trace_mini[scored]
          BY <2>9, <3>1, <5>1 DEF ScoredOnce
        <5>3. trace_mini[scored] \in {NoTrace, trace_bits}
          BY <1>1, <2>9, <3>1 DEF ScoredOnce
        <5> QED BY <3>1, <4>1, <5>2, <5>3 DEF NoTrace
      <4> QED BY <4>2, <4>3
    <3>2. CASE q # scored
      <4>1. top_rated[b] = q
        BY <1>2, <2>1, <2>9, <3>2
      <4>2. b \in trace_mini[q]
        BY <2>9, <4>1 DEF ScoredOnce
      <4>3. trace_mini'[q] # NoTrace
        <5>1. TraceKept'
          BY KeptByRefs, PTL
        <5> QED BY <2>9, <5>1 DEF TraceKept
      <4> QED BY <2>4, <3>2, <4>2, <4>3
    <3> QED BY <3>1, <3>2
  <2> QED BY <1>1, <2>5, <2>6, <2>7, <2>8, <2>9 DEF ScoredOnce
<1> QED BY <1>3, <1>4

\* A call of update_bitmap_score() is for an entry with no trace yet, or for the one
\* in hand.
LEMMA CallOnce ==
  ASSUME RefInv, ScoredOnce, DryRun \/ Recalibrate \/ Trim \/ Find PROVE ScoredOnce'
<1> USE QueueAssumption
<1>0. /\ queued_paths \in Inputs..MaxEntries /\ queue_cur \in 0..(MaxEntries + 1)
      /\ UNCHANGED <<trace_mini, top_rated, was_fuzzed>>
  BY DEF RefInv, RefType, DryRun, Recalibrate, Trim, Find, entry, rating
<1>1. CASE DryRun
  <2>1. /\ pc = "dryrun" /\ queue_cur \in 1..Inputs /\ queue_cur' = queue_cur + 1
        /\ UNCHANGED queued_paths
    BY <1>1 DEF DryRun, RefInv, RefType
  <2>2. /\ trace_mini[queue_cur] = NoTrace /\ queue_cur \in Entry
        /\ ~(queue_cur > queued_paths)
    BY <1>0, <2>1 DEF ScoredOnce, Unscored, InDryRun, Entry
  <2>3. \/ /\ cal_failed' = [cal_failed EXCEPT ![queue_cur] = 0]
           /\ pc' = "score" /\ scored' = queue_cur /\ ret' = "dryrun"
        \/ /\ cal_failed' = [cal_failed EXCEPT ![queue_cur] = CalChances]
           /\ pc' = "dryrun"
    BY <1>1, <2>1 DEF DryRun, Calibrated, StartScore
  <2>4. InDryRun' /\ \A q : ~InHand(q) /\ ~InHand(q)'
    BY <2>1, <2>3 DEF InDryRun, InHand
  <2>5. cal_failed' \in [Entry -> Nat]
    BY <2>2, <2>3 DEF ScoredOnce
  <2>6. ASSUME NEW q \in Entry, Unscored(q)' PROVE trace_mini[q] = NoTrace
    <3>1. CASE q = queue_cur
      BY <2>2, <3>1
    <3>2. CASE q # queue_cur
      <4>1. cal_failed'[q] = cal_failed[q]
        BY <2>3, <3>2 DEF ScoredOnce
      <4>2. q >= queue_cur + 1 => q >= queue_cur
        BY <2>1 DEF Entry
      <4>3. Unscored(q)
        BY <2>1, <2>4, <2>6, <4>1, <4>2 DEF Unscored, InDryRun
      <4> QED BY <4>3 DEF ScoredOnce
    <3> QED BY <3>1, <3>2
  <2>7. pc' = "score" => ~Unscored(scored)'
    <3>1. ~(queue_cur >= queue_cur + 1)
      BY <2>1
    <3>2. pc' = "score" => cal_failed'[queue_cur] = 0
      BY <2>2, <2>3 DEF ScoredOnce
    <3> QED BY <2>1, <2>2, <2>3, <3>1, <3>2 DEF Unscored
  <2> QED BY <1>0, <2>1, <2>2, <2>3, <2>4, <2>5, <2>6, <2>7 DEF ScoredOnce
<1>2. CASE Recalibrate
  <2>1. /\ pc = "fuzz" /\ cal_failed[queue_cur] > 0 /\ UNCHANGED <<queue_cur, queued_paths>>
    BY <1>2 DEF Recalibrate
  <2>2. queue_cur \in Entry /\ queue_cur <= queued_paths
    BY <1>0, <2>1 DEF RefInv, RefType, Entry
  <2>3. \/ /\ cal_failed' = [cal_failed EXCEPT ![queue_cur] = 0]
           /\ pc' = "score" /\ scored' = queue_cur /\ ret' = "trim"
        \/ /\ cal_failed' = [cal_failed EXCEPT ![queue_cur] =
                                IF @ < CalChances THEN @ + 1 ELSE @]
           /\ pc' = "cull"
    BY <1>2 DEF Recalibrate, Calibrated, StartScore
  <2>4. ~InDryRun' /\ \A q : InHand(q)' <=> (q = queue_cur /\ pc' = "score")
    BY <2>1, <2>3 DEF InDryRun, InHand
  <2>5. cal_failed' \in [Entry -> Nat] /\ \A q \in Entry : cal_failed'[q] > 0 => cal_failed[q] > 0
    BY <2>1, <2>2, <2>3 DEF ScoredOnce
  <2>6. pc' = "score" => cal_failed'[queue_cur] = 0
    BY <2>2, <2>3 DEF ScoredOnce
  <2>7. \A q \in Entry : Unscored(q)' => Unscored(q)
    BY <2>1, <2>4, <2>5 DEF Unscored
  <2>8. pc' = "score" => ~Unscored(scored)'
    BY <1>0, <2>1, <2>2, <2>3, <2>4, <2>6 DEF Unscored, InDryRun
  <2>9. \A q \in Entry : ~InHand(q)
    BY <2>1 DEF InHand
  <2> QED BY <1>0, <2>1, <2>3, <2>4, <2>5, <2>6, <2>7, <2>8, <2>9 DEF ScoredOnce
<1>3. CASE Trim
  <2>1. /\ pc = "trim" /\ UNCHANGED <<queue_cur, queued_paths, cal_failed>>
    BY <1>3 DEF Trim
  <2>2. queue_cur \in Entry /\ queue_cur <= queued_paths
    BY <1>0, <2>1 DEF RefInv, RefType, Entry
  <2>3. \/ pc' = "score" /\ scored' = queue_cur /\ ret' = "mutate"
        \/ pc' = "mutate"
    BY <1>3 DEF Trim, StartScore
  <2>4. ~InDryRun' /\ \A q : (InHand(q)' <=> q = queue_cur) /\ (InHand(q) <=> q = queue_cur)
    BY <2>1, <2>3 DEF InDryRun, InHand
  <2>5. cal_failed[queue_cur] = 0
    BY <2>2, <2>4 DEF ScoredOnce
  <2>6. \A q \in Entry : Unscored(q)' => Unscored(q)
    BY <2>1, <2>4 DEF Unscored
  <2>7. pc' = "score" => ~Unscored(scored)'
    BY <1>0, <2>1, <2>2, <2>3, <2>4, <2>5 DEF Unscored, InDryRun
  <2> QED BY <1>0, <2>1, <2>3, <2>4, <2>5, <2>6, <2>7 DEF ScoredOnce
<1>4. CASE Find
  <2> DEFINE new == queued_paths + 1
  <2>1. /\ pc = "mutate" /\ queued_paths < MaxEntries /\ queued_paths' = new
        /\ UNCHANGED queue_cur
    BY <1>4 DEF Find
  <2>2. new \in Entry /\ new > queued_paths /\ queue_cur # new
        /\ queue_cur <= queued_paths
    BY <1>0, <2>1 DEF RefInv, RefType, Entry
  <2>3. \/ /\ cal_failed' = [cal_failed EXCEPT ![new] = 0]
           /\ pc' = "score" /\ scored' = new /\ ret' = "mutate"
        \/ /\ cal_failed' = [cal_failed EXCEPT ![new] = 1]
           /\ pc' = "mutate"
    BY <1>4, <2>1 DEF Find, Calibrated, StartScore
  <2>4. trace_mini[new] = NoTrace
    BY <2>2 DEF ScoredOnce, Unscored
  <2> HIDE DEF new
  <2>5. ~InDryRun' /\ \A q : (InHand(q)' <=> q = queue_cur) /\ (InHand(q) <=> q = queue_cur)
    BY <2>1, <2>3 DEF InDryRun, InHand
  <2>6. cal_failed' \in [Entry -> Nat] /\ \A q \in Entry : q # new => cal_failed'[q] = cal_failed[q]
    BY <2>2, <2>3 DEF ScoredOnce
  <2>7. ASSUME NEW q \in Entry, Unscored(q)' PROVE trace_mini[q] = NoTrace
    <3>1. CASE q = new
      BY <2>4, <3>1
    <3>2. CASE q # new
      <4>1. q > new => q > queued_paths
        BY <1>0 DEF Entry, new
      <4>2. Unscored(q)
        BY <2>1, <2>5, <2>6, <2>7, <3>2, <4>1 DEF Unscored
      <4> QED BY <4>2 DEF ScoredOnce
    <3> QED BY <3>1, <3>2
  <2>8. pc' = "score" => ~Unscored(scored)'
    <3>1. ~(new > new)
      BY <2>2 DEF Entry
    <3>2. pc' = "score" => cal_failed'[new] = 0
      BY <2>2, <2>3 DEF ScoredOnce
    <3> QED BY <2>1, <2>3, <2>5, <3>1, <3>2 DEF Unscored
  <2>9. \A q \in Entry : q > new => ~was_fuzzed[q]
    BY <1>0 DEF ScoredOnce, Entry, new
  <2>10. \A q \in Entry : InHand(q)' => cal_failed'[q] = 0
    BY <2>2, <2>5, <2>6 DEF ScoredOnce
  <2> QED BY <1>0, <2>1, <2>3, <2>4, <2>5, <2>6, <2>7, <2>8, <2>9, <2>10 DEF ScoredOnce
<1> QED BY <1>1, <1>2, <1>3, <1>4

LEMMA OtherOnce ==
  ASSUME RefInv, ScoredOnce,
         \/ ScoreDone \/ CullStart \/ CullByte \/ CullDone \/ DryRunDone \/ Fatal \/ Pick
         \/ Skip \/ Process \/ Finish \/ UNCHANGED vars
  PROVE  ScoredOnce'
<1>1. UNCHANGED <<queued_paths, cal_failed, trace_mini, top_rated>>
  BY DEF ScoreDone, CullStart, CullByte, CullDone, DryRunDone, Fatal, Pick, Skip, Process,
         Finish, vars, entry, rating
<1>2. CASE UNCHANGED <<pc, queue_cur, ret, scored, trace_bits, was_fuzzed>>
  BY <1>1, <1>2 DEF ScoredOnce, Unscored, InDryRun, InHand
<1>3. CASE ScoreDone
  <2>1. pc = "score" /\ pc' = ret /\ UNCHANGED <<queue_cur, was_fuzzed>>
        /\ ret \in {"dryrun", "trim", "mutate"}
    BY <1>3 DEF ScoreDone, entry, RefInv, RefType
  <2>2. \A q : (InHand(q)' <=> InHand(q)) /\ (Unscored(q)' => Unscored(q))
    BY <1>1, <2>1 DEF InHand, Unscored, InDryRun
  <2> QED BY <1>1, <2>1, <2>2 DEF ScoredOnce
<1>4. CASE CullStart \/ CullByte \/ CullDone \/ DryRunDone \/ Pick \/ Skip
  <2>1. /\ \A q : ~InHand(q) /\ ~InHand(q)'
        /\ ~InDryRun' /\ pc' # "score" /\ was_fuzzed' = was_fuzzed
    BY <1>4 DEF CullStart, CullByte, CullDone, DryRunDone, Pick, Skip, InHand, InDryRun,
                entry
  <2>2. \A q : Unscored(q)' => Unscored(q)
    BY <1>1, <2>1 DEF Unscored
  <2> QED BY <1>1, <2>1, <2>2 DEF ScoredOnce
<1>5. CASE Process
  <2>1. /\ pc = "fuzz" /\ pc' = "trim" /\ cal_failed[queue_cur] = 0
        /\ UNCHANGED <<queue_cur, was_fuzzed>>
    BY <1>5 DEF Process, entry
  <2>2. \A q : ~InHand(q) /\ (InHand(q)' <=> q = queue_cur)
    BY <2>1 DEF InHand
  <2>3. \A q : Unscored(q)' => Unscored(q)
    BY <1>1, <2>1 DEF Unscored, InDryRun
  <2> QED BY <1>1, <2>1, <2>2, <2>3 DEF ScoredOnce
<1>6. CASE Finish
  <2>1. pc = "mutate" /\ pc' = "cull" /\ UNCHANGED queue_cur
    BY <1>6 DEF Finish
  <2>2. queue_cur \in Entry /\ queue_cur <= queued_paths
    BY <2>1, QueueAssumption DEF RefInv, RefType, Entry
  <2>3. was_fuzzed' = [was_fuzzed EXCEPT ![queue_cur] = TRUE]
    <3>1. was_fuzzed[queue_cur] => was_fuzzed = [was_fuzzed EXCEPT ![queue_cur] = TRUE]
      BY <2>2 DEF ScoredOnce
    <3> QED BY <1>6, <3>1 DEF Finish
  <2>4. /\ was_fuzzed' \in [Entry -> BOOLEAN]
        /\ \A q \in Entry : was_fuzzed'[q] <=> (was_fuzzed[q] \/ q = queue_cur)
    BY <2>2, <2>3 DEF ScoredOnce
  <2>5. \A q : ~InHand(q)' /\ (InHand(q) <=> q = queue_cur)
    BY <2>1 DEF InHand
  <2>6. \A q : Unscored(q)' => Unscored(q)
    BY <1>1, <2>1 DEF Unscored, InDryRun
  <2>7. \A q \in Entry : q > queued_paths => q # queue_cur
    BY <2>2, QueueAssumption DEF RefInv, RefType, Entry
  <2> QED BY <1>1, <2>1, <2>4, <2>5, <2>6, <2>7 DEF ScoredOnce
<1> QED BY <1>2, <1>3, <1>4, <1>5, <1>6 DEF Fatal, vars, entry, scoring

PendingInv == RefInv /\ CoverInv /\ ScoredOnce /\ CulledOnce /\ PendingCounted

LEMMA WaitingFinite ==
  ASSUME RefInv PROVE IsFiniteSet(Waiting) /\ IsFiniteSet(WaitingFavorites)
<1>1. queued_paths \in Int /\ MaxEntries \in Int
  BY QueueAssumption DEF RefInv, RefType
<1>2. IsFiniteSet(1..queued_paths) /\ IsFiniteSet(Entry)
  BY <1>1, FS_Interval DEF Entry
<1> QED BY <1>2, FS_Subset DEF Waiting, WaitingFavorites

\* Culling counts each favorite that waits once.
LEMMA CullCounts ==
  ASSUME PendingInv, CullStart \/ CullByte \/ CullDone
  PROVE  CulledOnce' /\ PendingCounted'
<1> USE DEF PendingInv
<1>1. UNCHANGED <<queued_paths, was_fuzzed, trace_mini, top_rated, pending_not_fuzzed>>
  BY DEF CullStart, CullByte, CullDone, entry, rating, counters
<1>2. pending_not_fuzzed' = Cardinality(Waiting')
  BY <1>1 DEF PendingCounted, Waiting
<1>3. CASE CullStart
  <2>1. CASE score_changed
    <3>1. favored' = [q \in Entry |-> FALSE] /\ pending_favored' = 0
      BY <1>3, <2>1 DEF CullStart
    <3>2. WaitingFavorites' = {}
      BY <3>1 DEF WaitingFavorites
    <3>3. Cardinality({}) = 0
      BY FS_EmptySet
    <3> QED BY <1>2, <3>1, <3>2, <3>3 DEF CulledOnce, PendingCounted
  <2>2. CASE ~score_changed
    <3>1. pc' = "pick" /\ UNCHANGED <<favored, pending_favored>>
      BY <1>3, <2>2 DEF CullStart
    <3> QED BY <1>1, <1>2, <3>1 DEF CulledOnce, PendingCounted, WaitingFavorites
  <2> QED BY <2>1, <2>2
<1>4. CASE CullDone
  <2>1. pc' = "pick" /\ UNCHANGED <<favored, pending_favored>>
    BY <1>4 DEF CullDone, counters
  <2> QED BY <1>1, <1>2, <2>1 DEF CulledOnce, PendingCounted, WaitingFavorites
<1>5. CASE CullByte
  <2> DEFINE p == top_rated[i]
  <2>1. pc = "cullbyte" /\ pc' = "cullbyte"
    BY <1>5 DEF CullByte
  <2>2. CASE p # 0 /\ i \in temp_v
    <3>1. /\ temp_v' = temp_v \ trace_mini[p]
          /\ favored' = [favored EXCEPT ![p] = TRUE]
          /\ pending_favored' = pending_favored + IF was_fuzzed[p] THEN 0 ELSE 1
      BY <1>5, <2>2 DEF CullByte
    <3>2. i \in Byte /\ p \in Entry
      <4>1. i \in Byte
        BY <1>5, QueueAssumption DEF CullByte, Byte, RefInv, RefType
      <4> QED BY <2>2, <4>1 DEF RefInv, RefType
    <3>3. /\ favored' \in [Entry -> BOOLEAN] /\ was_fuzzed \in [Entry -> BOOLEAN]
          /\ \A q \in Entry : favored'[q] <=> (favored[q] \/ q = p)
      BY <3>1, <3>2 DEF CoverInv, ScoredOnce
    <3>4. ASSUME ~was_fuzzed[p] PROVE ~favored[p]
      <4>1. i \in trace_mini[p]
        BY <2>1, <3>2, <3>4 DEF ScoredOnce, InHand
      <4> QED BY <2>1, <2>2, <3>2, <4>1 DEF CulledOnce
    <3> HIDE DEF p
    <3>5. CulledOnce'
      BY <1>1, <2>1, <3>1, <3>2, <3>3 DEF CulledOnce
    <3>6. CASE was_fuzzed[p]
      <4>1. WaitingFavorites' = WaitingFavorites
        BY <1>1, <3>3, <3>6 DEF WaitingFavorites
      <4>2. Cardinality(WaitingFavorites) \in Nat
        BY WaitingFinite, FS_CardinalityType
      <4> QED BY <1>2, <3>1, <3>5, <3>6, <4>1, <4>2 DEF PendingCounted
    <3>7. CASE ~was_fuzzed[p]
      <4>1. WaitingFavorites' = WaitingFavorites \union {p} /\ p \notin WaitingFavorites
        BY <1>1, <3>2, <3>3, <3>4, <3>7 DEF WaitingFavorites
      <4>2. Cardinality(WaitingFavorites \union {p}) = Cardinality(WaitingFavorites) + 1
        BY <4>1, WaitingFinite, FS_AddElement
      <4> QED BY <1>2, <3>1, <3>5, <3>7, <4>1, <4>2 DEF PendingCounted
    <3> QED BY <3>6, <3>7
  <2>3. CASE ~(p # 0 /\ i \in temp_v)
    <3>1. UNCHANGED <<temp_v, favored, pending_favored>>
      BY <1>5, <2>3 DEF CullByte
    <3> QED BY <1>1, <1>2, <2>1, <3>1 DEF CulledOnce, PendingCounted, WaitingFavorites
  <2> QED BY <2>2, <2>3
<1> QED BY <1>3, <1>4, <1>5

\* A find waits; nobody counts it as a favorite yet.
LEMMA FindCounts == ASSUME PendingInv, Find PROVE CulledOnce' /\ PendingCounted'
<1> USE DEF PendingInv
<1> DEFINE new == queued_paths + 1
<1>1. /\ queued_paths' = new /\ pending_not_fuzzed' = pending_not_fuzzed + 1
      /\ UNCHANGED <<was_fuzzed, favored, pending_favored>> /\ pc' \in {"score", "mutate"}
      /\ queued_paths < MaxEntries /\ queued_paths \in Nat
  BY QueueAssumption DEF Find, Calibrated, StartScore, culling, RefInv, RefType
<1>2. new \in Entry /\ new > queued_paths
  BY <1>1, QueueAssumption DEF Entry
<1>3. ~was_fuzzed[new]
  BY <1>2 DEF ScoredOnce
<1>4. Waiting' = Waiting \union {new} /\ new \notin Waiting
  BY <1>1, <1>2, <1>3 DEF Waiting
<1> HIDE DEF new
<1>5. Cardinality(Waiting \union {new}) = Cardinality(Waiting) + 1
  BY <1>4, WaitingFinite, FS_AddElement
<1>6. WaitingFavorites' = WaitingFavorites
  BY <1>1 DEF WaitingFavorites
<1> QED BY <1>1, <1>4, <1>5, <1>6 DEF CulledOnce, PendingCounted

LEMMA FinishCounts == ASSUME PendingInv, Finish PROVE CulledOnce' /\ PendingCounted'
<1> USE DEF PendingInv
<1>1. pc = "mutate" /\ pc' = "cull" /\ UNCHANGED <<queued_paths, queue_cur, favored>>
  BY DEF Finish, culling
<1>2. queue_cur \in Entry /\ queue_cur \in 1..queued_paths
  BY <1>1, QueueAssumption DEF RefInv, RefType, Entry
<1>3. CASE was_fuzzed[queue_cur]
  <2>1. UNCHANGED <<was_fuzzed, pending_favored, pending_not_fuzzed>>
    BY <1>3 DEF Finish, counters
  <2> QED BY <1>1, <2>1 DEF CulledOnce, PendingCounted, Waiting, WaitingFavorites
<1>4. CASE ~was_fuzzed[queue_cur]
  <2>1. /\ was_fuzzed' = [was_fuzzed EXCEPT ![queue_cur] = TRUE]
        /\ pending_not_fuzzed' = pending_not_fuzzed - 1
        /\ pending_favored' = pending_favored - IF favored[queue_cur] THEN 1 ELSE 0
    BY <1>4 DEF Finish
  <2>2. /\ was_fuzzed \in [Entry -> BOOLEAN] /\ favored \in [Entry -> BOOLEAN]
        /\ \A q \in Entry : was_fuzzed'[q] <=> (was_fuzzed[q] \/ q = queue_cur)
    BY <1>2, <2>1 DEF ScoredOnce, CoverInv
  <2>3. Waiting' = Waiting \ {queue_cur} /\ queue_cur \in Waiting
    <3>1. 1..queued_paths \subseteq Entry
      BY QueueAssumption DEF RefInv, RefType, Entry
    <3> QED BY <1>1, <1>2, <1>4, <2>2, <3>1 DEF Waiting
  <2>4. WaitingFavorites' = WaitingFavorites \ {queue_cur}
        /\ (queue_cur \in WaitingFavorites <=> favored[queue_cur])
    BY <1>1, <1>2, <1>4, <2>2 DEF WaitingFavorites
  <2>5. Cardinality(Waiting \ {queue_cur}) = Cardinality(Waiting) - 1
    BY <2>3, WaitingFinite, FS_RemoveElement
  <2>6. Cardinality(WaitingFavorites \ {queue_cur})
          = Cardinality(WaitingFavorites) - IF favored[queue_cur] THEN 1 ELSE 0
    <3>1. Cardinality(WaitingFavorites) \in Nat
      BY WaitingFinite, FS_CardinalityType
    <3>2. CASE favored[queue_cur]
      BY <2>4, <3>2, WaitingFinite, FS_RemoveElement
    <3>3. CASE ~favored[queue_cur]
      <4>1. WaitingFavorites \ {queue_cur} = WaitingFavorites
        BY <2>4, <3>3
      <4> QED BY <3>1, <3>3, <4>1
    <3> QED BY <3>2, <3>3
  <2> QED BY <1>1, <2>1, <2>3, <2>4, <2>5, <2>6 DEF CulledOnce, PendingCounted
<1> QED BY <1>3, <1>4

LEMMA OthersCount ==
  ASSUME PendingInv,
         \/ ScoreByte \/ ScoreDone \/ DryRun \/ DryRunDone \/ Fatal \/ Pick \/ Skip
         \/ Recalibrate \/ Process \/ Trim \/ UNCHANGED vars
  PROVE  CulledOnce' /\ PendingCounted'
<1>1. UNCHANGED <<queued_paths, was_fuzzed, favored, temp_v, pending_favored,
                  pending_not_fuzzed>>
  BY DEF ScoreByte, ScoreDone, DryRun, DryRunDone, Fatal, Pick, Skip, Recalibrate,
         Process, Trim, vars, entry, culling, counters
<1>2. pc' # "cullbyte" \/ UNCHANGED <<pc, trace_mini>>
  BY DEF ScoreByte, ScoreDone, DryRun, DryRunDone, Fatal, Pick, Skip, Recalibrate,
         Process, Trim, vars, Calibrated, StartScore, rating, PendingInv, RefInv, RefType
<1> QED BY <1>1, <1>2 DEF PendingInv, CulledOnce, PendingCounted, Waiting,
                          WaitingFavorites

LEMMA InitPending == ASSUME Init PROVE ScoredOnce /\ CulledOnce /\ PendingCounted
<1> USE DEF Init
<1>1. ScoredOnce
  BY QueueAssumption DEF ScoredOnce, Unscored, InDryRun, InHand, Entry, Byte
<1>2. Waiting = 1..Inputs
  BY QueueAssumption DEF Waiting, Entry
<1>3. Cardinality(1..Inputs) = Inputs
  BY FS_Interval, QueueAssumption
<1>4. WaitingFavorites = {}
  BY DEF WaitingFavorites
<1>5. Cardinality({}) = 0
  BY FS_EmptySet
<1> QED BY <1>1, <1>2, <1>3, <1>4, <1>5 DEF CulledOnce, PendingCounted

\* The unsigned counters of entries and favorites that wait are exact, for every map,
\* queue and cost, with traces that vary: culling counts no favorite twice and the end of
\* fuzz_one() takes none away that was not counted, so neither wraps.
THEOREM PendingIsExact == Spec => []PendingExact
<1>1. Init => RefInv /\ CoverInv /\ ScoredOnce /\ CulledOnce /\ PendingCounted
  BY InitRefInv, InitPending DEF Init, CoverInv
<1>2. RefInv /\ RefInv' /\ CoverInv /\ ScoredOnce /\ CulledOnce /\ PendingCounted
        /\ [Next]_vars => CoverInv' /\ ScoredOnce' /\ CulledOnce' /\ PendingCounted'
  <2> SUFFICES ASSUME RefInv, RefInv', PendingInv, [Next]_vars
               PROVE  CoverInv' /\ ScoredOnce' /\ CulledOnce' /\ PendingCounted'
    BY DEF PendingInv
  <2>1. CoverInv'
    BY CoverStep DEF PendingInv
  <2>2. ScoredOnce'
    BY ScoreByteOnce, CallOnce, OtherOnce DEF PendingInv, Next
  <2>3. CulledOnce' /\ PendingCounted'
    BY CullCounts, FindCounts, FinishCounts, OthersCount DEF Next
  <2> QED BY <2>1, <2>2, <2>3
<1>3. PendingCounted => PendingExact
  BY DEF PendingCounted, PendingExact, Waiting, WaitingFavorites
<1> QED BY <1>1, <1>2, <1>3, RefInvariant, PTL DEF Spec
=============================================================================
