-------------------------- MODULE MinimizerProofs --------------------------
(***************************************************************************)
(* Proofs about Minimizer, for every target, case and size of the blocks:  *)
(* what is kept behaves as the original, and nothing in a finished result  *)
(* can be left out.  The second rests on what a pass that deletes nothing  *)
(* has tried, the blocks it skipped included.                              *)
(***************************************************************************)
EXTENDS Minimizer, TLAPS, FiniteSetTheorems, SequenceTheorems

Byte == 0..255
Original == Outcome(start.target, start.data)

\* What the dry run has noted about the original.
Learnt ==
  /\ crash_mode = (Original.exit = "crash")
  /\ (Original.exit # "crash" \/ start.exact_mode) => orig_cksum = Original.cksum

\* What is reached behaves as the original, and only that is ever written.
BehaviourInv ==
  /\ pc = "dry" => in_data = start.data
  /\ in_data = start.data \/ Same(in_data)
  /\ pc \notin {"dry", "fatal", "aborted"} => Same(in_data) /\ Learnt
  /\ \A case \in out_file : Same(case) \/ case = start.data

\* No byte before pos can be left out.
TriedBefore(n) == \A p \in 0..n - 1 : ~Same(Without(p, 1))

\* A pass that has changed nothing so far has tried every byte it has passed.
PassInv ==
  /\ in_data \in Seq(Byte) /\ Len(in_data) \in 0..TMIN_MAX_FILE
  /\ late \in BOOLEAN /\ changed_any \in BOOLEAN /\ prev_del \in BOOLEAN
  /\ pc = "delete" => /\ pos \in Nat /\ block \in Nat \ {0}
                      /\ pos = 0 => prev_del
  /\ ~late =>
       /\ pc = "delete" /\ block = 1 /\ ~changed_any => TriedBefore(pos)
       /\ pc \in {"alphabet", "chars"} /\ ~changed_any => TriedBefore(Len(in_data))
       /\ pc \in {"write", "done"} => TriedBefore(Len(in_data))

-----------------------------------------------------------------------------
(* The sizes of blocks.                                                     *)

\* A set of numbers has a least one: the sets of its numbers up to each of them are
\* finite, so that one of them has none below.
LEMMA LeastExists ==
  ASSUME NEW S \in SUBSET Nat, S # {} PROVE Min(S) \in S
<1> DEFINE Upto(k) == S \intersect (0..k)
           T == {Upto(k) : k \in S}
<1>1. T \subseteq FiniteSubsetsOf(Nat)
  <2>1. ASSUME NEW k \in S PROVE Upto(k) \in SUBSET Nat /\ IsFiniteSet(Upto(k))
    <3>1. IsFiniteSet(0..k)
      BY FS_Interval
    <3>2. Upto(k) \subseteq 0..k
      OBVIOUS
    <3> QED BY <3>1, <3>2, FS_Subset
  <2> QED BY <2>1 DEF FiniteSubsetsOf
<1>2. T # {}
  OBVIOUS
<1>3. PICK X \in T : \A Y \in T : ~ (<<Y, X>> \in StrictSubsetOrdering(Nat))
  BY <1>1, <1>2, FS_StrictSubsetOrderingWellFounded, WFMin, Zenon
<1>4. PICK k \in S : X = Upto(k)
  OBVIOUS
<1>5. ASSUME NEW y \in S PROVE k <= y
  <2> SUFFICES ASSUME y < k PROVE FALSE
    OBVIOUS
  <2>1. Upto(y) \subseteq Upto(k) /\ k \in Upto(k) /\ k \notin Upto(y)
    OBVIOUS
  <2>2. Upto(y) \in T
    OBVIOUS
  <2>3. <<Upto(y), X>> \in StrictSubsetOrdering(Nat)
    BY <1>4, <2>1 DEF StrictSubsetOrdering
  <2> QED BY <1>3, <2>2, <2>3
<1> QED BY <1>5, Zenon DEF Min

\* The first size of the blocks of a pass.
LEMMA FirstBlock ==
  ASSUME NEW n \in 0..TMIN_MAX_FILE
  PROVE next_p2(n \div TRIM_START_STEPS) \in Nat \ {0}
<1> DEFINE val == n \div TRIM_START_STEPS
           Powers == {p \in {2^k : k \in 0..LenBits} : p >= val}
<1>1. val \in Nat /\ val <= n
  BY ConstantsAssumption
<1>2. Powers \subseteq Nat \ {0}
  BY ConstantsAssumption
<1>3. 2^LenBits \in Powers
  <2>1. 2^LenBits \in {2^k : k \in 0..LenBits}
    <3>1. LenBits \in 0..LenBits
      BY ConstantsAssumption
    <3> QED BY <3>1, Zenon
  <2>2. 2^LenBits \in Nat
    <3>1. LenBits \in 0..LenBits
      BY ConstantsAssumption
    <3> QED BY <3>1, ConstantsAssumption
  <2>3. 2^LenBits >= val
    BY <1>1, <2>2, ConstantsAssumption
  <2> QED BY <2>1, <2>3
<1> HIDE DEF val
<1>4. Min(Powers) \in Powers
  BY <1>2, <1>3, LeastExists
<1> QED BY <1>2, <1>4 DEF next_p2, val

-----------------------------------------------------------------------------
(* What is kept.                                                            *)

\* The verdict of run_target() is the comparison with the original.
LEMMA KeepIsSame ==
  ASSUME Learnt, NEW case PROVE Keep(case) <=> Same(case)
BY DEF Learnt, Original, Keep, Same, Run

\* A case that is kept behaves as the original; one that is not does not, unless the
\* alarm came late.
LEMMA JudgedIsSame ==
  ASSUME Learnt, late \in BOOLEAN, NEW case, NEW keep \in BOOLEAN, Judged(case, keep)
  PROVE  /\ keep => Same(case)
         /\ ~late' => ~late
         /\ ~keep /\ ~late' => ~Same(case)
         /\ late' \in BOOLEAN
<1>1. Keep(case) <=> Same(case)
  BY KeepIsSame
<1>2. CASE keep = Keep(case) /\ UNCHANGED late
  BY <1>1, <1>2
<1>3. CASE keep = FALSE /\ late' = (late \/ Keep(case))
  <2>1. late' <=> late \/ Keep(case)
    BY <1>3, Zenon
  <2>2. late' \in BOOLEAN
    BY <1>3
  <2> QED BY <1>1, <1>3, <2>1, <2>2
<1> QED BY <1>2, <1>3 DEF Judged

\* A stage that tries a case leaves one that behaves as the original.
LEMMA TakeKeepsSame ==
  ASSUME Learnt, Same(in_data), NEW case, NEW keep \in BOOLEAN,
         Judged(case, keep), Take(case, keep)
  PROVE  Same(in_data')
<1>1. keep => Same(case)
  BY KeepIsSame DEF Judged
<1> QED BY <1>1 DEF Take

LEMMA BehaviourStep == BehaviourInv /\ [Next]_vars => BehaviourInv'
<1> SUFFICES ASSUME BehaviourInv, [Next]_vars PROVE BehaviourInv'
  OBVIOUS
<1>1. start' = start
  BY DEF Next, Program, minimize, DryRun, Normalize, NormalizeDone, Delete, SmallerBlocks,
         DeleteDone, Alphabet, AlphabetDone, Chars, CharsDone, WriteOutput, Abort,
         handle_stop_sig, vars
<1>2. \A case : Same(case)' <=> Same(case)
  BY <1>1 DEF Same
<1>3. CASE DryRun
  BY <1>3, <1>1 DEF DryRun, BehaviourInv, Learnt, Original, Same, Run, dry
<1>4. ASSUME pc \in {"normalize", "delete", "alphabet", "chars"},
             pc' \notin {"dry", "fatal", "aborted"},
             UNCHANGED <<dry, out_file>>, in_data' = in_data \/ Same(in_data')
      PROVE BehaviourInv'
  <2>1. Same(in_data) /\ Learnt /\ \A case \in out_file : Same(case) \/ case = start.data
    BY <1>4 DEF BehaviourInv
  <2>2. Same(in_data)' /\ Learnt'
    BY <1>1, <1>4, <2>1 DEF Same, Learnt, Original, dry
  <2> QED BY <1>1, <1>4, <2>1, <2>2 DEF BehaviourInv, Same
<1>5. CASE Normalize
  <2>1. Same(in_data) /\ Learnt
    BY <1>5 DEF Normalize, BehaviourInv
  <2>2. in_data' = in_data \/ Same(in_data')
    BY <1>5, <2>1, TakeKeepsSame DEF Normalize
  <2> QED BY <1>4, <1>5, <2>2 DEF Normalize
<1>6. CASE Delete
  <2>1. Same(in_data) /\ Learnt
    BY <1>6 DEF Delete, BehaviourInv
  <2>2. in_data' = in_data \/ Same(in_data')
    BY <1>6, <2>1, TakeKeepsSame DEF Delete
  <2> QED BY <1>4, <1>6, <2>2 DEF Delete
<1>7. CASE Alphabet
  <2>1. Same(in_data) /\ Learnt
    BY <1>7 DEF Alphabet, BehaviourInv
  <2>2. in_data' = in_data \/ Same(in_data')
    BY <1>7, <2>1, TakeKeepsSame DEF Alphabet
  <2> QED BY <1>4, <1>7, <2>2 DEF Alphabet
<1>8. CASE Chars
  <2>1. Same(in_data) /\ Learnt
    BY <1>8 DEF Chars, BehaviourInv
  <2>2. in_data' = in_data \/ Same(in_data')
    BY <1>8, <2>1, TakeKeepsSame DEF Chars
  <2> QED BY <1>4, <1>8, <2>2 DEF Chars
<1>9. CASE NormalizeDone \/ SmallerBlocks \/ DeleteDone \/ AlphabetDone \/ CharsDone
  BY <1>4, <1>9 DEF NormalizeDone, SmallerBlocks, DeleteDone, AlphabetDone, CharsDone, StartPass
<1>10. CASE WriteOutput
  BY <1>1, <1>10 DEF WriteOutput, BehaviourInv, Learnt, Original, Same, dry
<1>11. CASE Abort
  BY <1>1, <1>11 DEF Abort, BehaviourInv, Same
<1>12. CASE handle_stop_sig \/ UNCHANGED vars
  BY <1>1, <1>12 DEF handle_stop_sig, vars, dry, BehaviourInv, Learnt, Original, Same
<1> QED
  BY <1>3, <1>5, <1>6, <1>7, <1>8, <1>9, <1>10, <1>11, <1>12 DEF Next, Program, minimize

\* Whatever is reached, kept or written behaves as the original (run_target()'s verdict,
\* minimize(), and the output written when the user stops the program).
THEOREM BehaviourIsKept == Spec => []KeepsBehaviour
<1>1. Init => BehaviourInv
  BY DEF Init, BehaviourInv
<1>2. BehaviourInv => KeepsBehaviour
  BY DEF BehaviourInv, KeepsBehaviour
<1> QED BY <1>1, <1>2, BehaviourStep, PTL DEF Spec

-----------------------------------------------------------------------------
(* The cases that are tried.                                                *)

LEMMA ReplacedType ==
  ASSUME in_data \in Seq(Byte)
  PROVE  /\ \A from, n : Zeroed(from, n) \in Seq(Byte) /\ Len(Zeroed(from, n)) = Len(in_data)
         /\ \A sym : Replaced(sym) \in Seq(Byte) /\ Len(Replaced(sym)) = Len(in_data)
<1>1. DOMAIN in_data = 1..Len(in_data) /\ Len(in_data) \in Nat
  BY LenProperties
<1>2. \A p \in 1..Len(in_data) : in_data[p] \in Byte
  BY ElementOfSeq
<1>3. Zero \in Byte
  BY DEF Zero, Byte
<1>4. ASSUME NEW s \in [1..Len(in_data) -> Byte]
      PROVE s \in Seq(Byte) /\ Len(s) = Len(in_data)
  BY <1>1, <1>4
<1>5. ASSUME NEW from, NEW n PROVE Zeroed(from, n) \in [1..Len(in_data) -> Byte]
  BY <1>1, <1>2, <1>3 DEF Zeroed
<1>6. ASSUME NEW sym PROVE Replaced(sym) \in [1..Len(in_data) -> Byte]
  BY <1>1, <1>2, <1>3 DEF Replaced
<1> QED BY <1>4, <1>5, <1>6

\* The end of a sequence of bytes from lo on.
LEMMA TailOf ==
  ASSUME NEW s, NEW lo \in Int, NEW hi \in Int, \A p \in lo..hi : s[p] \in Byte
  PROVE  /\ SubSeq(s, lo, hi) \in Seq(Byte)
         /\ Len(SubSeq(s, lo, hi)) = IF lo <= hi THEN hi - lo + 1 ELSE 0
         /\ \A q \in 1..hi - lo + 1 : SubSeq(s, lo, hi)[q] = s[lo + q - 1]
BY SubSeqProperties

LEMMA WithoutType ==
  ASSUME in_data \in Seq(Byte), NEW from \in Nat, from < Len(in_data), NEW n \in Nat \ {0}
  PROVE  /\ Without(from, n) \in Seq(Byte)
         /\ Len(Without(from, n)) = IF from + n <= Len(in_data) THEN Len(in_data) - n ELSE from
         /\ \A q \in 1..Len(Without(from, n)) :
              Without(from, n)[q] = IF q <= from THEN in_data[q] ELSE in_data[q + n]
<1> DEFINE head == SubSeq(in_data, 1, from)
           tail == SubSeq(in_data, from + n + 1, Len(in_data))
<1>1. Len(in_data) \in Nat /\ \A p \in 1..Len(in_data) : in_data[p] \in Byte
  BY LenProperties, ElementOfSeq
<1>2. head \in Seq(Byte) /\ Len(head) = from /\ \A q \in 1..from : head[q] = in_data[q]
  <2>1. \A p \in 1..from : in_data[p] \in Byte
    BY <1>1
  <2>2. /\ head \in Seq(Byte)
        /\ Len(head) = IF 1 <= from THEN from - 1 + 1 ELSE 0
        /\ \A q \in 1..from - 1 + 1 : head[q] = in_data[1 + q - 1]
    BY <2>1, SubSeqProperties
  <2> HIDE DEF head
  <2> QED BY <2>2
<1>3. /\ tail \in Seq(Byte)
      /\ Len(tail) = IF from + n < Len(in_data) THEN Len(in_data) - from - n ELSE 0
      /\ \A q \in 1..Len(in_data) - from - n : tail[q] = in_data[from + n + q]
  <2> DEFINE lo == from + n + 1
  <2>1. lo \in Int /\ Len(in_data) \in Int /\ \A p \in lo..Len(in_data) : in_data[p] \in Byte
    BY <1>1
  <2> HIDE DEF lo
  <2>2. /\ SubSeq(in_data, lo, Len(in_data)) \in Seq(Byte)
        /\ Len(SubSeq(in_data, lo, Len(in_data)))
             = IF lo <= Len(in_data) THEN Len(in_data) - lo + 1 ELSE 0
        /\ \A q \in 1..Len(in_data) - lo + 1 :
             SubSeq(in_data, lo, Len(in_data))[q] = in_data[lo + q - 1]
    BY <2>1, TailOf, Zenon
  <2>3. lo = from + n + 1 /\ tail = SubSeq(in_data, lo, Len(in_data))
    BY DEF lo
  <2> HIDE DEF tail
  <2>4. Len(tail) = IF from + n < Len(in_data) THEN Len(in_data) - from - n ELSE 0
    <3>1. Len(tail) = IF lo <= Len(in_data) THEN Len(in_data) - lo + 1 ELSE 0
      BY <2>2, <2>3
    <3>2. lo = from + n + 1 /\ Len(in_data) \in Nat
      BY <1>1, <2>3
    <3> QED BY <3>1, <3>2
  <2>5. ASSUME NEW q \in 1..Len(in_data) - from - n PROVE tail[q] = in_data[from + n + q]
    <3>1. q \in 1..Len(in_data) - lo + 1 /\ lo + q - 1 = from + n + q
      BY <1>1, <2>3
    <3> QED BY <2>2, <2>3, <3>1
  <2> QED BY <2>2, <2>3, <2>4, <2>5
<1>4. Without(from, n) = head \o tail
  BY DEF Without
<1> HIDE DEF head, tail
<1>5. /\ head \o tail \in Seq(Byte)
      /\ Len(head \o tail) = Len(head) + Len(tail)
      /\ \A q \in 1..Len(head) + Len(tail) :
           (head \o tail)[q] = IF q <= Len(head) THEN head[q] ELSE tail[q - Len(head)]
  BY <1>2, <1>3, ConcatProperties
<1>6. Len(head \o tail) = IF from + n <= Len(in_data) THEN Len(in_data) - n ELSE from
  <2>1. Len(head) = from
    BY <1>2
  <2>2. Len(tail) = IF from + n < Len(in_data) THEN Len(in_data) - from - n ELSE 0
    BY <1>3
  <2>3. Len(in_data) \in Nat /\ Len(head \o tail) = Len(head) + Len(tail)
    BY <1>1, <1>5
  <2> QED BY <2>1, <2>2, <2>3
<1>7. ASSUME NEW q \in 1..Len(head \o tail)
      PROVE  (head \o tail)[q] = IF q <= from THEN in_data[q] ELSE in_data[q + n]
  <2>1. CASE q <= from
    BY <1>1, <1>2, <1>5, <1>6, <1>7, <2>1
  <2>2. CASE q > from
    <3>1. q - from \in 1..Len(in_data) - from - n /\ from + n + (q - from) = q + n
      BY <1>1, <1>6, <1>7, <2>2
    <3>2. (head \o tail)[q] = tail[q - from]
      BY <1>1, <1>2, <1>3, <1>5, <1>7, <2>2
    <3> QED BY <1>3, <2>2, <3>1, <3>2
  <2> QED BY <1>1, <1>6, <1>7, <2>1, <2>2
<1> QED BY <1>4, <1>5, <1>6, <1>7

\* To leave out either of two equal neighbours gives the same case.
LEMMA EqualNeighbours ==
  ASSUME in_data \in Seq(Byte), NEW p \in Nat, p > 0, p < Len(in_data),
         in_data[p] = in_data[p + 1]
  PROVE  Without(p - 1, 1) = Without(p, 1)
<1> DEFINE left == Without(p - 1, 1)
           right == Without(p, 1)
<1>1. Len(in_data) \in Nat /\ p - 1 \in Nat
  BY LenProperties
<1>2. /\ left \in Seq(Byte) /\ Len(left) = Len(in_data) - 1
      /\ \A q \in 1..Len(left) : left[q] = IF q <= p - 1 THEN in_data[q] ELSE in_data[q + 1]
  <2>1. p - 1 \in Nat /\ p - 1 < Len(in_data) /\ 1 \in Nat \ {0}
    BY <1>1
  <2>2. /\ left \in Seq(Byte)
        /\ Len(left) = IF p - 1 + 1 <= Len(in_data) THEN Len(in_data) - 1 ELSE p - 1
        /\ \A q \in 1..Len(left) : left[q] = IF q <= p - 1 THEN in_data[q] ELSE in_data[q + 1]
    BY <2>1, WithoutType
  <2> HIDE DEF left
  <2> QED BY <1>1, <2>1, <2>2
<1>3. /\ right \in Seq(Byte) /\ Len(right) = Len(in_data) - 1
      /\ \A q \in 1..Len(right) : right[q] = IF q <= p THEN in_data[q] ELSE in_data[q + 1]
  <2>1. p \in Nat /\ p < Len(in_data) /\ 1 \in Nat \ {0}
    BY <1>1
  <2>2. /\ right \in Seq(Byte)
        /\ Len(right) = IF p + 1 <= Len(in_data) THEN Len(in_data) - 1 ELSE p
        /\ \A q \in 1..Len(right) : right[q] = IF q <= p THEN in_data[q] ELSE in_data[q + 1]
    BY <2>1, WithoutType
  <2> HIDE DEF right
  <2> QED BY <1>1, <2>1, <2>2
<1> HIDE DEF left, right
<1>4. \A q \in 1..Len(left) : left[q] = right[q]
  BY <1>1, <1>2, <1>3
<1>5. left = right
  BY <1>2, <1>3, <1>4, SeqEqual
<1> QED BY <1>5 DEF left, right

-----------------------------------------------------------------------------
(* A pass that changes nothing.                                             *)

\* Bytes that were tried stay so as long as the case is the same.
LEMMA TriedStays ==
  ASSUME start' = start, in_data' = in_data
  PROVE  \A p : Same(Without(p, 1))' <=> Same(Without(p, 1))
BY DEF Same, Without

LEMMA DeleteStep ==
  ASSUME BehaviourInv, PassInv, Delete PROVE PassInv'
<1>1. /\ pc = "delete" /\ pc' = "delete" /\ pos < Len(in_data) /\ pos \in Nat
      /\ block \in Nat \ {0} /\ block' = block /\ start' = start
      /\ Len(in_data) \in Nat /\ (pos = 0 => prev_del) /\ in_data \in Seq(Byte)
  BY LenProperties DEF Delete, PassInv
<1>2. Same(in_data) /\ Learnt
  BY <1>1 DEF BehaviourInv
<1>3. CASE Repeats
  <2>1. UNCHANGED <<in_data, late, prev_del, changed_any>> /\ pos' = pos + block
    BY <1>3 DEF Delete
  <2>2. ASSUME ~late, block = 1, ~changed_any PROVE TriedBefore(pos + 1)
    <3>1. pos > 0 /\ pos < Len(in_data) /\ pos + 1 < Len(in_data)
      BY <1>1, <1>3, <2>2 DEF Repeats
    <3>2. SubSeq(in_data, pos, pos) = SubSeq(in_data, pos + 1, pos + 1)
      BY <1>1, <1>3, <2>2 DEF Repeats
    <3>3. in_data[pos] = in_data[pos + 1]
      <4>1. ASSUME NEW p \in 1..Len(in_data) PROVE SubSeq(in_data, p, p)[1] = in_data[p]
        <5>1. \A i \in p..p : in_data[i] \in Byte
          BY <1>1, <4>1, ElementOfSeq
        <5>2. \A i \in 1..p - p + 1 : SubSeq(in_data, p, p)[i] = in_data[p + i - 1]
          BY <4>1, <5>1, SubSeqProperties
        <5> QED BY <4>1, <5>2
      <4> QED BY <1>1, <3>1, <3>2, <4>1
    <3>4. Without(pos - 1, 1) = Without(pos, 1)
      BY <1>1, <3>1, <3>3, EqualNeighbours
    <3>5. TriedBefore(pos)
      BY <1>1, <2>2 DEF PassInv
    <3>6. ~Same(Without(pos - 1, 1))
      BY <1>1, <3>1, <3>5 DEF TriedBefore
    <3> QED BY <1>1, <3>4, <3>5, <3>6 DEF TriedBefore
  <2>3. ASSUME ~late', block' = 1, ~changed_any' PROVE TriedBefore(pos)'
    <3>1. TriedBefore(pos + 1) /\ pos' = pos + 1
      BY <1>1, <2>1, <2>2, <2>3
    <3> QED BY <1>1, <2>1, <3>1, TriedStays DEF TriedBefore
  <2> QED BY <1>1, <2>1, <2>3 DEF PassInv
<1>4. CASE ~Repeats
  <2>1. PICK keep \in BOOLEAN :
          /\ Judged(Without(pos, block), keep) /\ Take(Without(pos, block), keep)
          /\ pos' = IF keep THEN pos ELSE pos + block
          /\ prev_del' = keep /\ changed_any' = (changed_any \/ keep)
    BY <1>4 DEF Delete
  <2>2. /\ ~late' => ~late
        /\ ~keep /\ ~late' => ~Same(Without(pos, block))
        /\ late' \in BOOLEAN
    BY <1>2, <2>1, JudgedIsSame DEF PassInv
  <2>3. in_data' \in Seq(Byte) /\ Len(in_data') \in 0..TMIN_MAX_FILE
    <3>1. /\ Without(pos, block) \in Seq(Byte)
          /\ Len(Without(pos, block)) =
               IF pos + block <= Len(in_data) THEN Len(in_data) - block ELSE pos
      BY <1>1, WithoutType
    <3>2. Len(Without(pos, block)) \in 0..Len(in_data)
      BY <1>1, <3>1
    <3> QED BY <1>1, <2>1, <3>1, <3>2, ConstantsAssumption DEF Take, PassInv
  <2>4. changed_any' \in BOOLEAN /\ (~changed_any' => ~changed_any /\ ~keep)
    BY <2>1 DEF PassInv
  <2>5. pos' \in Nat /\ (pos' = 0 => prev_del')
    BY <1>1, <2>1
  <2>6. ASSUME ~late', block' = 1, ~changed_any' PROVE TriedBefore(pos)'
    <3>1. in_data' = in_data /\ pos' = pos + 1 /\ ~Same(Without(pos, 1))
      BY <1>1, <2>1, <2>2, <2>4, <2>6 DEF Take
    <3>2. TriedBefore(pos)
      BY <1>1, <2>2, <2>4, <2>6 DEF PassInv
    <3>3. TriedBefore(pos + 1)
      BY <1>1, <3>1, <3>2 DEF TriedBefore
    <3> QED BY <1>1, <3>1, <3>3, TriedStays DEF TriedBefore
  <2> QED BY <1>1, <2>1, <2>2, <2>3, <2>4, <2>5, <2>6 DEF PassInv
<1> QED BY <1>3, <1>4

LEMMA DeleteDoneStep ==
  ASSUME PassInv, DeleteDone PROVE PassInv'
<1>1. /\ pc = "delete" /\ pos >= Len(in_data) /\ pos \in Nat /\ Len(in_data) \in Nat
      /\ UNCHANGED <<start, in_data, late, changed_any, prev_del>>
      /\ pc' \in {"write", "alphabet"} /\ (pc' = "write" => ~changed_any)
      /\ block = 1 \/ Len(in_data) = 0
  BY LenProperties DEF DeleteDone, PassInv
<1>2. ASSUME ~late, ~changed_any PROVE TriedBefore(Len(in_data))
  <2>1. CASE Len(in_data) = 0
    BY <2>1 DEF TriedBefore
  <2>2. CASE block = 1
    <3>1. TriedBefore(pos)
      BY <1>1, <1>2, <2>2 DEF PassInv
    <3> QED BY <1>1, <3>1 DEF TriedBefore
  <2> QED BY <1>1, <2>1, <2>2
<1>3. ASSUME ~late', ~changed_any' PROVE TriedBefore(Len(in_data))'
  BY <1>1, <1>2, <1>3, TriedStays DEF TriedBefore
<1> QED BY <1>1, <1>3 DEF PassInv

\* Stages that write over the case, and keep its length.
LEMMA WriteOverStep ==
  ASSUME PassInv, Learnt, NEW case \in Seq(Byte), Len(case) = Len(in_data),
         NEW keep \in BOOLEAN, Judged(case, keep), Take(case, keep)
  PROVE  /\ in_data' \in Seq(Byte) /\ Len(in_data') \in 0..TMIN_MAX_FILE
         /\ late' \in BOOLEAN /\ (~late' => ~late)
         /\ ~keep => in_data' = in_data
BY JudgedIsSame DEF PassInv, Take

LEMMA NormalizeStep ==
  ASSUME BehaviourInv, PassInv, Normalize PROVE PassInv'
<1>1. /\ pc = "normalize" /\ pc' = "normalize" /\ Learnt
      /\ UNCHANGED <<prev_del, changed_any>>
  BY DEF Normalize, BehaviourInv
<1>2. /\ in_data' \in Seq(Byte) /\ Len(in_data') \in 0..TMIN_MAX_FILE
      /\ late' \in BOOLEAN
  <2>1. CASE UNCHANGED <<in_data, late>>
    BY <2>1 DEF PassInv
  <2>2. CASE \E keep \in BOOLEAN :
               Judged(Zeroed(pos, block), keep) /\ Take(Zeroed(pos, block), keep)
    <3>1. Zeroed(pos, block) \in Seq(Byte) /\ Len(Zeroed(pos, block)) = Len(in_data)
      BY ReplacedType DEF PassInv
    <3> QED BY <1>1, <2>2, <3>1, WriteOverStep
  <2> QED BY <2>1, <2>2 DEF Normalize
<1> QED BY <1>1, <1>2 DEF PassInv

LEMMA StartPassStep ==
  ASSUME PassInv, StartPass, UNCHANGED <<in_data, late>> PROVE PassInv'
<1>1. block' \in Nat \ {0}
  BY FirstBlock DEF StartPass, PassInv
<1>2. TriedBefore(pos)'
  BY DEF StartPass, TriedBefore
<1> QED BY <1>1, <1>2 DEF StartPass, PassInv

LEMMA SmallerBlocksStep ==
  ASSUME PassInv, SmallerBlocks PROVE PassInv'
<1>1. block' \in Nat \ {0}
  BY DEF SmallerBlocks, PassInv
<1>2. TriedBefore(pos)'
  BY DEF SmallerBlocks, TriedBefore
<1> QED BY <1>1, <1>2 DEF SmallerBlocks, PassInv

LEMMA AlphabetStep ==
  ASSUME BehaviourInv, PassInv, Alphabet PROVE PassInv'
<1>1. pc = "alphabet" /\ pc' = "alphabet" /\ Learnt /\ UNCHANGED <<start, prev_del>>
  BY DEF Alphabet, BehaviourInv
<1> DEFINE sym == Min(symbols)
<1>2. PICK keep \in BOOLEAN :
        /\ Judged(Replaced(sym), keep) /\ Take(Replaced(sym), keep)
        /\ changed_any' = (changed_any \/ keep)
  BY DEF Alphabet
<1>3. Replaced(sym) \in Seq(Byte) /\ Len(Replaced(sym)) = Len(in_data)
  BY ReplacedType DEF PassInv
<1>4. /\ in_data' \in Seq(Byte) /\ Len(in_data') \in 0..TMIN_MAX_FILE
      /\ late' \in BOOLEAN /\ (~late' => ~late) /\ (~keep => in_data' = in_data)
  BY <1>1, <1>2, <1>3, WriteOverStep
<1>5. changed_any' \in BOOLEAN /\ (~changed_any' => ~changed_any /\ ~keep)
  BY <1>2 DEF PassInv
<1>6. ASSUME ~late', ~changed_any' PROVE TriedBefore(Len(in_data))'
  <2>1. TriedBefore(Len(in_data)) /\ in_data' = in_data
    BY <1>1, <1>4, <1>5, <1>6 DEF PassInv
  <2> QED BY <1>1, <2>1, TriedStays DEF TriedBefore
<1> QED BY <1>1, <1>4, <1>5, <1>6 DEF PassInv

LEMMA CharsStep ==
  ASSUME BehaviourInv, PassInv, Chars PROVE PassInv'
<1>1. pc = "chars" /\ pc' = "chars" /\ Learnt /\ UNCHANGED <<start, prev_del>>
  BY DEF Chars, BehaviourInv
<1>2. CASE UNCHANGED <<in_data, late, changed_any>>
  <2>1. ASSUME ~late', ~changed_any' PROVE TriedBefore(Len(in_data))'
    BY <1>1, <1>2, <2>1, TriedStays DEF PassInv, TriedBefore
  <2> QED BY <1>1, <1>2, <2>1 DEF PassInv
<1>3. ASSUME NEW keep \in BOOLEAN,
             Judged(Zeroed(pos, 1), keep), Take(Zeroed(pos, 1), keep),
             changed_any' = (changed_any \/ keep)
      PROVE  PassInv'
  <2>1. Zeroed(pos, 1) \in Seq(Byte) /\ Len(Zeroed(pos, 1)) = Len(in_data)
    BY ReplacedType DEF PassInv
  <2>2. /\ in_data' \in Seq(Byte) /\ Len(in_data') \in 0..TMIN_MAX_FILE
        /\ late' \in BOOLEAN /\ (~late' => ~late) /\ (~keep => in_data' = in_data)
    BY <1>1, <1>3, <2>1, WriteOverStep
  <2>3. changed_any' \in BOOLEAN /\ (~changed_any' => ~changed_any /\ ~keep)
    BY <1>3 DEF PassInv
  <2>4. ASSUME ~late', ~changed_any' PROVE TriedBefore(Len(in_data))'
    <3>1. TriedBefore(Len(in_data)) /\ in_data' = in_data
      BY <1>1, <2>2, <2>3, <2>4 DEF PassInv
    <3> QED BY <1>1, <3>1, TriedStays DEF TriedBefore
  <2> QED BY <1>1, <2>2, <2>3, <2>4 DEF PassInv
<1> QED BY <1>2, <1>3 DEF Chars

\* Steps that leave the case as it is, outside a pass or between stages of one.
LEMMA OtherStep ==
  ASSUME PassInv,
         \/ DryRun \/ AlphabetDone \/ (CharsDone /\ ~changed_any) \/ WriteOutput \/ Abort
         \/ handle_stop_sig \/ UNCHANGED vars
  PROVE  PassInv'
<1>1. UNCHANGED <<start, in_data, late, changed_any, prev_del>>
  BY DEF DryRun, AlphabetDone, CharsDone, WriteOutput, Abort, handle_stop_sig, vars, loop
<1>2. \/ pc' \in {"normalize", "fatal", "aborted"}
      \/ pc = "alphabet" /\ pc' = "chars"
      \/ pc = "chars" /\ pc' = "write" /\ ~changed_any
      \/ pc = "write" /\ pc' = "done"
      \/ pc' = pc /\ pos' = pos /\ block' = block
  BY DEF DryRun, AlphabetDone, CharsDone, WriteOutput, Abort, handle_stop_sig, vars, loop
<1>3. /\ TriedBefore(Len(in_data))' <=> TriedBefore(Len(in_data))
      /\ pos' = pos => (TriedBefore(pos)' <=> TriedBefore(pos))
  BY <1>1, TriedStays DEF TriedBefore
<1> QED BY <1>1, <1>2, <1>3 DEF PassInv

\* The passes of minimize() end only after one that has tried to leave out every byte of
\* the case it ends with, the blocks it skipped as repetitions counted in.
THEOREM ResultIsOneMinimal == Spec => []OneMinimal
<1>1. Init => PassInv
  <2> SUFFICES ASSUME Init PROVE PassInv
    OBVIOUS
  <2>1. in_data \in Seq(Byte) /\ Len(in_data) \in 1..TMIN_MAX_FILE
    BY ConstantsAssumption DEF Init, Byte
  <2>2. Len(in_data) \in 0..TMIN_MAX_FILE
    BY <2>1, ConstantsAssumption
  <2> QED BY <2>1, <2>2 DEF Init, PassInv
<1>2. BehaviourInv /\ PassInv /\ [Next]_vars => PassInv'
  <2> SUFFICES ASSUME BehaviourInv, PassInv, [Next]_vars PROVE PassInv'
    OBVIOUS
  <2>1. CASE NormalizeDone \/ (CharsDone /\ changed_any)
    BY <2>1, StartPassStep DEF NormalizeDone, CharsDone
  <2> QED
    BY <2>1, NormalizeStep, DeleteStep, SmallerBlocksStep, DeleteDoneStep, AlphabetStep,
       CharsStep, OtherStep DEF Next, Program, minimize
<1>3. PassInv => OneMinimal
  BY DEF PassInv, OneMinimal, TriedBefore
<1>4. Init => BehaviourInv
  BY DEF Init, BehaviourInv
<1> QED BY <1>1, <1>2, <1>3, <1>4, BehaviourStep, PTL DEF Spec
=============================================================================
