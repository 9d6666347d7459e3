-------------------------- MODULE TraceDecoderProofs --------------------------
(***************************************************************************)
(* Proofs about TraceDecoder, for any program, any runs and either mode:   *)
(* the decoder counts the branches of the program (it implements           *)
(* BranchTrace) while at most two interrupts strike between two of them,   *)
(* stops counting at an overflow, and comes to its end.                    *)
(***************************************************************************)
EXTENDS TraceDecoder, TLAPS, SequenceTheorems

\* The types that the counting depends on.
Tracer(t) ==
  /\ DOMAIN t = DOMAIN Started
  /\ t.entry_flag \in BOOLEAN /\ t.branch_flag \in BOOLEAN /\ t.from_exception \in BOOLEAN
  /\ t.atom_in_slide \in Nat /\ t.overflow_nums \in Nat
  /\ t.address_register \in [1..3 -> Address]
  /\ bb_mode => t.hash = 0

InException(u) == u.target \in {"off", "back"}

TraceUnit(u) ==
  /\ DOMAIN u = DOMAIN Off
  /\ u.header \in 192..255
  /\ u.other \in Seq(Seq(0..255)) /\ \A i \in 1..Len(u.other) : Silent(u.other[i])
  /\ u.target \in {"none", "may", "must", "off", "back"}
  /\ u.arrived \in BOOLEAN /\ u.entered \in BOOLEAN
  /\ u.regs \in [1..3 -> Address]
  /\ u.at \in Targets \union {NoWhere} /\ u.struck \in 0..2
  /\ u.arrived => u.target = "none"
  /\ InException(u) => u.at \in Targets /\ u.struck > 0 /\ (u.entered \/ u.at # Main)

\* The decoder is in step with the trace unit.  While a branch waits for its arrival
\* an exception in the text has its address, but a third one need not.
Follows(t, u) ==
  /\ t.entry_flag = u.entered /\ t.address_register = u.regs
  /\ t.branch_flag => t.entry_flag
  /\ t.IRQ_addr # Zero => t.from_exception
  /\ u.target \in {"may", "must"} => ~(t.from_exception /\ t.branch_flag)
  /\ InException(u) => t.from_exception
  /\ t.branch_flag /\ InException(u) /\ InText(u.at) =>
       t.IRQ_addr = u.at \/ (t.IRQ_addr = Zero /\ u.struck = 2)
  /\ t.branch_flag /\ u.target = "none" =>
       /\ u.at # NoWhere
       /\ InText(u.at) => u.struck = 2 \/ (u.struck = 1 /\ ~t.from_exception)

Tracked(t, u) == Tracer(t) /\ (t.overflow_nums = 0 => Follows(t, u))

\* What decode_stream() makes of the packet p, and BranchTrace of the event e.
Decoded(t, p) ==
  IF p[1] \in Reserved THEN [tracer |-> t, len |-> 1]
  ELSE IF IsAtom(p[1]) THEN [tracer |-> decode_atoms(t, p[1]), len |-> 1]
  ELSE decode(t, p)
Seen(c, e) ==
  IF e = None THEN c
  ELSE IF e.op = "atoms" THEN Abs!Branches(c, e.atoms) ELSE Abs!Arrive(c, e.address)

\* A packet p stands for the event e.
Packet(t, u, p, e) ==
  /\ p \in Seq(Int) /\ Len(p) > 0
  /\ p[1] \in Reserved => Len(p) = 1 /\ e = None
  /\ t.overflow_nums = 0 =>
       /\ Decoded(t, p).len = Len(p) /\ Tracked(Decoded(t, p).tracer, u)
       /\ Count(Decoded(t, p).tracer) = Seen(Count(t), e)

Reset == <<Zero, Zero, Zero>>

\* The counters at the start of a run but for the overflows.
Fresh(t) ==
  /\ DOMAIN t = DOMAIN Started /\ t = [Started EXCEPT !.overflow_nums = t.overflow_nums]
  /\ t.overflow_nums \in Nat

\* The buffer holds a packet, nothing, or the rest of the synchronisation.
DecoderInv ==
  /\ bb_mode \in BOOLEAN
  /\ state \in {"READING", "SYNCING", "DECODING", "DONE"}
  /\ Tracer(tracer) /\ TraceUnit(unit)
  /\ state # "DONE" => event = None \/ (state = "DECODING" /\ buff # <<>>)
  /\ state = "READING" => tracer = Started
  /\ state = "SYNCING" =>
       /\ \E kit \in Kits, n \in Nat \ {0} :
            /\ unit = Ready(kit) /\ n <= Len(kit.begin) + 1
            /\ buff = SubSeq(kit.begin, n, Len(kit.begin))
       /\ Fresh(tracer)
  /\ state = "DECODING" =>
       \/ buff = <<>> /\ Tracked(tracer, unit)
       \/ /\ buff \in {Sync, <<1, 1, 0, 4>>} /\ event = None
          /\ Tracked(tracer, unit) /\ unit.regs = Reset
       \/ Packet(tracer, unit, buff, event)


-----------------------------------------------------------------------------
(* Atoms.                                                                   *)

Atoms == 192..255

\* The tables say of a packet what it stands for: how many branches, the last one, and
\* which were taken.
Explained(c) ==
  /\ AtomSeq(c) = [i \in 1..atom_length(c) |->
                     (atom_map(c) \div 2^(atom_length(c) - i)) % 2]
  /\ atom_length(c) \in Nat \ {0} /\ AtomSeq(c) \in Seq({0, 1})
  /\ atom_flag(c) = (AtomSeq(c)[atom_length(c)] = 1)

LEMMA LongAtoms ==
  ASSUME NEW c \in 192..212 \union 224..244
  PROVE  Explained(c)
<1> DEFINE E(k) == 2^k
           Pow2(k) == <<1, 2, 4, 8, 16, 32, 64, 128, 256, 512, 1024, 2048, 4096, 8192,
                        16384, 32768, 65536, 131072, 262144, 524288, 1048576, 2097152,
                        4194304, 8388608, 16777216>>[k + 1]
<1>1. /\ E(0) = 1 /\ E(1) = 2 /\ E(2) = 4 /\ E(3) = 8 /\ E(4) = 16 /\ E(5) = 32
      /\ E(6) = 64 /\ E(7) = 128 /\ E(8) = 256 /\ E(9) = 512 /\ E(10) = 1024
      /\ E(11) = 2048 /\ E(12) = 4096 /\ E(13) = 8192 /\ E(14) = 16384
      /\ E(15) = 32768 /\ E(16) = 65536 /\ E(17) = 131072 /\ E(18) = 262144
      /\ E(19) = 524288 /\ E(20) = 1048576 /\ E(21) = 2097152 /\ E(22) = 4194304
      /\ E(23) = 8388608 /\ E(24) = 16777216
  OBVIOUS
<1>2. \A k : 2^k = E(k)
  OBVIOUS
<1> HIDE DEF E
<1>3. \A k \in 0..24 : E(k) = Pow2(k)
  BY <1>1
<1>4. ASSUME NEW n \in 4..24, NEW k \in 0..n - 1
      PROVE  /\ ((Pow2(n) - 1) \div Pow2(k)) % 2 = 1
             /\ ((Pow2(n) - 2) \div Pow2(k)) % 2 = IF k = 0 THEN 0 ELSE 1
  OBVIOUS
<1> HIDE DEF Pow2
<1> DEFINE n == (c % 32) + 4
<1>5. n \in 4..24 /\ n \in Nat \ {0}
  OBVIOUS
<1>6. /\ c \in 192..212 => atom_length(c) = n /\ atom_map(c) = E(n) - 1
      /\ c \in 224..244 => atom_length(c) = n /\ atom_map(c) = E(n) - 2
  <2>1. c \in 192..212 => n = c - 188
    OBVIOUS
  <2>2. c \in 224..244 => n = c - 220
    OBVIOUS
  <2> QED BY <1>2, <2>1, <2>2 DEF atom_length, atom_map
<1>7. AtomSeq(c) = [i \in 1..n |-> IF c >= 224 /\ i = n THEN 0 ELSE 1]
  BY DEF AtomSeq
<1>8. atom_flag(c) <=> c \in 192..212
  BY DEF atom_flag
<1> HIDE DEF n
<1>9. ASSUME NEW i \in 1..n
      PROVE  (atom_map(c) \div 2^(n - i)) % 2 = IF c >= 224 /\ i = n THEN 0 ELSE 1
  <2>1. n - i \in 0..n - 1 /\ n - i \in 0..24 /\ n \in 0..24
    BY <1>5
  <2>2. E(n) = Pow2(n) /\ E(n - i) = Pow2(n - i) /\ 2^(n - i) = E(n - i)
    BY <1>2, <1>3, <2>1
  <2>3. CASE c \in 192..212
    <3>1. atom_map(c) = Pow2(n) - 1 /\ ~(c >= 224)
      BY <1>6, <2>2, <2>3
    <3> QED BY <1>4, <1>5, <2>1, <2>2, <3>1
  <2>4. CASE c \in 224..244
    <3>1. atom_map(c) = Pow2(n) - 2 /\ c >= 224
      BY <1>6, <2>2, <2>4
    <3>2. n - i = 0 <=> i = n
      BY <1>5
    <3> QED BY <1>4, <1>5, <2>1, <2>2, <3>1, <3>2
  <2> QED BY <2>3, <2>4
<1>10. atom_length(c) = n
  BY <1>6
<1>11. AtomSeq(c) \in Seq({0, 1})
  BY <1>5, <1>7
<1>12. atom_flag(c) = (AtomSeq(c)[n] = 1)
  <2>1. AtomSeq(c)[n] = IF c >= 224 THEN 0 ELSE 1
    BY <1>5, <1>7
  <2>2. atom_flag(c) <=> AtomSeq(c)[n] = 1
    BY <1>8, <2>1
  <2> QED BY <2>2 DEF atom_flag
<1> QED BY <1>5, <1>7, <1>9, <1>10, <1>11, <1>12 DEF Explained

\* A row of the tables: the number and the branches it says.
Row(c, serial, bits) ==
  /\ AtomSeq(c) = bits /\ atom_length(c) = Len(bits) /\ atom_map(c) = serial
  /\ atom_flag(c) = (bits[Len(bits)] = 1)

LEMMA Rows ==
  /\ Row(213, 0, <<0, 0, 0, 0, 0>>)
  /\ Row(214, 10, <<0, 1, 0, 1, 0>>)
  /\ Row(215, 21, <<1, 0, 1, 0, 1>>)
  /\ Row(216, 0, <<0, 0>>)
  /\ Row(217, 2, <<1, 0>>)
  /\ Row(218, 1, <<0, 1>>)
  /\ Row(219, 3, <<1, 1>>)
  /\ Row(220, 7, <<0, 1, 1, 1>>)
  /\ Row(221, 0, <<0, 0, 0, 0>>)
  /\ Row(222, 5, <<0, 1, 0, 1>>)
  /\ Row(223, 10, <<1, 0, 1, 0>>)
  /\ Row(245, 15, <<0, 1, 1, 1, 1>>)
  /\ Row(246, 0, <<0>>)
  /\ Row(247, 1, <<1>>)
  /\ Row(248, 0, <<0, 0, 0>>)
  /\ Row(249, 4, <<1, 0, 0>>)
  /\ Row(250, 2, <<0, 1, 0>>)
  /\ Row(251, 6, <<1, 1, 0>>)
  /\ Row(252, 1, <<0, 0, 1>>)
  /\ Row(253, 5, <<1, 0, 1>>)
  /\ Row(254, 3, <<0, 1, 1>>)
  /\ Row(255, 7, <<1, 1, 1>>)
<1>1. /\ Row(213, 0, <<0, 0, 0, 0, 0>>)
      /\ Row(214, 10, <<0, 1, 0, 1, 0>>)
      /\ Row(215, 21, <<1, 0, 1, 0, 1>>)
      /\ Row(216, 0, <<0, 0>>)
      /\ Row(217, 2, <<1, 0>>)
      /\ Row(218, 1, <<0, 1>>)
  BY DEF Row, AtomSeq, atom_length, atom_map, atom_flag
<1>2. /\ Row(219, 3, <<1, 1>>)
      /\ Row(220, 7, <<0, 1, 1, 1>>)
      /\ Row(221, 0, <<0, 0, 0, 0>>)
      /\ Row(222, 5, <<0, 1, 0, 1>>)
      /\ Row(223, 10, <<1, 0, 1, 0>>)
      /\ Row(245, 15, <<0, 1, 1, 1, 1>>)
  BY DEF Row, AtomSeq, atom_length, atom_map, atom_flag
<1>3. /\ Row(246, 0, <<0>>)
      /\ Row(247, 1, <<1>>)
      /\ Row(248, 0, <<0, 0, 0>>)
      /\ Row(249, 4, <<1, 0, 0>>)
      /\ Row(250, 2, <<0, 1, 0>>)
  BY DEF Row, AtomSeq, atom_length, atom_map, atom_flag
<1>4. /\ Row(251, 6, <<1, 1, 0>>)
      /\ Row(252, 1, <<0, 0, 1>>)
      /\ Row(253, 5, <<1, 0, 1>>)
      /\ Row(254, 3, <<0, 1, 1>>)
      /\ Row(255, 7, <<1, 1, 1>>)
  BY DEF Row, AtomSeq, atom_length, atom_map, atom_flag
<1> QED BY <1>1, <1>2, <1>3, <1>4

LEMMA ShortAtoms ==
  ASSUME NEW c \in 213..223 \union 245..255
  PROVE  Explained(c)
<1> DEFINE E(k) == 2^k
<1>1. E(0) = 1 /\ E(1) = 2 /\ E(2) = 4 /\ E(3) = 8 /\ E(4) = 16
  OBVIOUS
<1>2. \A k : 2^k = E(k)
  OBVIOUS
<1> HIDE DEF E
<1> DEFINE Bits(s, l) == [i \in 1..l |-> (s \div E(l - i)) % 2]
           Valid(s, bits) == /\ Len(bits) \in Nat \ {0} /\ bits = Bits(s, Len(bits))
                             /\ bits \in Seq({0, 1})
<1>3. /\ Valid(0, <<0>>)
      /\ Valid(1, <<1>>)
  BY <1>1
<1>4. /\ Valid(0, <<0, 0>>)
      /\ Valid(1, <<0, 1>>)
      /\ Valid(2, <<1, 0>>)
      /\ Valid(3, <<1, 1>>)
  BY <1>1
<1>5. /\ Valid(0, <<0, 0, 0>>)
      /\ Valid(1, <<0, 0, 1>>)
      /\ Valid(2, <<0, 1, 0>>)
      /\ Valid(3, <<0, 1, 1>>)
      /\ Valid(4, <<1, 0, 0>>)
      /\ Valid(5, <<1, 0, 1>>)
      /\ Valid(6, <<1, 1, 0>>)
      /\ Valid(7, <<1, 1, 1>>)
  BY <1>1
<1>6. /\ Valid(0, <<0, 0, 0, 0>>)
      /\ Valid(5, <<0, 1, 0, 1>>)
      /\ Valid(7, <<0, 1, 1, 1>>)
      /\ Valid(10, <<1, 0, 1, 0>>)
  BY <1>1
<1>7. /\ Valid(0, <<0, 0, 0, 0, 0>>)
      /\ Valid(10, <<0, 1, 0, 1, 0>>)
      /\ Valid(15, <<0, 1, 1, 1, 1>>)
      /\ Valid(21, <<1, 0, 1, 0, 1>>)
  BY <1>1
<1>8. ASSUME NEW s, NEW bits, Row(c, s, bits), Valid(s, bits)
      PROVE  Explained(c)
  BY <1>2, <1>8 DEF Row, Explained
<1> HIDE DEF Valid
<1>9. \E s, bits : Row(c, s, bits) /\ Valid(s, bits)
  <2>1. CASE c = 213
    BY <2>1, <1>7, Rows
  <2>2. CASE c = 214
    BY <2>2, <1>7, Rows
  <2>3. CASE c = 215
    BY <2>3, <1>7, Rows
  <2>4. CASE c = 216
    BY <2>4, <1>4, Rows
  <2>5. CASE c = 217
    BY <2>5, <1>4, Rows
  <2>6. CASE c = 218
    BY <2>6, <1>4, Rows
  <2>7. CASE c = 219
    BY <2>7, <1>4, Rows
  <2>8. CASE c = 220
    BY <2>8, <1>6, Rows
  <2>9. CASE c = 221
    BY <2>9, <1>6, Rows
  <2>10. CASE c = 222
    BY <2>10, <1>6, Rows
  <2>11. CASE c = 223
    BY <2>11, <1>6, Rows
  <2>12. CASE c = 245
    BY <2>12, <1>7, Rows
  <2>13. CASE c = 246
    BY <2>13, <1>3, Rows
  <2>14. CASE c = 247
    BY <2>14, <1>3, Rows
  <2>15. CASE c = 248
    BY <2>15, <1>5, Rows
  <2>16. CASE c = 249
    BY <2>16, <1>5, Rows
  <2>17. CASE c = 250
    BY <2>17, <1>5, Rows
  <2>18. CASE c = 251
    BY <2>18, <1>5, Rows
  <2>19. CASE c = 252
    BY <2>19, <1>5, Rows
  <2>20. CASE c = 253
    BY <2>20, <1>5, Rows
  <2>21. CASE c = 254
    BY <2>21, <1>5, Rows
  <2>22. CASE c = 255
    BY <2>22, <1>5, Rows
  <2> QED BY <2>1, <2>2, <2>3, <2>4, <2>5, <2>6, <2>7, <2>8, <2>9, <2>10, <2>11, <2>12,
             <2>13, <2>14, <2>15, <2>16, <2>17, <2>18, <2>19, <2>20, <2>21, <2>22
<1> QED BY <1>8, <1>9


\* Counting a packet of atoms is what its branches are.
LEMMA AtomsCounted ==
  ASSUME NEW c \in Atoms
  PROVE  /\ AtomSeq(c) \in Seq({0, 1}) /\ Len(AtomSeq(c)) = atom_length(c)
         /\ atom_length(c) \in Nat \ {0}
         /\ atom_flag(c) = (AtomSeq(c)[Len(AtomSeq(c))] = 1)
         /\ \A h : sdbm(h, atom_map(c), atom_length(c)) = PathHash(h, AtomSeq(c))
<1>1. Explained(c)
  <2>1. c \in 192..212 \union 224..244 \/ c \in 213..223 \union 245..255
    BY DEF Atoms
  <2> QED BY <2>1, LongAtoms, ShortAtoms
<1>2. Len(AtomSeq(c)) = atom_length(c)
  BY <1>1 DEF Explained
<1>3. ASSUME NEW h
      PROVE  sdbm(h, atom_map(c), atom_length(c)) = PathHash(h, AtomSeq(c))
  BY <1>1 DEF Explained, sdbm
<1> QED BY <1>1, <1>2, <1>3 DEF Explained

\* BranchTrace reckons in the same numbers.
LEMMA SameNumbers ==
  /\ \A path, bits : Abs!PathHash(path, bits) = PathHash(path, bits)
  /\ \A a : Abs!InText(a) <=> InText(a)
  /\ \A map, index : Abs!Increment(map, index) = Increment(map, index)
  /\ \A x, y : Abs!Xor16(x, y) = Xor16(x, y)
  /\ Abs!Bits16 = Bits16 /\ Abs!Bits17 = Bits17
<1>1. \A path, bits : Abs!PathHash(path, bits) = PathHash(path, bits)
  BY DEF PathHash, Abs!PathHash, Bits17, Abs!Bits17
<1>2. \A a : Abs!InText(a) <=> InText(a)
  BY DEF InText, Abs!InText, Leq, Abs!Leq
<1>3. \A map, index : Abs!Increment(map, index) = Increment(map, index)
  BY DEF Increment, Abs!Increment
<1>4. \A x, y : Abs!Xor16(x, y) = Xor16(x, y)
  BY DEF Xor16, Abs!Xor16
<1> QED BY <1>1, <1>2, <1>3, <1>4 DEF Bits16, Bits17, Abs!Bits16, Abs!Bits17

LEMMA CountAtomsStep ==
  ASSUME NEW c \in Atoms, NEW t, Tracer(t)
  PROVE  LET d == decode_atoms(t, c)
         IN /\ Tracer(d)
            /\ Count(d) = Abs!Branches(Count(t), AtomSeq(c))
            /\ d.entry_flag = t.entry_flag /\ d.overflow_nums = t.overflow_nums
            /\ d.address_register = t.address_register
            /\ ~t.entry_flag => d = t
            /\ t.entry_flag => /\ ~d.from_exception /\ d.IRQ_addr = Zero
                               /\ d.branch_flag = (AtomSeq(c)[Len(AtomSeq(c))] = 1)
<1> DEFINE d == decode_atoms(t, c)
<1>1. /\ Len(AtomSeq(c)) = atom_length(c) /\ atom_length(c) \in Nat \ {0}
      /\ atom_flag(c) = (AtomSeq(c)[Len(AtomSeq(c))] = 1)
      /\ atom_flag(c) \in BOOLEAN
      /\ \A h : sdbm(h, atom_map(c), atom_length(c)) = PathHash(h, AtomSeq(c))
  BY AtomsCounted DEF atom_flag
<1>2. CASE ~t.entry_flag
  BY <1>2 DEF decode_atoms, Count, Abs!Branches
<1>3. CASE t.entry_flag
  <2>1. d = [t EXCEPT !.from_exception = FALSE, !.IRQ_addr = Zero,
                      !.branch_flag = atom_flag(c),
                      !.atom_in_slide = @ + atom_length(c),
                      !.hash = IF bb_mode THEN @ ELSE sdbm(@, atom_map(c), atom_length(c))]
    BY <1>3 DEF decode_atoms
  <2> HIDE DEF d
  <2>2. /\ DOMAIN d = DOMAIN t /\ d.from_exception = FALSE /\ d.IRQ_addr = Zero
        /\ d.branch_flag = atom_flag(c) /\ d.atom_in_slide = t.atom_in_slide + atom_length(c)
        /\ d.hash = IF bb_mode THEN t.hash ELSE sdbm(t.hash, atom_map(c), atom_length(c))
        /\ d.entry_flag = t.entry_flag /\ d.overflow_nums = t.overflow_nums
        /\ d.address_register = t.address_register /\ d.trace_bits = t.trace_bits
        /\ d.pre_basic_block = t.pre_basic_block /\ d.branch_nums = t.branch_nums
    BY <2>1 DEF Tracer, Started
  <2>3. Tracer(d)
    <3>1. d.atom_in_slide \in Nat
      BY <1>1, <2>2 DEF Tracer
    <3>2. bb_mode => d.hash = 0
      BY <2>2 DEF Tracer
    <3>3. d.branch_flag \in BOOLEAN
      BY <1>1, <2>2
    <3> QED BY <2>2, <3>1, <3>2, <3>3 DEF Tracer
  <2>4. Count(d) = Abs!Branches(Count(t), AtomSeq(c))
    <3>1. d.hash = IF bb_mode THEN t.hash ELSE Abs!PathHash(t.hash, AtomSeq(c))
      BY <1>1, <2>2, SameNumbers
    <3>2. /\ d.branch_flag = (AtomSeq(c)[Len(AtomSeq(c))] = 1)
          /\ d.atom_in_slide = t.atom_in_slide + Len(AtomSeq(c))
      BY <1>1, <2>2
    <3> QED BY <1>3, <2>2, <3>1, <3>2 DEF Count, Abs!Branches
  <2> QED BY <1>1, <1>3, <2>2, <2>3, <2>4 DEF d
<1> QED BY <1>2, <1>3

-----------------------------------------------------------------------------
(* Addresses.                                                               *)


\* main is entered when it is arrived at.
Entered(t, a) == [t EXCEPT !.entry_flag = @ \/ a = Main]
EnteredCount(c, a) == [c EXCEPT !.entered = @ \/ a = Main]

\* What an address may be after an exception, and an edge.
Strikes(t) == t.from_exception /\ t.IRQ_addr = Zero
Returns(t, a) == t.from_exception /\ t.IRQ_addr = a
Edge(t, a) == (t.entry_flag \/ a = Main) /\ t.branch_flag /\ InText(a)
StruckAt(e, a) == [e EXCEPT !.IRQ_addr = a]
Returned(e) == [e EXCEPT !.from_exception = FALSE, !.IRQ_addr = Zero]

LEMMA CountBranchFields ==
  ASSUME NEW t, Tracer(t), NEW a
  PROVE  LET d == count_branch(t, a)
             l == Abs!Location(Count(t), a)
         IN /\ Tracer(d) /\ d.overflow_nums = t.overflow_nums
            /\ d.address_register = t.address_register
            /\ d.entry_flag = t.entry_flag /\ d.branch_flag = FALSE
            /\ d.from_exception = t.from_exception /\ d.IRQ_addr = Zero
            /\ d.atom_in_slide = 1 /\ d.hash = 0
            /\ d.branch_nums = t.branch_nums + t.atom_in_slide
            /\ d.pre_basic_block = l \div 2
            /\ d.trace_bits = Increment(t.trace_bits, Xor16(l % Bits16, t.pre_basic_block))
<1> DEFINE l == Abs!Location(Count(t), a)
           slide == IF bb_mode /\ t.atom_in_slide > 4 THEN 5 ELSE t.atom_in_slide
           to == (a.lo + (IF bb_mode THEN slide - 1 ELSE t.hash)) % Bits17
           d == count_branch(t, a)
<1>1. to = l
  <2>1. t.atom_in_slide \in Nat
    BY DEF Tracer
  <2>2. (IF bb_mode THEN slide - 1 ELSE t.hash)
          = (IF ~bb_mode THEN t.hash ELSE IF t.atom_in_slide > 4 THEN 4 ELSE t.atom_in_slide - 1)
    BY <2>1
  <2> HIDE DEF slide
  <2> QED BY <2>2, SameNumbers DEF Abs!Location, Count
<1>2. d = [t EXCEPT !.branch_nums = @ + t.atom_in_slide,
                    !.trace_bits = Increment(@, Xor16(to % Bits16, t.pre_basic_block)),
                    !.pre_basic_block = to \div 2,
                    !.hash = IF bb_mode THEN @ ELSE 0,
                    !.atom_in_slide = 1, !.branch_flag = FALSE, !.IRQ_addr = Zero]
  BY DEF count_branch
<1> HIDE DEF d, to, l
<1>3. /\ DOMAIN d = DOMAIN t /\ d.overflow_nums = t.overflow_nums
      /\ d.address_register = t.address_register
      /\ d.entry_flag = t.entry_flag /\ d.branch_flag = FALSE
      /\ d.from_exception = t.from_exception /\ d.IRQ_addr = Zero
      /\ d.atom_in_slide = 1
      /\ d.branch_nums = t.branch_nums + t.atom_in_slide
  BY <1>2 DEF Tracer, Started
<1>4. /\ d.hash = IF bb_mode THEN t.hash ELSE 0
      /\ d.pre_basic_block = to \div 2
      /\ d.trace_bits = Increment(t.trace_bits, Xor16(to % Bits16, t.pre_basic_block))
  BY <1>2 DEF Tracer, Started
<1>5. d.hash = 0
  BY <1>4 DEF Tracer
<1>6. Tracer(d)
  <2>1. d.branch_flag \in BOOLEAN
    BY <1>3
  <2>2. d.atom_in_slide \in Nat
    BY <1>3
  <2> QED BY <1>3, <1>5, <2>1, <2>2 DEF Tracer
<1> QED BY <1>1, <1>3, <1>4, <1>5, <1>6 DEF d, l

\* What becomes of an address: where an exception struck, or of no interest, or the
\* return from the exception, or an edge.
LEMMA Entering ==
  ASSUME NEW t, Tracer(t), NEW a
  PROVE  LET e == Entered(t, a)
         IN /\ Tracer(e) /\ e.entry_flag = (t.entry_flag \/ a = Main)
            /\ e.overflow_nums = t.overflow_nums
            /\ e.address_register = t.address_register
            /\ e.branch_flag = t.branch_flag /\ e.from_exception = t.from_exception
            /\ e.IRQ_addr = t.IRQ_addr /\ Count(e) = EnteredCount(Count(t), a)
<1> SUFFICES ASSUME NEW e, e = Entered(t, a)
             PROVE  /\ Tracer(e) /\ e.entry_flag = (t.entry_flag \/ a = Main)
                    /\ e.overflow_nums = t.overflow_nums
                    /\ e.address_register = t.address_register
                    /\ e.branch_flag = t.branch_flag /\ e.from_exception = t.from_exception
                    /\ e.IRQ_addr = t.IRQ_addr /\ Count(e) = EnteredCount(Count(t), a)
  OBVIOUS
<1>1. /\ DOMAIN e = DOMAIN t /\ e.entry_flag = (t.entry_flag \/ a = Main)
      /\ e.overflow_nums = t.overflow_nums
      /\ e.address_register = t.address_register
      /\ e.branch_flag = t.branch_flag /\ e.from_exception = t.from_exception
      /\ e.IRQ_addr = t.IRQ_addr /\ e.atom_in_slide = t.atom_in_slide
      /\ e.hash = t.hash /\ e.branch_nums = t.branch_nums
      /\ e.trace_bits = t.trace_bits /\ e.pre_basic_block = t.pre_basic_block
  BY DEF Tracer, Started, Entered
<1>2. Tracer(e)
  BY <1>1 DEF Tracer
<1>3. Count(e) = EnteredCount(Count(t), a)
  BY <1>1 DEF Count, EnteredCount
<1> QED BY <1>1, <1>2, <1>3

LEMMA Striking ==
  ASSUME NEW t, Tracer(t), NEW a
  PROVE  LET e == StruckAt(t, a)
         IN /\ Tracer(e) /\ Count(e) = Count(t) /\ e.overflow_nums = t.overflow_nums
            /\ e.address_register = t.address_register
            /\ e.from_exception = t.from_exception /\ e.IRQ_addr = a
<1> SUFFICES ASSUME NEW e, e = StruckAt(t, a)
             PROVE  /\ Tracer(e) /\ Count(e) = Count(t) /\ e.overflow_nums = t.overflow_nums
                    /\ e.address_register = t.address_register
                    /\ e.from_exception = t.from_exception /\ e.IRQ_addr = a
  OBVIOUS
<1>1. /\ DOMAIN e = DOMAIN t /\ e.entry_flag = t.entry_flag /\ e.IRQ_addr = a
      /\ e.overflow_nums = t.overflow_nums
      /\ e.address_register = t.address_register
      /\ e.branch_flag = t.branch_flag /\ e.from_exception = t.from_exception
      /\ e.atom_in_slide = t.atom_in_slide
      /\ e.hash = t.hash /\ e.branch_nums = t.branch_nums
      /\ e.trace_bits = t.trace_bits /\ e.pre_basic_block = t.pre_basic_block
  BY DEF Tracer, Started, StruckAt
<1> QED BY <1>1 DEF Tracer, Count

LEMMA Returning ==
  ASSUME NEW t, Tracer(t)
  PROVE  LET e == Returned(t)
         IN /\ Tracer(e) /\ Count(e) = Count(t) /\ e.overflow_nums = t.overflow_nums
            /\ e.address_register = t.address_register
            /\ e.from_exception = FALSE /\ e.IRQ_addr = Zero
<1> SUFFICES ASSUME NEW e, e = Returned(t)
             PROVE  /\ Tracer(e) /\ Count(e) = Count(t) /\ e.overflow_nums = t.overflow_nums
                    /\ e.address_register = t.address_register
                    /\ e.from_exception = FALSE /\ e.IRQ_addr = Zero
  OBVIOUS
<1>1. /\ DOMAIN e = DOMAIN t /\ e.entry_flag = t.entry_flag /\ e.IRQ_addr = Zero
      /\ e.overflow_nums = t.overflow_nums
      /\ e.address_register = t.address_register
      /\ e.branch_flag = t.branch_flag /\ e.from_exception = FALSE
      /\ e.atom_in_slide = t.atom_in_slide
      /\ e.hash = t.hash /\ e.branch_nums = t.branch_nums
      /\ e.trace_bits = t.trace_bits /\ e.pre_basic_block = t.pre_basic_block
  BY DEF Tracer, Started, Returned
<1>2. e.from_exception \in BOOLEAN
  BY <1>1
<1> QED BY <1>1, <1>2 DEF Tracer, Count

LEMMA AddressCases ==
  ASSUME NEW t, Tracer(t), NEW a
  PROVE  /\ Strikes(t) => tracer_address(t, a) = StruckAt(Entered(t, a), a)
         /\ ~Strikes(t) /\ ~Edge(t, a) => tracer_address(t, a) = Entered(t, a)
         /\ ~Strikes(t) /\ Edge(t, a) /\ Returns(t, a) =>
              tracer_address(t, a) = Returned(Entered(t, a))
         /\ ~Strikes(t) /\ Edge(t, a) /\ ~Returns(t, a) =>
              tracer_address(t, a) = count_branch(Entered(t, a), a)
<1> DEFINE e == Entered(t, a)
<1>1. /\ e.entry_flag = (t.entry_flag \/ a = Main)
      /\ e.branch_flag = t.branch_flag /\ e.from_exception = t.from_exception
      /\ e.IRQ_addr = t.IRQ_addr
  BY Entering
<1>2. tracer_address(t, a) =
        IF e.from_exception /\ e.IRQ_addr = Zero THEN StruckAt(e, a)
        ELSE IF ~(e.entry_flag /\ e.branch_flag /\ InText(a)) THEN e
        ELSE IF e.from_exception /\ e.IRQ_addr = a THEN Returned(e)
        ELSE count_branch(e, a)
  BY DEF tracer_address, Entered, StruckAt, Returned
<1> HIDE DEF e
<1> QED BY <1>1, <1>2 DEF e, Strikes, Edge, Returns

\* An address that no exception lies before is an arrival.
LEMMA ArrivalCounted ==
  ASSUME NEW t, Tracer(t), NEW a, ~(t.from_exception /\ t.branch_flag)
  PROVE  Count(tracer_address(t, a)) = Abs!Arrive(Count(t), a)
<1> DEFINE e == Entered(t, a)
           ec == EnteredCount(Count(t), a)
           l == Abs!Location(ec, a)
<1>1. /\ Tracer(e) /\ Count(e) = ec /\ Edge(t, a) = (e.entry_flag /\ e.branch_flag /\ InText(a))
  <2>1. Tracer(e) /\ Count(e) = ec
    BY Entering
  <2>2. e.entry_flag = (t.entry_flag \/ a = Main) /\ e.branch_flag = t.branch_flag
    BY Entering
  <2> HIDE DEF e, ec
  <2> QED BY <2>1, <2>2 DEF Edge
<1>2. /\ ec.entered = e.entry_flag /\ ec.taken = e.branch_flag
      /\ ec.since = e.atom_in_slide /\ ec.path = e.hash /\ ec.last = e.pre_basic_block
      /\ ec.branches = e.branch_nums /\ ec.map = e.trace_bits
  BY <1>1 DEF Count
<1>3. /\ Count(t).since = ec.since /\ Count(t).path = ec.path /\ Count(t).last = ec.last
  BY DEF Count, EnteredCount
<1>4. Abs!Location(Count(t), a) = l
  BY <1>3 DEF Abs!Location
<1>5. Abs!Arrive(Count(t), a) =
        IF ~(ec.entered /\ ec.taken /\ InText(a)) THEN ec
        ELSE [ec EXCEPT !.taken = FALSE, !.since = 1, !.path = 0,
                        !.last = l \div 2, !.branches = @ + Count(t).since,
                        !.map = Increment(@, Xor16(l % Bits16, Count(t).last))]
  BY <1>4, SameNumbers DEF Abs!Arrive, EnteredCount
<1>6. CASE ~Edge(t, a)
  <2>1. Count(tracer_address(t, a)) = Count(e)
    BY <1>1, <1>6, AddressCases, Striking
  <2>2. Abs!Arrive(Count(t), a) = ec
    BY <1>1, <1>2, <1>5, <1>6
  <2> QED BY <1>1, <2>1, <2>2
<1>7. CASE Edge(t, a)
  <2> DEFINE b == count_branch(e, a)
             m == Increment(e.trace_bits, Xor16(l % Bits16, e.pre_basic_block))
  <2>1. /\ b.entry_flag = e.entry_flag /\ b.branch_flag = FALSE
        /\ b.atom_in_slide = 1 /\ b.hash = 0
        /\ b.branch_nums = e.branch_nums + e.atom_in_slide
        /\ b.pre_basic_block = Abs!Location(Count(e), a) \div 2
        /\ b.trace_bits = Increment(e.trace_bits,
             Xor16(Abs!Location(Count(e), a) % Bits16, e.pre_basic_block))
    BY <1>1, CountBranchFields
  <2>2. b.pre_basic_block = l \div 2 /\ b.trace_bits = m
    BY <1>1, <2>1
  <2>3. Abs!Arrive(Count(t), a) =
          [ec EXCEPT !.taken = FALSE, !.since = 1, !.path = 0,
                     !.last = l \div 2, !.branches = e.branch_nums + e.atom_in_slide,
                     !.map = m]
    BY <1>1, <1>2, <1>3, <1>5, <1>7, ZenonT(60)
  <2>4. tracer_address(t, a) = b
    <3>1. t.branch_flag /\ ~t.from_exception
      BY <1>7 DEF Edge
    <3> QED BY <1>7, <3>1, AddressCases DEF Strikes, Returns
  <2> HIDE DEF b, l, m
  <2>5. [ec EXCEPT !.taken = FALSE, !.since = 1, !.path = 0,
                   !.last = l \div 2, !.branches = e.branch_nums + e.atom_in_slide,
                   !.map = m]
          = [entered |-> ec.entered, taken |-> FALSE, since |-> 1, path |-> 0,
             last |-> l \div 2, branches |-> e.branch_nums + e.atom_in_slide, map |-> m]
    <3>1. /\ DOMAIN ec = {"entered", "taken", "since", "path", "last", "branches", "map"}
          /\ ec = [x \in DOMAIN ec |-> ec[x]]
      BY DEF Count, EnteredCount
    <3> HIDE DEF ec
    <3> DEFINE z == [ec EXCEPT !.taken = FALSE, !.since = 1, !.path = 0,
                               !.last = l \div 2, !.branches = e.branch_nums + e.atom_in_slide,
                               !.map = m]
    <3>2. /\ DOMAIN z = {"entered", "taken", "since", "path", "last", "branches", "map"}
          /\ z = [x \in DOMAIN z |-> z[x]]
      BY <3>1
    <3>3. /\ z.entered = ec.entered /\ z.taken = FALSE /\ z.since = 1 /\ z.path = 0
          /\ z.last = l \div 2 /\ z.branches = e.branch_nums + e.atom_in_slide
          /\ z.map = m
      BY <3>1
    <3> HIDE DEF z
    <3>4. z = [entered |-> z.entered, taken |-> z.taken, since |-> z.since, path |-> z.path,
               last |-> z.last, branches |-> z.branches, map |-> z.map]
      BY <3>2
    <3> QED BY <3>3, <3>4 DEF z
  <2>6. Count(b) = [entered |-> e.entry_flag, taken |-> FALSE, since |-> 1, path |-> 0,
             last |-> l \div 2, branches |-> e.branch_nums + e.atom_in_slide, map |-> m]
    BY <2>1, <2>2 DEF Count
  <2> QED BY <1>2, <2>3, <2>4, <2>5, <2>6
<1> QED BY <1>6, <1>7

LEMMA AddressKeeps ==
  ASSUME NEW t, Tracer(t), NEW a
  PROVE  LET d == tracer_address(t, a)
         IN /\ Tracer(d) /\ d.overflow_nums = t.overflow_nums
            /\ d.address_register = t.address_register
            /\ d.entry_flag = (t.entry_flag \/ a = Main)
<1> DEFINE e == Entered(t, a)
           d == tracer_address(t, a)
<1>1. /\ Tracer(e) /\ e.entry_flag = (t.entry_flag \/ a = Main)
      /\ e.overflow_nums = t.overflow_nums /\ e.address_register = t.address_register
  BY Entering
<1>2. d = e \/ d = StruckAt(e, a) \/ d = Returned(e) \/ d = count_branch(e, a)
  BY AddressCases
<1> HIDE DEF e, d
<1>3. \A x : Count(x) = Count(e) => x.entry_flag = e.entry_flag
  <2>1. \A x : Count(x).entered = x.entry_flag
    BY DEF Count
  <2> QED BY <2>1
<1>4. CASE d = StruckAt(e, a)
  BY <1>1, <1>3, <1>4, Striking DEF d
<1>5. CASE d = Returned(e)
  BY <1>1, <1>3, <1>5, Returning DEF d
<1>6. CASE d = count_branch(e, a)
  <2> DEFINE b == count_branch(e, a)
  <2>1. /\ b.overflow_nums = e.overflow_nums /\ b.address_register = e.address_register
        /\ b.entry_flag = e.entry_flag
    BY <1>1, CountBranchFields
  <2>2. Tracer(b)
    BY <1>1, CountBranchFields
  <2> QED BY <1>1, <1>6, <2>1, <2>2 DEF d
<1> QED BY <1>1, <1>2, <1>4, <1>5, <1>6 DEF d

\* After an exception an address is silent if it is where the exception struck, the
\* return from it, or no edge.
LEMMA SilentAddress ==
  ASSUME NEW t, Tracer(t), t.from_exception, NEW a,
         t.entry_flag \/ a # Main,
         t.IRQ_addr \in {Zero, a} \/ ~t.branch_flag \/ ~InText(a)
  PROVE  LET d == tracer_address(t, a)
         IN /\ Count(d) = Count(t)
            /\ t.IRQ_addr = Zero => d.from_exception /\ d.IRQ_addr = a
            /\ t.IRQ_addr # Zero =>
                 \/ d.from_exception /\ d.IRQ_addr = t.IRQ_addr /\ ~Edge(t, a)
                 \/ ~d.from_exception /\ d.IRQ_addr = Zero
                    /\ t.IRQ_addr = a /\ Edge(t, a)
<1> DEFINE e == Entered(t, a)
           d == tracer_address(t, a)
<1>1. t.entry_flag = (t.entry_flag \/ a = Main)
  BY DEF Tracer
<1>2. /\ Tracer(e) /\ e.from_exception = t.from_exception /\ e.IRQ_addr = t.IRQ_addr
      /\ Count(e) = EnteredCount(Count(t), a)
  <2>1. Tracer(e)
    BY Entering
  <2>2. e.from_exception = t.from_exception /\ e.IRQ_addr = t.IRQ_addr
    BY Entering
  <2>3. Count(e) = EnteredCount(Count(t), a)
    BY Entering
  <2> QED BY <2>1, <2>2, <2>3
<1>3. Count(e) = Count(t)
  BY <1>1, <1>2 DEF Count, EnteredCount
<1>4. \/ t.IRQ_addr = Zero /\ d = StruckAt(e, a)
      \/ t.IRQ_addr # Zero /\ d = e /\ ~Edge(t, a)
      \/ t.IRQ_addr # Zero /\ t.IRQ_addr = a /\ Edge(t, a) /\ d = Returned(e)
  BY AddressCases DEF Strikes, Returns, Edge
<1> HIDE DEF e, d
<1>5. CASE t.IRQ_addr = Zero /\ d = StruckAt(e, a)
  <2>1. /\ Count(StruckAt(e, a)) = Count(e) /\ StruckAt(e, a).IRQ_addr = a
        /\ StruckAt(e, a).from_exception = e.from_exception
    BY <1>2, Striking
  <2> QED BY <1>2, <1>3, <1>5, <2>1 DEF d
<1>6. CASE t.IRQ_addr # Zero /\ d = e /\ ~Edge(t, a)
  BY <1>2, <1>3, <1>6 DEF d
<1>7. CASE t.IRQ_addr # Zero /\ t.IRQ_addr = a /\ Edge(t, a) /\ d = Returned(e)
  BY <1>2, <1>3, <1>7, Returning DEF d
<1> QED BY <1>4, <1>5, <1>6, <1>7

-----------------------------------------------------------------------------
(* What the trace unit encodes the decoder decodes.                         *)

\* The bits of an instruction address, as the bytes of a packet take them.
LEMMA LoDigits ==
  ASSUME NEW lo \in Nat, lo < 131072, lo % 4 = 0
  PROVE  \E x, b, c \in Nat :
           /\ x < 128 /\ b < 128 /\ c < 2
           /\ lo = 4 * x + 512 * b + 65536 * c
           /\ (lo % 512) \div 4 = x /\ lo \div 512 = b + 128 * c /\ lo \div 65536 = c
<1> DEFINE q == lo \div 512
           r == lo % 512
           x == r \div 4
           b == q % 128
           c == q \div 128
<1>1. q \in Nat /\ r \in Nat /\ q < 256 /\ r < 512 /\ lo = 512 * q + r
  OBVIOUS
<1>2. lo \div 65536 = q \div 128
  OBVIOUS
<1> HIDE DEF q, r
<1>3. r % 4 = 0
  BY <1>1
<1>4. x \in Nat /\ x < 128 /\ r = 4 * x
  BY <1>1, <1>3
<1>5. b \in Nat /\ c \in Nat /\ b < 128 /\ c < 2 /\ q = b + 128 * c
  BY <1>1
<1> HIDE DEF x, b, c
<1>6. lo = 4 * x + 512 * b + 65536 * c
  BY <1>1, <1>4, <1>5
<1>7. (lo % 512) \div 4 = x /\ lo \div 512 = b + 128 * c /\ lo \div 65536 = c
  BY <1>2, <1>5 DEF q, r, x, c
<1> QED BY <1>4, <1>5, <1>6, <1>7

LEMMA Digits ==
  ASSUME NEW lo \in Nat, lo < 131072, lo % 4 = 0, NEW mid \in Nat, mid < 32768,
         NEW hi \in Nat, hi < 16777216
  PROVE  LET p2 == (lo % 512) \div 4
             p3 == (lo \div 512) % 128
             p4 == (lo \div 65536) + 2 * (mid % 128)
         IN /\ p2 \in Nat /\ p2 < 128
            /\ ((p2 % 128) * 4) + ((p3 % 128) * 512) + ((p4 % 2) * 65536) = lo
            /\ (p4 \div 2) + (mid \div 128) * 128 = mid
            /\ (hi % 256) + ((hi \div 256) % 256) * 256 + (hi \div 65536) * 65536
                 + 0 * 256 * 65536 = hi
            /\ ((p2 % 128) * 4) + (lo \div 512) * 512 = lo
            /\ (((128 + p2) % 128) * 4) + (lo \div 512) * 512 = lo
            /\ p3 \in Nat /\ p4 \in Nat
<1>1. PICK x, b, c \in Nat :
           /\ x < 128 /\ b < 128 /\ c < 2
           /\ lo = 4 * x + 512 * b + 65536 * c
           /\ (lo % 512) \div 4 = x /\ lo \div 512 = b + 128 * c /\ lo \div 65536 = c
  BY LoDigits
<1> DEFINE y == mid % 128
           z == mid \div 128
<1>2. y \in Nat /\ z \in Nat /\ y < 128 /\ mid = y + 128 * z
  OBVIOUS
<1>3. (hi % 256) + ((hi \div 256) % 256) * 256 + (hi \div 65536) * 65536 + 0 * 256 * 65536 = hi
  OBVIOUS
<1> HIDE DEF y, z
<1>4. (b + 128 * c) % 128 = b /\ b % 128 = b /\ x % 128 = x /\ (128 + x) % 128 = x
  BY <1>1
<1>5. (c + 2 * y) % 2 = c /\ (c + 2 * y) \div 2 = y
  BY <1>1, <1>2
<1>6. /\ (((lo % 512) \div 4) % 128) * 4 = 4 * x
      /\ (((lo \div 512) % 128) % 128) * 512 = 512 * b
      /\ (((lo \div 65536) + 2 * y) % 2) * 65536 = 65536 * c
      /\ ((128 + (lo % 512) \div 4) % 128) * 4 = 4 * x
      /\ (lo \div 512) * 512 = 512 * b + 65536 * c
      /\ ((lo \div 65536) + 2 * y) \div 2 = y
      /\ (lo \div 512) % 128 \in Nat /\ (lo \div 65536) + 2 * y \in Nat
  BY <1>1, <1>2, <1>4, <1>5
<1> QED BY <1>1, <1>2, <1>3, <1>6 DEF y, z

LEMMA InRecords ==
  ASSUME NEW L, NEW M, NEW H, NEW a \in [lo : L, mid : M, hi : H]
  PROVE a = [lo |-> a.lo, mid |-> a.mid, hi |-> a.hi] /\ a.lo \in L /\ a.mid \in M /\ a.hi \in H
OBVIOUS

LEMMA AddressFields ==
  ASSUME NEW a \in Address
  PROVE  /\ a = [lo |-> a.lo, mid |-> a.mid, hi |-> a.hi]
         /\ a.lo \in Nat /\ a.lo < 131072 /\ a.lo % 4 = 0
         /\ a.mid \in Nat /\ a.mid < 32768 /\ a.hi \in Nat /\ a.hi < 16777216
<1> DEFINE Lo == {n \in 0..Bits17 - 1 : n % 4 = 0}
           Mid == 0..32767
           Hi == 0..Bits16 * 256 - 1
<1>1. Address = [lo : Lo, mid : Mid, hi : Hi]
  BY SMTT(30) DEF Address
<1>2. \A n \in Mid : n \in Nat /\ n < 32768
  OBVIOUS
<1>3. ASSUME NEW n \in Hi, NEW k \in Nat, Bits16 * 256 = k
      PROVE n \in Nat /\ n < k
  BY <1>3
<1>4. Bits16 * 256 = 16777216
  BY DEF Bits16
<1>5. ASSUME NEW n \in Lo, NEW k \in Nat, Bits17 = k
      PROVE n \in Nat /\ n < k /\ n % 4 = 0
  BY <1>5
<1>6. Bits17 = 131072
  BY DEF Bits17
<1> HIDE DEF Lo, Mid, Hi
<1>7. a = [lo |-> a.lo, mid |-> a.mid, hi |-> a.hi] /\ a.lo \in Lo /\ a.mid \in Mid /\ a.hi \in Hi
  BY <1>1, InRecords
<1>8. 131072 \in Nat /\ 16777216 \in Nat
  OBVIOUS
<1> QED BY <1>2, <1>3, <1>4, <1>5, <1>6, <1>7, <1>8, SMTT(30)

LEMMA ZeroIsAddress == Zero \in Address
<1> DEFINE Lo == {n \in 0..Bits17 - 1 : n % 4 = 0}
           Mid == 0..32767
           Hi == 0..Bits16 * 256 - 1
<1>1. Address = [lo : Lo, mid : Mid, hi : Hi]
  BY DEF Address
<1>2. Bits17 \in Nat \ {0} /\ Bits16 * 256 \in Nat \ {0}
  BY DEF Bits17, Bits16
<1>3. ASSUME NEW k \in Nat \ {0}
      PROVE  0 \in 0..k - 1
  OBVIOUS
<1>4. 0 \in Lo /\ 0 \in Hi
  <2>1. 0 \in 0..Bits17 - 1 /\ 0 \in Hi
    BY <1>2, <1>3
  <2>2. 0 % 4 = 0
    OBVIOUS
  <2> QED BY <2>1, <2>2
<1>5. 0 \in Mid
  OBVIOUS
<1> HIDE DEF Lo, Mid, Hi
<1> QED BY <1>1, <1>4, <1>5 DEF Zero

\* The bytes of p are those of the address a.
Bytes32(p, a) ==
  /\ ((p[2] % 128) * 4) + ((p[3] % 128) * 512) + ((p[4] % 2) * Bits16) = a.lo
  /\ (p[4] \div 2) + p[5] * 128 = a.mid
Bytes64(p, a) ==
  Bytes32(p, a) /\ p[6] + p[7] * 256 + p[8] * Bits16 + p[9] * 256 * Bits16 = a.hi

LEMMA Concatenated ==
  ASSUME NEW s \in Seq(Int), NEW t \in Seq(Int)
  PROVE  /\ s \o t \in Seq(Int) /\ Len(s \o t) = Len(s) + Len(t)
         /\ \A i \in 1..Len(s) + Len(t) :
              (s \o t)[i] = IF i <= Len(s) THEN s[i] ELSE t[i - Len(s)]
BY ConcatProperties

LEMMA LongAddresses ==
  ASSUME NEW a \in Address, NEW c \in Int
  PROVE  /\ Long32(c, a) \in Seq(Int) /\ Len(Long32(c, a)) = 5 /\ Long32(c, a)[1] = c
         /\ Bytes32(Long32(c, a), a)
         /\ Long64(c, a) \in Seq(Int) /\ Len(Long64(c, a)) = 9 /\ Long64(c, a)[1] = c
         /\ Bytes64(Long64(c, a), a)
<1> DEFINE p2 == (a.lo % 512) \div 4
           p3 == (a.lo \div 512) % 128
           p4 == (a.lo \div 65536) + 2 * (a.mid % 128)
           p5 == a.mid \div 128
           p6 == a.hi % 256
           p7 == (a.hi \div 256) % 256
           p8 == a.hi \div 65536
           s == <<c, p2, p3, p4, p5>>
           r == <<p6, p7, p8, 0>>
<1>1. Long32(c, a) = s /\ Long64(c, a) = s \o r
  BY DEF Long64, Long32, Bits16
<1>2. /\ p2 \in Nat /\ ((p2 % 128) * 4) + ((p3 % 128) * 512) + ((p4 % 2) * 65536) = a.lo
      /\ (p4 \div 2) + p5 * 128 = a.mid
      /\ p6 + p7 * 256 + p8 * 65536 + 0 * 256 * 65536 = a.hi
      /\ p3 \in Nat /\ p4 \in Nat
  BY AddressFields, Digits
<1>3. p5 \in Int /\ p6 \in Int /\ p7 \in Int /\ p8 \in Int
  BY AddressFields
<1> HIDE DEF p2, p3, p4, p5, p6, p7, p8
<1>4. /\ s \in Seq(Int) /\ Len(s) = 5 /\ s[1] = c /\ s[2] = p2 /\ s[3] = p3 /\ s[4] = p4
      /\ s[5] = p5
  BY <1>2, <1>3
<1>5. /\ r \in Seq(Int) /\ Len(r) = 4 /\ r[1] = p6 /\ r[2] = p7 /\ r[3] = p8 /\ r[4] = 0
  BY <1>3
<1> HIDE DEF s, r
<1> DEFINE u == s \o r
<1>6. u \in Seq(Int) /\ Len(u) = 9 /\ \A i \in 1..9 : u[i] = IF i <= 5 THEN s[i] ELSE r[i - 5]
  <2>1. s \in Seq(Int) /\ Len(s) = 5 /\ r \in Seq(Int) /\ Len(r) = 4
    BY <1>4, <1>5
  <2>2. /\ u \in Seq(Int) /\ Len(u) = Len(s) + Len(r)
        /\ \A i \in 1..Len(s) + Len(r) : u[i] = IF i <= Len(s) THEN s[i] ELSE r[i - Len(s)]
    BY <2>1, Concatenated
  <2> HIDE DEF u
  <2>3. Len(s) + Len(r) = 9
    BY <2>1
  <2> QED BY <2>1, <2>2, <2>3
<1> HIDE DEF u
<1>7. /\ u[1] = c /\ u[2] = p2 /\ u[3] = p3 /\ u[4] = p4 /\ u[5] = p5
      /\ u[6] = p6 /\ u[7] = p7 /\ u[8] = p8 /\ u[9] = 0
  BY <1>4, <1>5, <1>6
<1>8. Bytes32(s, a) /\ Bytes64(u, a)
  BY <1>2, <1>4, <1>7 DEF Bytes32, Bytes64, Bits16
<1> QED BY <1>1, <1>4, <1>6, <1>7, <1>8 DEF u

\* The packet p is decoded as the address a.
Decodes(t, p, a) ==
  /\ p \in Seq(Int) /\ Len(p) > 0 /\ IsAddress(p[1])
  /\ decode_address(t, p) = [tracer |-> tracer_address(update_address_regs(t, a), a),
                             len |-> Len(p)]

LEMMA DecodedForms ==
  ASSUME NEW t, NEW p, NEW a
  PROVE  LET d(n) == [tracer |-> tracer_address(update_address_regs(t, a), a), len |-> n]
             r == t.address_register[1]
         IN /\ p[1] \in 144..146 /\ t.address_register[p[1] - 143] = a =>
                 decode_address(t, p) = d(1)
            /\ p[1] = 149 /\ short_address(r, p) = a =>
                 decode_address(t, p) = d(IF p[2] >= 128 THEN 3 ELSE 2)
            /\ p[1] = 154 /\ long_address_32bit(r, p) = a => decode_address(t, p) = d(5)
            /\ p[1] = 157 /\ long_address_64bit(r, p) = a => decode_address(t, p) = d(9)
            /\ p[1] = 130 /\ long_address_32bit(r, p) = a =>
                 decode_address(t, p) = d(5 + context_len(p, 6))
            /\ p[1] = 133 /\ long_address_64bit(r, p) = a =>
                 decode_address(t, p) = d(9 + context_len(p, 10))
<1> DEFINE d(n) == [tracer |-> tracer_address(update_address_regs(t, a), a), len |-> n]
           r == t.address_register[1]
<1>1. ASSUME p[1] \in 144..146, t.address_register[p[1] - 143] = a
      PROVE  decode_address(t, p) = d(1)
  <2>1. CASE p[1] = 144
    BY <1>1, <2>1 DEF decode_address
  <2>2. CASE p[1] = 145
    BY <1>1, <2>2 DEF decode_address
  <2>3. CASE p[1] = 146
    BY <1>1, <2>3 DEF decode_address
  <2> QED BY <1>1, <2>1, <2>2, <2>3
<1>2. ASSUME p[1] = 149, short_address(r, p) = a
      PROVE  decode_address(t, p) = d(IF p[2] >= 128 THEN 3 ELSE 2)
  BY <1>2 DEF decode_address
<1>3. ASSUME p[1] = 154, long_address_32bit(r, p) = a
      PROVE  decode_address(t, p) = d(5)
  BY <1>3 DEF decode_address
<1>4. ASSUME p[1] = 157, long_address_64bit(r, p) = a
      PROVE  decode_address(t, p) = d(9)
  BY <1>4 DEF decode_address
<1>5. ASSUME p[1] = 130, long_address_32bit(r, p) = a
      PROVE  decode_address(t, p) = d(5 + context_len(p, 6))
  BY <1>5 DEF decode_address
<1>6. ASSUME p[1] = 133, long_address_64bit(r, p) = a
      PROVE  decode_address(t, p) = d(9 + context_len(p, 10))
  BY <1>6 DEF decode_address
<1> HIDE DEF d
<1> QED BY <1>1, <1>2, <1>3, <1>4, <1>5, <1>6 DEF d

LEMMA LongDecoded ==
  ASSUME NEW a \in Address, NEW r \in Address, NEW p
  PROVE  /\ Bytes64(p, a) => long_address_64bit(r, p) = a
         /\ Bytes32(p, a) /\ r.hi = a.hi => long_address_32bit(r, p) = a
<1> DEFINE l == long_address_32bit(r, p)
<1>1. /\ a = [lo |-> a.lo, mid |-> a.mid, hi |-> a.hi]
      /\ r = [lo |-> r.lo, mid |-> r.mid, hi |-> r.hi]
  BY AddressFields
<1>2. Bytes32(p, a) => l = [lo |-> a.lo, mid |-> a.mid, hi |-> r.hi]
  <2> DEFINE z == [r EXCEPT !.lo = a.lo, !.mid = a.mid]
  <2>1. Bytes32(p, a) => l = z
    BY DEF Bytes32, long_address_32bit
  <2>2. DOMAIN r = {"lo", "mid", "hi"}
    BY <1>1
  <2>3. /\ DOMAIN z = {"lo", "mid", "hi"} /\ z = [x \in DOMAIN z |-> z[x]]
        /\ z.lo = a.lo /\ z.mid = a.mid /\ z.hi = r.hi
    BY <2>2
  <2> HIDE DEF z, l
  <2>4. z = [lo |-> z.lo, mid |-> z.mid, hi |-> z.hi]
    BY <2>3
  <2> QED BY <2>1, <2>3, <2>4
<1>3. Bytes64(p, a) => long_address_64bit(r, p) = [l EXCEPT !.hi = a.hi] /\ Bytes32(p, a)
  BY DEF Bytes64, long_address_64bit
<1> HIDE DEF l
<1> QED BY <1>1, <1>2, <1>3 DEF l

LEMMA ShortDecoded ==
  ASSUME NEW a \in Address, NEW r \in Address, a.hi = r.hi, a.mid = r.mid, NEW p,
         \/ p = <<149, 128 + ((a.lo % 512) \div 4), a.lo \div 512>>
         \/ p = <<149, (a.lo % 512) \div 4>> /\ a.lo \div 512 = r.lo \div 512
  PROVE  /\ short_address(r, p) = a /\ p \in Seq(Int) /\ p[1] = 149
         /\ Len(p) = IF p[2] >= 128 THEN 3 ELSE 2
<1> DEFINE x == (a.lo % 512) \div 4
           y == a.lo \div 512
           lo == ((p[2] % 128) * 4) + (IF p[2] >= 128 THEN p[3] * 512 ELSE 512 * (r.lo \div 512))
<1>1. /\ x \in Nat /\ x < 128 /\ y \in Int /\ r.lo \div 512 \in Int
      /\ ((x % 128) * 4) + y * 512 = a.lo /\ (((128 + x) % 128) * 4) + y * 512 = a.lo
  BY AddressFields, Digits
<1> HIDE DEF x, y
<1>2. /\ p \in Seq(Int) /\ p[1] = 149 /\ Len(p) = IF p[2] >= 128 THEN 3 ELSE 2
      /\ lo = a.lo
  <2>1. CASE p = <<149, 128 + x, y>>
    <3>1. p \in Seq(Int) /\ p[1] = 149 /\ Len(p) = 3 /\ p[2] = 128 + x /\ p[3] = y /\ p[2] >= 128
      BY <1>1, <2>1
    <3>2. lo = ((p[2] % 128) * 4) + p[3] * 512
      BY <3>1
    <3> HIDE DEF lo
    <3> QED BY <1>1, <3>1, <3>2
  <2>2. CASE p = <<149, x>> /\ y = r.lo \div 512
    <3>1. p \in Seq(Int) /\ p[1] = 149 /\ Len(p) = 2 /\ p[2] = x /\ ~(p[2] >= 128)
      BY <1>1, <2>2
    <3>2. lo = ((p[2] % 128) * 4) + 512 * (r.lo \div 512)
      BY <3>1
    <3> HIDE DEF lo
    <3> QED BY <1>1, <2>2, <3>1, <3>2
  <2> QED BY <2>1, <2>2 DEF x, y
<1>3. short_address(r, p) = [r EXCEPT !.lo = lo]
  BY DEF short_address
<1> HIDE DEF lo
<1>4. [r EXCEPT !.lo = a.lo] = a
  BY AddressFields
<1> QED BY <1>2, <1>3, <1>4

LEMMA ContextLength ==
  ASSUME NEW s \in Seq(Int)
  PROVE  LET p == s \o Context
         IN /\ p \in Seq(Int) /\ Len(p) = Len(s) + 5 /\ context_len(p, Len(s) + 1) = 5
            /\ \A i \in 1..Len(s) : p[i] = s[i]
<1> DEFINE p == s \o Context
<1>1. Context \in Seq(Int) /\ Len(Context) = 5 /\ Context[1] = 144
  BY DEF Context
<1>2. /\ p \in Seq(Int) /\ Len(p) = Len(s) + Len(Context)
      /\ \A i \in 1..Len(s) + Len(Context) :
           p[i] = IF i <= Len(s) THEN s[i] ELSE Context[i - Len(s)]
  BY <1>1, Concatenated, ZenonT(60)
<1> HIDE DEF p
<1>3. Len(s) \in Nat
  OBVIOUS
<1>4. p[Len(s) + 1] = 144 /\ \A i \in 1..Len(s) : p[i] = s[i]
  <2>1. \A i \in 1..Len(s) : i \in 1..Len(s) + Len(Context) /\ i <= Len(s)
    BY <1>1, <1>3
  <2>2. p[Len(s) + 1] = Context[1]
    <3>1. Len(s) + 1 \in 1..Len(s) + Len(Context) /\ ~(Len(s) + 1 <= Len(s))
          /\ Len(s) + 1 - Len(s) = 1
      BY <1>1, <1>3
    <3> QED BY <1>2, <3>1
  <2> QED BY <1>1, <1>2, <2>1, <2>2
<1>5. context_len(p, Len(s) + 1) = 5
  BY <1>4 DEF context_len
<1> QED BY <1>1, <1>2, <1>4, <1>5 DEF p

LEMMA ContextForms ==
  ASSUME NEW a \in Address
  PROVE  /\ LET p == Long64(133, a) \o Context
            IN /\ p \in Seq(Int) /\ Len(p) = 14 /\ p[1] = 133 /\ context_len(p, 10) = 5
               /\ Bytes64(p, a)
         /\ LET p == Long32(130, a) \o Context
            IN /\ p \in Seq(Int) /\ Len(p) = 10 /\ p[1] = 130 /\ context_len(p, 6) = 5
               /\ Bytes32(p, a)
<1>1. ASSUME NEW s \in Seq(Int), Len(s) \in {5, 9}
      PROVE  LET p == s \o Context
             IN /\ p \in Seq(Int) /\ Len(p) = Len(s) + 5 /\ context_len(p, Len(s) + 1) = 5
                /\ p[1] = s[1] /\ (Bytes32(s, a) => Bytes32(p, a))
                /\ (Bytes64(s, a) /\ Len(s) = 9 => Bytes64(p, a))
  <2> DEFINE p == s \o Context
  <2>1. /\ p \in Seq(Int) /\ Len(p) = Len(s) + 5 /\ context_len(p, Len(s) + 1) = 5
        /\ \A i \in 1..Len(s) : p[i] = s[i]
    BY ContextLength
  <2> HIDE DEF p
  <2>2. p[1] = s[1] /\ p[2] = s[2] /\ p[3] = s[3] /\ p[4] = s[4] /\ p[5] = s[5]
    <3>1. /\ 1 \in 1..Len(s) /\ 2 \in 1..Len(s) /\ 3 \in 1..Len(s) /\ 4 \in 1..Len(s)
          /\ 5 \in 1..Len(s)
      <4>1. \A n \in {5, 9} : 1 \in 1..n /\ 2 \in 1..n /\ 3 \in 1..n /\ 4 \in 1..n /\ 5 \in 1..n
        OBVIOUS
      <4> QED BY <1>1, <4>1
    <3> QED BY <2>1, <3>1
  <2>3. Bytes32(s, a) => Bytes32(p, a)
    BY <2>2 DEF Bytes32
  <2>4. ASSUME Len(s) = 9
        PROVE  p[6] = s[6] /\ p[7] = s[7] /\ p[8] = s[8] /\ p[9] = s[9]
    BY <2>1, <2>4
  <2>5. Bytes64(s, a) /\ Len(s) = 9 => Bytes64(p, a)
    BY <2>3, <2>4 DEF Bytes64
  <2> QED BY <2>1, <2>2, <2>3, <2>5 DEF p
<1>2. LET p == Long64(133, a) \o Context
      IN /\ p \in Seq(Int) /\ Len(p) = 14 /\ p[1] = 133 /\ context_len(p, 10) = 5
         /\ Bytes64(p, a)
  <2>1. PICK s : s = Long64(133, a)
    OBVIOUS
  <2>2. s \in Seq(Int) /\ Len(s) = 9 /\ s[1] = 133 /\ Bytes64(s, a)
    BY <2>1, LongAddresses
  <2>3. /\ s \o Context \in Seq(Int) /\ Len(s \o Context) = Len(s) + 5
        /\ context_len(s \o Context, Len(s) + 1) = 5 /\ (s \o Context)[1] = s[1]
        /\ Bytes64(s \o Context, a)
    BY <1>1, <2>2
  <2>4. Len(s) + 5 = 14 /\ Len(s) + 1 = 10
    BY <2>2
  <2> QED BY <2>1, <2>2, <2>3, <2>4
<1>3. LET p == Long32(130, a) \o Context
      IN /\ p \in Seq(Int) /\ Len(p) = 10 /\ p[1] = 130 /\ context_len(p, 6) = 5
         /\ Bytes32(p, a)
  <2>1. PICK s : s = Long32(130, a)
    OBVIOUS
  <2>2. s \in Seq(Int) /\ Len(s) = 5 /\ s[1] = 130 /\ Bytes32(s, a)
    BY <2>1, LongAddresses
  <2>3. /\ s \o Context \in Seq(Int) /\ Len(s \o Context) = Len(s) + 5
        /\ context_len(s \o Context, Len(s) + 1) = 5 /\ (s \o Context)[1] = s[1]
        /\ Bytes32(s \o Context, a)
    BY <1>1, <2>2
  <2>4. Len(s) + 5 = 10 /\ Len(s) + 1 = 6
    BY <2>2
  <2> QED BY <2>1, <2>2, <2>3, <2>4
<1> QED BY <1>2, <1>3

\* Whatever form the trace unit chooses, it is decoded as the address it was sent for.
THEOREM EncodingDecoded ==
  ASSUME NEW a \in Address, NEW t, t.address_register \in [1..3 -> Address], NEW p,
         p \in {Encode(a, t.address_register), EncodeWithContext(a, t.address_register)}
  PROVE  Decodes(t, p, a)
<1> DEFINE regs == t.address_register
           r == regs[1]
           same == {q \in 1..3 : regs[q] = a}
<1>1. r \in Address
  OBVIOUS
<1>2. \/ same # {} /\ p = <<143 + Min(same)>>
      \/ p = Long64(157, a)
      \/ a.hi = r.hi /\ p = Long32(154, a)
      \/ /\ a.hi = r.hi /\ a.mid = r.mid
         /\ \/ p = <<149, 128 + ((a.lo % 512) \div 4), a.lo \div 512>>
            \/ p = <<149, (a.lo % 512) \div 4>> /\ a.lo \div 512 = r.lo \div 512
      \/ p = Long64(133, a) \o Context
      \/ a.hi = r.hi /\ p = Long32(130, a) \o Context
  BY DEF Encode, EncodeWithContext
<1>3. CASE same # {} /\ p = <<143 + Min(same)>>
  <2>1. \E m \in same : \A q \in same : m <= q
    <3>1. same \subseteq {1, 2, 3}
      OBVIOUS
    <3> HIDE DEF same
    <3>2. CASE 1 \in same
      BY <3>1, <3>2
    <3>3. CASE 1 \notin same /\ 2 \in same
      BY <3>1, <3>3
    <3>4. CASE same = {3}
      BY <3>4
    <3> QED BY <1>3, <3>1, <3>2, <3>3, <3>4
  <2>2. Min(same) \in same
    BY <2>1 DEF Min
  <2>3. Min(same) \in 1..3 /\ regs[Min(same)] = a
    BY <2>2
  <2> HIDE DEF same
  <2>4. p \in Seq(Int) /\ Len(p) = 1 /\ p[1] \in 144..146 /\ p[1] - 143 = Min(same)
    BY <1>3, <2>3
  <2>5. IsAddress(p[1])
    BY <2>4 DEF IsAddress
  <2> QED BY <2>3, <2>4, <2>5, DecodedForms DEF Decodes
<1>4. CASE p = Long64(157, a)
  <2>1. p \in Seq(Int) /\ Len(p) = 9 /\ p[1] = 157 /\ Bytes64(p, a)
    BY <1>4, LongAddresses
  <2>2. long_address_64bit(r, p) = a
    BY <1>1, <2>1, LongDecoded
  <2>3. IsAddress(157)
    BY DEF IsAddress
  <2> QED BY <2>1, <2>2, <2>3, DecodedForms DEF Decodes
<1>5. CASE a.hi = r.hi /\ p = Long32(154, a)
  <2>1. p \in Seq(Int) /\ Len(p) = 5 /\ p[1] = 154 /\ Bytes32(p, a)
    BY <1>5, LongAddresses
  <2>2. long_address_32bit(r, p) = a
    BY <1>1, <1>5, <2>1, LongDecoded
  <2>3. IsAddress(154)
    BY DEF IsAddress
  <2> QED BY <2>1, <2>2, <2>3, DecodedForms DEF Decodes
<1>6. CASE /\ a.hi = r.hi /\ a.mid = r.mid
           /\ \/ p = <<149, 128 + ((a.lo % 512) \div 4), a.lo \div 512>>
              \/ p = <<149, (a.lo % 512) \div 4>> /\ a.lo \div 512 = r.lo \div 512
  <2>1. /\ short_address(r, p) = a /\ p \in Seq(Int) /\ p[1] = 149
        /\ Len(p) = IF p[2] >= 128 THEN 3 ELSE 2
    BY <1>1, <1>6, ShortDecoded
  <2>2. IsAddress(149)
    BY DEF IsAddress
  <2>3. Len(p) > 0
    BY <2>1
  <2> QED BY <2>1, <2>2, <2>3, DecodedForms DEF Decodes
<1>7. CASE p = Long64(133, a) \o Context
  <2>1. p \in Seq(Int) /\ Len(p) = 14 /\ p[1] = 133 /\ context_len(p, 10) = 5 /\ Bytes64(p, a)
    BY <1>7, ContextForms
  <2>2. long_address_64bit(r, p) = a
    BY <1>1, <2>1, LongDecoded
  <2>3. IsAddress(133)
    BY DEF IsAddress
  <2>4. decode_address(t, p) = [tracer |-> tracer_address(update_address_regs(t, a), a),
                                len |-> 9 + 5]
    BY <2>1, <2>2, DecodedForms
  <2> QED BY <2>1, <2>3, <2>4 DEF Decodes
<1>8. CASE a.hi = r.hi /\ p = Long32(130, a) \o Context
  <2>1. p \in Seq(Int) /\ Len(p) = 10 /\ p[1] = 130 /\ context_len(p, 6) = 5 /\ Bytes32(p, a)
    BY <1>8, ContextForms, ZenonT(60)
  <2>2. long_address_32bit(r, p) = a
    BY <1>1, <1>8, <2>1, LongDecoded
  <2>3. IsAddress(130)
    BY DEF IsAddress
  <2>4. decode_address(t, p) = [tracer |-> tracer_address(update_address_regs(t, a), a),
                                len |-> 5 + 5]
    BY <2>1, <2>2, DecodedForms
  <2> QED BY <2>1, <2>3, <2>4 DEF Decodes
<1> QED BY <1>2, <1>3, <1>4, <1>5, <1>6, <1>7, <1>8

-----------------------------------------------------------------------------
(* The other packets.                                                       *)

LEMMA Headers ==
  /\ \A c : IsAddress(c) => c \notin Reserved /\ ~IsAtom(c) /\ c \notin {0, 1, 6, 7}
  /\ \A c : c \in {0, 1, 4, 6, 7} => c \notin Reserved /\ ~IsAtom(c) /\ ~IsAddress(c)
  /\ \A c \in Atoms : c \notin Reserved /\ IsAtom(c)
BY DEF IsAddress, Reserved, IsAtom, Atoms

LEMMA Dispatched ==
  ASSUME NEW t, NEW p
  PROVE  /\ p[1] \in {0, 1, 6, 7} => p[1] \notin Reserved
         /\ p[1] = 0 => Decoded(t, p) = decode_extension(t, p)
         /\ p[1] = 1 => Decoded(t, p) = decode_trace_info(t, p)
         /\ p[1] \in {6, 7} => Decoded(t, p) = decode_exception(t, p)
<1>1. p[1] \in {0, 1, 6, 7} => p[1] \notin Reserved /\ ~IsAtom(p[1]) /\ ~IsAddress(p[1])
  BY Headers
<1>2. p[1] \in {0, 1, 6, 7} => Decoded(t, p) = decode(t, p)
  BY <1>1 DEF Decoded
<1>3. p[1] = 0 => decode(t, p) = decode_extension(t, p)
  BY <1>1 DEF decode
<1>4. p[1] = 1 => decode(t, p) = decode_trace_info(t, p)
  BY <1>1 DEF decode
<1>5. p[1] = 6 => decode(t, p) = decode_exception(t, p)
  BY <1>1 DEF decode
<1>6. p[1] = 7 => decode(t, p) = decode_exception(t, p)
  BY <1>1 DEF decode
<1> QED BY <1>1, <1>2, <1>3, <1>4, <1>5, <1>6

LEMMA AddressDecoded ==
  ASSUME NEW t, NEW p, NEW a, Decodes(t, p, a)
  PROVE  /\ p \in Seq(Int) /\ Len(p) > 0 /\ p[1] \notin Reserved
         /\ Decoded(t, p).tracer = tracer_address(update_address_regs(t, a), a)
         /\ Decoded(t, p).len = Len(p)
<1>1. IsAddress(p[1]) /\ p[1] \notin Reserved /\ ~IsAtom(p[1]) /\ p[1] \notin {0, 1, 6, 7}
  BY Headers DEF Decodes
<1>2. Decoded(t, p) = decode_address(t, p)
  BY <1>1 DEF Decoded, decode
<1> QED BY <1>1, <1>2 DEF Decodes

\* An exception with an address, and one without.
ExceptionTaken(t) == [t EXCEPT !.from_exception = TRUE]
ExceptionCounted(t) == [t EXCEPT !.exception_nums = @ + 1]

LEMMA ExceptionDecoded ==
  ASSUME NEW t
  PROVE  /\ LET p == <<6, 157, 0>>
            IN /\ p \in Seq(Int) /\ Len(p) = 3 /\ p[1] \notin Reserved
               /\ Decoded(t, p).tracer = ExceptionCounted(ExceptionTaken(t))
               /\ Decoded(t, p).len = 3
         /\ \A a, q : Decodes(ExceptionTaken(t), q, a) =>
              LET p == <<6, 92>> \o q
              IN /\ p \in Seq(Int) /\ Len(p) > 0 /\ p[1] \notin Reserved
                 /\ Decoded(t, p).tracer = ExceptionCounted(
                      tracer_address(update_address_regs(ExceptionTaken(t), a), a))
                 /\ Decoded(t, p).len = Len(p)
<1>1. ASSUME NEW p, p[1] = 6
      PROVE  p[1] \notin Reserved /\ Decoded(t, p) = decode_exception(t, p)
  BY <1>1, Dispatched
<1>2. LET p == <<6, 157, 0>>
      IN /\ p \in Seq(Int) /\ Len(p) = 3 /\ p[1] \notin Reserved
         /\ Decoded(t, p).tracer = ExceptionCounted(ExceptionTaken(t))
         /\ Decoded(t, p).len = 3
  <2> DEFINE p == <<6, 157, 0>>
  <2>1. p \in Seq(Int) /\ Len(p) = 3 /\ p[1] = 6 /\ p[2] = 157
    OBVIOUS
  <2>2. EE(p) = 1
    BY <2>1 DEF EE
  <2> HIDE DEF p
  <2>3. decode_exception(t, p) = [tracer |-> ExceptionCounted(ExceptionTaken(t)), len |-> 3 + 0]
    <3>1. p[1] # 7 /\ EE(p) \in {1, 2} /\ p[2] >= 128
      BY <2>1, <2>2
    <3>2. 4 - 1 + 0 = 3 + 0
      OBVIOUS
    <3> QED BY <2>2, <3>1, <3>2 DEF decode_exception, ExceptionCounted, ExceptionTaken
  <2> QED BY <1>1, <2>1, <2>3 DEF p
<1>3. ASSUME NEW a, NEW q, Decodes(ExceptionTaken(t), q, a)
      PROVE  LET p == <<6, 92>> \o q
             IN /\ p \in Seq(Int) /\ Len(p) > 0 /\ p[1] \notin Reserved
                /\ Decoded(t, p).tracer = ExceptionCounted(
                     tracer_address(update_address_regs(ExceptionTaken(t), a), a))
                /\ Decoded(t, p).len = Len(p)
  <2> DEFINE p == <<6, 92>> \o q
             d == decode_address(ExceptionTaken(t), q)
  <2>1. q \in Seq(Int) /\ Len(q) > 0
    BY <1>3 DEF Decodes
  <2>2. /\ p \in Seq(Int) /\ Len(p) = Len(q) + 2 /\ p[1] = 6 /\ p[2] = 92
        /\ SubSeq(p, 3, Len(p)) = q
    BY <2>1
  <2>3. EE(p) = 2
    BY <2>2 DEF EE
  <2> HIDE DEF p
  <2>4. decode_exception(t, p) = [tracer |-> ExceptionCounted(d.tracer), len |-> 3 - 1 + d.len]
    <3>1. p[1] # 7 /\ EE(p) \in {1, 2} /\ EE(p) # 1 /\ ~(p[2] >= 128)
      BY <2>2, <2>3
    <3> QED BY <2>2, <3>1 DEF decode_exception, ExceptionCounted, ExceptionTaken
  <2>5. /\ d.tracer = tracer_address(update_address_regs(ExceptionTaken(t), a), a)
        /\ d.len = Len(q)
    BY <1>3 DEF Decodes
  <2>6. 3 - 1 + Len(q) = Len(p) /\ Len(p) > 0
    BY <2>1, <2>2
  <2> HIDE DEF d
  <2>7. /\ Decoded(t, p).tracer = ExceptionCounted(d.tracer) /\ Decoded(t, p).len = 3 - 1 + d.len
        /\ p[1] \notin Reserved
    BY <1>1, <2>2, <2>4, SMTT(30)
  <2> QED BY <2>2, <2>5, <2>6, <2>7 DEF p
<1> QED BY <1>2, <1>3

\* A packet that is silent changes at most the address registers.
SilentTracer(t, p) ==
  IF p[1] = 1 THEN [t EXCEPT !.address_register = Reset] ELSE t

LEMMA SilentDecoded ==
  ASSUME NEW t, NEW p \in Seq(Int), Silent(p)
  PROVE  /\ Len(p) > 0 /\ (p[1] \in Reserved => Len(p) = 1)
         /\ Decoded(t, p).tracer = SilentTracer(t, p) /\ Decoded(t, p).len = Len(p)
<1>1. CASE p = Async
  <2>1. p \in Seq(Int) /\ Len(p) = 12 /\ p[1] = 0
    BY <1>1 DEF Async
  <2>2. SubSeq(p, 1, 12) = p
    BY <2>1
  <2>3. decode_extension(t, p) = [tracer |-> t, len |-> 12]
    BY <1>1, <2>1, <2>2 DEF decode_extension
  <2>4. p[1] \notin Reserved /\ Decoded(t, p) = decode_extension(t, p)
    BY <2>1, Dispatched
  <2> QED BY <2>1, <2>3, <2>4 DEF SilentTracer
<1>2. CASE p = <<0, 3>>
  <2>1. p \in Seq(Int) /\ Len(p) = 2 /\ p[1] = 0 /\ p[2] = 3
    BY <1>2
  <2>2. decode_extension(t, p) = [tracer |-> t, len |-> 2]
    BY <2>1 DEF decode_extension
  <2>3. p[1] \notin Reserved /\ Decoded(t, p) = decode_extension(t, p)
    BY <2>1, Dispatched
  <2> QED BY <2>1, <2>2, <2>3 DEF SilentTracer
<1>3. CASE p = <<7>>
  <2>1. p \in Seq(Int) /\ Len(p) = 1 /\ p[1] = 7
    BY <1>3
  <2>2. decode_exception(t, p) = [tracer |-> t, len |-> 1]
    BY <2>1 DEF decode_exception
  <2>3. p[1] \notin Reserved /\ Decoded(t, p) = decode_exception(t, p)
    BY <2>1, Dispatched
  <2> QED BY <2>1, <2>2, <2>3 DEF SilentTracer
<1>4. CASE Len(p) = 1 /\ p[1] \in Reserved
  <2>1. p[1] # 1
    BY <1>4, Headers
  <2> QED BY <1>4, <2>1 DEF Decoded, SilentTracer
<1>5. CASE Len(p) > 1 /\ p[1] = 1 /\ trace_info_len(p) = Len(p)
  <2>1. p[1] \notin Reserved
    BY <1>5, Dispatched
  <2>2. Decoded(t, p) = decode_trace_info(t, p)
    BY <1>5, Dispatched
  <2>3. ~(trace_info_len(p) <= 0)
    BY <1>5
  <2>4. decode_trace_info(t, p) = [tracer |-> SilentTracer(t, p), len |-> Len(p)]
    BY <1>5, <2>3 DEF decode_trace_info, SilentTracer, Reset
  <2> QED BY <1>5, <2>1, <2>2, <2>4
<1>6. CASE /\ Len(p) > 0 /\ p[1] \notin {0, 1, 6, 7} \union Reserved
           /\ ~IsAtom(p[1]) /\ ~IsAddress(p[1]) /\ other_len(p) = Len(p)
  <2>1. Decoded(t, p) = [tracer |-> t, len |-> Len(p)]
    BY <1>6 DEF Decoded, decode
  <2> QED BY <1>6, <2>1 DEF SilentTracer
<1> QED BY <1>1, <1>2, <1>3, <1>4, <1>5, <1>6 DEF Silent

\* An overflow, and the packet with which tracing goes on.
LEMMA OverflowDecoded ==
  ASSUME NEW t
  PROVE  /\ Decoded(t, <<0, 5>>) = [tracer |-> [t EXCEPT !.overflow_nums = @ + 1], len |-> 2]
         /\ 0 \notin Reserved
<1> DEFINE p == <<0, 5>>
<1>1. p \in Seq(Int) /\ Len(p) = 2 /\ p[1] = 0 /\ p[2] = 5
  OBVIOUS
<1> HIDE DEF p
<1>2. decode_extension(t, p) = [tracer |-> [t EXCEPT !.overflow_nums = @ + 1], len |-> 2]
  BY <1>1 DEF decode_extension
<1>3. p[1] \notin Reserved /\ Decoded(t, p) = decode_extension(t, p)
  BY <1>1, Dispatched
<1> QED BY <1>1, <1>2, <1>3 DEF p

LEMMA TraceOnIsSilent == Silent(<<4>>) /\ <<4>> \in Seq(Int) /\ <<4>>[1] = 4
<1> DEFINE p == <<4>>
<1>1. p \in Seq(Int) /\ Len(p) = 1 /\ p[1] = 4
  OBVIOUS
<1> HIDE DEF p
<1>2. other_len(p) = 1
  BY <1>1 DEF other_len
<1>3. 4 \notin Reserved /\ ~IsAtom(4) /\ ~IsAddress(4)
  BY Headers
<1>4. Silent(p)
  BY <1>1, <1>2, <1>3 DEF Silent
<1> QED BY <1>1, <1>4 DEF p

-----------------------------------------------------------------------------
(* What the decoder makes of each packet keeps it in step with the unit.    *)

LEMMA CountFields ==
  ASSUME NEW t, NEW d, Count(d) = Count(t)
  PROVE  d.entry_flag = t.entry_flag /\ d.branch_flag = t.branch_flag
<1>1. \A x : Count(x).entered = x.entry_flag /\ Count(x).taken = x.branch_flag
  BY DEF Count
<1> QED BY <1>1

\* The fields that no counter is among.
Same(e, t) ==
  /\ Tracer(e) /\ Count(e) = Count(t) /\ e.overflow_nums = t.overflow_nums
  /\ e.entry_flag = t.entry_flag /\ e.branch_flag = t.branch_flag /\ e.IRQ_addr = t.IRQ_addr

LEMMA RegistersPushed ==
  ASSUME NEW t, Tracer(t), NEW a \in Address
  PROVE  LET e == update_address_regs(t, a)
         IN /\ Same(e, t) /\ e.from_exception = t.from_exception
            /\ e.address_register = Push(t.address_register, a)
            /\ Push(t.address_register, a) \in [1..3 -> Address]
<1> SUFFICES ASSUME NEW e, e = update_address_regs(t, a)
             PROVE  /\ Same(e, t) /\ e.from_exception = t.from_exception
                    /\ e.address_register = Push(t.address_register, a)
                    /\ Push(t.address_register, a) \in [1..3 -> Address]
  OBVIOUS
<1>1. /\ DOMAIN e = DOMAIN t /\ e.address_register = Push(t.address_register, a)
      /\ e.entry_flag = t.entry_flag /\ e.overflow_nums = t.overflow_nums
      /\ e.branch_flag = t.branch_flag /\ e.from_exception = t.from_exception
      /\ e.IRQ_addr = t.IRQ_addr /\ e.atom_in_slide = t.atom_in_slide
      /\ e.hash = t.hash /\ e.branch_nums = t.branch_nums
      /\ e.trace_bits = t.trace_bits /\ e.pre_basic_block = t.pre_basic_block
  BY DEF Tracer, Started, update_address_regs, Push
<1>2. Push(t.address_register, a) \in [1..3 -> Address]
  <2>1. t.address_register[1] \in Address /\ t.address_register[2] \in Address
    BY DEF Tracer
  <2> QED BY <2>1 DEF Push
<1>3. Tracer(e)
  BY <1>1, <1>2 DEF Tracer
<1>4. Count(e) = Count(t)
  BY <1>1 DEF Count
<1> QED BY <1>1, <1>2, <1>3, <1>4 DEF Same

LEMMA RegistersReset ==
  ASSUME NEW t, Tracer(t)
  PROVE  LET e == [t EXCEPT !.address_register = Reset]
         IN Same(e, t) /\ e.from_exception = t.from_exception /\ e.address_register = Reset
<1> SUFFICES ASSUME NEW e, e = [t EXCEPT !.address_register = Reset]
             PROVE  /\ Same(e, t) /\ e.from_exception = t.from_exception
                    /\ e.address_register = Reset
  OBVIOUS
<1>1. /\ DOMAIN e = DOMAIN t /\ e.address_register = Reset
      /\ e.entry_flag = t.entry_flag /\ e.overflow_nums = t.overflow_nums
      /\ e.branch_flag = t.branch_flag /\ e.from_exception = t.from_exception
      /\ e.IRQ_addr = t.IRQ_addr /\ e.atom_in_slide = t.atom_in_slide
      /\ e.hash = t.hash /\ e.branch_nums = t.branch_nums
      /\ e.trace_bits = t.trace_bits /\ e.pre_basic_block = t.pre_basic_block
  BY DEF Tracer, Started
<1>2. Reset \in [1..3 -> Address]
  BY ZeroIsAddress DEF Reset
<1>3. Tracer(e)
  BY <1>1, <1>2 DEF Tracer
<1>4. Count(e) = Count(t)
  BY <1>1 DEF Count
<1> QED BY <1>1, <1>3, <1>4 DEF Same

LEMMA ExceptionFields ==
  ASSUME NEW t, Tracer(t)
  PROVE  /\ Same(ExceptionTaken(t), t) /\ ExceptionTaken(t).from_exception
         /\ ExceptionTaken(t).address_register = t.address_register
         /\ Same(ExceptionCounted(t), t)
         /\ ExceptionCounted(t).from_exception = t.from_exception
         /\ ExceptionCounted(t).address_register = t.address_register
<1>1. ASSUME NEW e, e = ExceptionTaken(t)
      PROVE  Same(e, t) /\ e.from_exception /\ e.address_register = t.address_register
  <2>1. /\ DOMAIN e = DOMAIN t /\ e.address_register = t.address_register
        /\ e.entry_flag = t.entry_flag /\ e.overflow_nums = t.overflow_nums
        /\ e.branch_flag = t.branch_flag /\ e.from_exception = TRUE
        /\ e.IRQ_addr = t.IRQ_addr /\ e.atom_in_slide = t.atom_in_slide
        /\ e.hash = t.hash /\ e.branch_nums = t.branch_nums
        /\ e.trace_bits = t.trace_bits /\ e.pre_basic_block = t.pre_basic_block
    BY <1>1 DEF Tracer, Started, ExceptionTaken
  <2>2. e.from_exception \in BOOLEAN /\ e.from_exception
    BY <2>1
  <2>3. Tracer(e)
    BY <2>1, <2>2 DEF Tracer
  <2>4. Count(e) = Count(t)
    BY <2>1 DEF Count
  <2> QED BY <2>1, <2>2, <2>3, <2>4 DEF Same
<1>2. ASSUME NEW e, e = ExceptionCounted(t)
      PROVE  /\ Same(e, t) /\ e.from_exception = t.from_exception
             /\ e.address_register = t.address_register
  <2>1. /\ DOMAIN e = DOMAIN t /\ e.address_register = t.address_register
        /\ e.entry_flag = t.entry_flag /\ e.overflow_nums = t.overflow_nums
        /\ e.branch_flag = t.branch_flag /\ e.from_exception = t.from_exception
        /\ e.IRQ_addr = t.IRQ_addr /\ e.atom_in_slide = t.atom_in_slide
        /\ e.hash = t.hash /\ e.branch_nums = t.branch_nums
        /\ e.trace_bits = t.trace_bits /\ e.pre_basic_block = t.pre_basic_block
    BY <1>2 DEF Tracer, Started, ExceptionCounted
  <2>2. Tracer(e)
    BY <2>1 DEF Tracer
  <2>3. Count(e) = Count(t)
    BY <2>1 DEF Count
  <2> QED BY <2>1, <2>2, <2>3 DEF Same
<1> QED BY <1>1, <1>2

LEMMA OverflowFields ==
  ASSUME NEW t, Tracer(t)
  PROVE  LET e == [t EXCEPT !.overflow_nums = @ + 1]
         IN Tracer(e) /\ Count(e) = Count(t) /\ e.overflow_nums = t.overflow_nums + 1
<1> SUFFICES ASSUME NEW e, e = [t EXCEPT !.overflow_nums = @ + 1]
             PROVE  Tracer(e) /\ Count(e) = Count(t) /\ e.overflow_nums = t.overflow_nums + 1
  OBVIOUS
<1>1. /\ DOMAIN e = DOMAIN t /\ e.address_register = t.address_register
      /\ e.entry_flag = t.entry_flag /\ e.overflow_nums = t.overflow_nums + 1
      /\ e.branch_flag = t.branch_flag /\ e.from_exception = t.from_exception
      /\ e.IRQ_addr = t.IRQ_addr /\ e.atom_in_slide = t.atom_in_slide
      /\ e.hash = t.hash /\ e.branch_nums = t.branch_nums
      /\ e.trace_bits = t.trace_bits /\ e.pre_basic_block = t.pre_basic_block
  BY DEF Tracer, Started
<1>2. e.overflow_nums \in Nat
  BY <1>1 DEF Tracer
<1>3. Tracer(e)
  BY <1>1, <1>2 DEF Tracer
<1>4. Count(e) = Count(t)
  BY <1>1 DEF Count
<1> QED BY <1>1, <1>3, <1>4

LEMMA AtomsSent ==
  ASSUME NEW t, NEW u, TraceUnit(u), Tracer(t), Tracked(t, u), NEW c \in Atoms, NEW u2,
         u2 = [u EXCEPT !.events = @ - 1, !.arrived = FALSE, !.struck = 0,
                        !.at = NoWhere,
                        !.target = IF ~(AtomSeq(c)[Len(AtomSeq(c))] = 1) THEN "none"
                                   ELSE IF bb_mode THEN "must" ELSE "may"]
  PROVE  TraceUnit(u2) /\ Packet(t, u2, <<c>>, [op |-> "atoms", atoms |-> AtomSeq(c)])
<1> DEFINE taken == AtomSeq(c)[Len(AtomSeq(c))] = 1
           d == decode_atoms(t, c)
           e == [op |-> "atoms", atoms |-> AtomSeq(c)]
<1>1. /\ DOMAIN u2 = DOMAIN u /\ u2.header = u.header /\ u2.other = u.other
      /\ u2.regs = u.regs /\ u2.arrived = FALSE /\ u2.entered = u.entered
      /\ u2.at = NoWhere /\ u2.struck = 0
      /\ u2.target = IF ~taken THEN "none" ELSE IF bb_mode THEN "must" ELSE "may"
  BY DEF TraceUnit, Off, Ready
<1>2. TraceUnit(u2)
  <2>1. u2.target \in {"none", "may", "must"} /\ ~InException(u2) /\ u2.struck \in 0..2
    BY <1>1 DEF InException
  <2>2. u2.arrived \in BOOLEAN /\ ~u2.arrived
    BY <1>1
  <2> QED BY <1>1, <2>1, <2>2 DEF TraceUnit
<1>3. /\ Tracer(d) /\ Count(d) = Abs!Branches(Count(t), AtomSeq(c))
      /\ d.entry_flag = t.entry_flag /\ d.overflow_nums = t.overflow_nums
      /\ d.address_register = t.address_register
      /\ ~t.entry_flag => d = t
      /\ t.entry_flag => /\ ~d.from_exception /\ d.IRQ_addr = Zero
                         /\ d.branch_flag = taken
  BY CountAtomsStep
<1>4. /\ <<c>> \in Seq(Int) /\ Len(<<c>>) = 1 /\ <<c>>[1] = c
      /\ c \notin Reserved /\ IsAtom(c)
  BY Headers DEF Atoms
<1>5. Decoded(t, <<c>>) = [tracer |-> d, len |-> 1]
  BY <1>4 DEF Decoded
<1>6. Seen(Count(t), e) = Abs!Branches(Count(t), AtomSeq(c))
  <2>1. e # None /\ e.op = "atoms" /\ e.atoms = AtomSeq(c)
    BY DEF None
  <2> QED BY <2>1 DEF Seen
<1> HIDE DEF d, e, taken
<1>7. ASSUME t.overflow_nums = 0
      PROVE  Follows(d, u2)
  <2>1. Follows(t, u)
    BY <1>7 DEF Tracked
  <2>2. d.entry_flag = u2.entered /\ d.address_register = u2.regs
    BY <1>1, <1>3, <2>1 DEF Follows
  <2>3. CASE ~t.entry_flag
    <3>1. d = t /\ ~d.branch_flag
      BY <1>3, <2>1, <2>3 DEF Follows
    <3> QED BY <1>1, <2>1, <2>2, <3>1 DEF Follows, InException
  <2>4. CASE t.entry_flag
    <3>1. ~d.from_exception /\ d.IRQ_addr = Zero /\ (d.branch_flag <=> taken) /\ d.entry_flag
      BY <1>3, <2>4
    <3>2. ~InException(u2) /\ (u2.target = "none" <=> ~taken)
      BY <1>1 DEF InException
    <3> QED BY <2>2, <3>1, <3>2 DEF Follows
  <2> QED BY <2>3, <2>4
<1> QED BY <1>2, <1>3, <1>4, <1>5, <1>6, <1>7 DEF Packet, Tracked, e

\* The unit u sends the address a, and is u2 then.
Arrives(u, a, u2) ==
  /\ DOMAIN u2 = DOMAIN u /\ u2.header = u.header /\ u2.other = u.other
  /\ u2.regs = Push(u.regs, a) /\ u2.arrived = TRUE /\ u2.entered = (u.entered \/ a = Main)
  /\ u2.at = a /\ u2.struck = u.struck /\ u2.target = "none"

LEMMA AddressSent ==
  ASSUME NEW t, NEW u, TraceUnit(u), Tracer(t), Tracked(t, u),
         u.target \in {"may", "must"}, NEW a \in Targets, NEW u2, Arrives(u, a, u2)
  PROVE  /\ TraceUnit(u2)
         /\ Packet(t, u2, Encode(a, u.regs), [op |-> "arrive", address |-> a])
<1> DEFINE r == update_address_regs(t, a)
           d == tracer_address(r, a)
           e == [op |-> "arrive", address |-> a]
           p == Encode(a, u.regs)
<1>1. /\ DOMAIN u2 = DOMAIN u /\ u2.header = u.header /\ u2.other = u.other
      /\ u2.regs = Push(u.regs, a) /\ u2.arrived = TRUE /\ u2.entered = (u.entered \/ a = Main)
      /\ u2.at = a /\ u2.struck = u.struck /\ u2.target = "none"
  BY DEF Arrives
<1>2. a \in Address /\ a # Zero /\ a # NoWhere
  <2>1. a \in Address /\ a # Zero
    BY TraceAssumption
  <2>2. a.lo \in Nat /\ NoWhere.lo = -1
    BY <2>1, AddressFields DEF NoWhere
  <2> QED BY <2>1, <2>2
<1>3. TraceUnit(u2)
  <2>1. Push(u.regs, a) \in [1..3 -> Address]
    <3>1. u.regs[1] \in Address /\ u.regs[2] \in Address
      BY DEF TraceUnit
    <3> QED BY <1>2, <3>1 DEF Push
  <2>2. u2.entered \in BOOLEAN /\ u2.arrived \in BOOLEAN
    BY <1>1
  <2>3. ~InException(u2)
    BY <1>1 DEF InException
  <2> QED BY <1>1, <2>1, <2>2, <2>3 DEF TraceUnit
<1>4. /\ Same(r, t) /\ r.from_exception = t.from_exception
      /\ r.address_register = Push(t.address_register, a)
  BY <1>2, RegistersPushed
<1> HIDE DEF r
<1>5. /\ Tracer(d) /\ d.overflow_nums = t.overflow_nums
      /\ d.address_register = Push(t.address_register, a)
      /\ d.entry_flag = (t.entry_flag \/ a = Main)
  BY <1>4, AddressKeeps DEF Same
<1>6. Seen(Count(t), e) = Abs!Arrive(Count(t), a)
  <2>1. e # None /\ e.op # "atoms" /\ e.address = a
    BY DEF None
  <2> QED BY <2>1 DEF Seen
<1> HIDE DEF e, p
<1>7. p \in Seq(Int) /\ Len(p) > 0 /\ (p[1] \in Reserved => Len(p) = 1 /\ e = None)
  <2>1. PICK w : w = [t EXCEPT !.address_register = u.regs]
    OBVIOUS
  <2>2. w.address_register = u.regs /\ u.regs \in [1..3 -> Address]
    BY <2>1 DEF Tracer, Started, TraceUnit
  <2>3. Decodes(w, p, a)
    BY <1>2, <2>2, EncodingDecoded DEF p
  <2> QED BY <2>3, AddressDecoded
<1>8. ASSUME t.overflow_nums = 0
      PROVE  /\ Decoded(t, p).len = Len(p) /\ Decoded(t, p).tracer = d
             /\ Follows(d, u2) /\ Count(d) = Abs!Arrive(Count(t), a)
  <2>1. Follows(t, u)
    BY <1>8 DEF Tracked
  <2>2. Decodes(t, p, a)
    <3>1. t.address_register = u.regs /\ t.address_register \in [1..3 -> Address]
      BY <2>1 DEF Follows, Tracer
    <3> QED BY <1>2, <3>1, EncodingDecoded DEF p
  <2>3. Decoded(t, p).len = Len(p) /\ Decoded(t, p).tracer = d
    BY <2>2, AddressDecoded DEF r
  <2>4. ~(r.from_exception /\ r.branch_flag)
    BY <1>4, <2>1 DEF Follows, Same
  <2>5. Count(d) = Abs!Arrive(Count(t), a)
    BY <1>4, <2>4, ArrivalCounted DEF Same
  <2>6. d.entry_flag = u2.entered /\ d.address_register = u2.regs
    BY <1>1, <1>5, <2>1 DEF Follows
  <2>7. u2.target = "none" /\ ~InException(u2) /\ u2.at # NoWhere
    BY <1>1, <1>2 DEF InException
  <2>8. /\ d.branch_flag => d.entry_flag /\ ~InText(a)
        /\ d.IRQ_addr # Zero => d.from_exception
    <3>1. r.branch_flag => r.entry_flag
      BY <1>4, <2>1 DEF Follows, Same
    <3>2. r.IRQ_addr # Zero => r.from_exception
      BY <1>4, <2>1 DEF Follows, Same
    <3> DEFINE n == Entered(r, a)
    <3>3. /\ Tracer(n) /\ n.entry_flag = (r.entry_flag \/ a = Main)
          /\ n.branch_flag = r.branch_flag /\ n.from_exception = r.from_exception
          /\ n.IRQ_addr = r.IRQ_addr
      BY <1>4, Entering DEF Same
    <3> HIDE DEF n
    <3>4. \/ Strikes(r) /\ d = StruckAt(n, a)
          \/ ~Strikes(r) /\ ~Edge(r, a) /\ d = n
          \/ ~Strikes(r) /\ Edge(r, a) /\ ~Returns(r, a) /\ d = count_branch(n, a)
      <4>1. ~(Edge(r, a) /\ Returns(r, a))
        BY <2>4 DEF Edge, Returns
      <4> QED BY <1>4, <4>1, AddressCases DEF n, Same
    <3>5. CASE Strikes(r) /\ d = StruckAt(n, a)
      <4>1. Count(d) = Count(n) /\ d.from_exception = n.from_exception /\ d.IRQ_addr = a
        BY <3>3, <3>5, Striking
      <4>2. d.branch_flag = n.branch_flag
        BY <4>1, CountFields
      <4> QED BY <2>4, <3>3, <3>5, <4>1, <4>2 DEF Strikes
    <3>6. CASE ~Strikes(r) /\ ~Edge(r, a) /\ d = n
      BY <3>1, <3>2, <3>3, <3>6 DEF Edge
    <3>7. CASE ~Strikes(r) /\ Edge(r, a) /\ d = count_branch(n, a)
      <4>1. Tracer(n)
        BY <3>3
      <4>2. count_branch(n, a).branch_flag = FALSE
        BY <4>1, CountBranchFields
      <4>3. count_branch(n, a).IRQ_addr = Zero
        BY <4>1, CountBranchFields
      <4> QED BY <3>7, <4>2, <4>3
    <3> QED BY <3>4, <3>5, <3>6, <3>7
  <2>9. Follows(d, u2)
    BY <1>1, <2>6, <2>7, <2>8 DEF Follows
  <2> QED BY <2>3, <2>5, <2>9
<1> QED BY <1>3, <1>5, <1>6, <1>7, <1>8 DEF Packet, Tracked, e, p

\* A packet that is no event of the program, and after which the decoder is in step.
LEMMA SilentPacket ==
  ASSUME NEW t, NEW u, NEW p \in Seq(Int), NEW d, Tracer(t), Len(p) > 0, p[1] \notin Reserved,
         t.overflow_nums = 0 => /\ Decoded(t, p).tracer = d /\ Decoded(t, p).len = Len(p)
                                /\ Count(d) = Count(t) /\ Tracked(d, u)
  PROVE  Packet(t, u, p, None)
<1>1. Seen(Count(t), None) = Count(t)
  BY DEF Seen
<1> QED BY <1>1 DEF Packet

LEMMA ExceptionSent ==
  ASSUME NEW t, NEW u, TraceUnit(u), Tracer(t), Tracked(t, u), NEW pc \in Targets,
         u.target \in {"none", "may"}, u.struck < 2,
         u.at # NoWhere => (InText(pc) <=> InText(u.at)), u.entered \/ pc # Main,
         NEW here, here = (u.arrived /\ pc = u.regs[1]), NEW u2,
         u2 = [u EXCEPT !.interrupts = @ - 1, !.struck = @ + 1,
                        !.arrived = FALSE, !.target = "off", !.at = pc,
                        !.regs = IF here THEN @ ELSE Push(@, pc)]
  PROVE  /\ TraceUnit(u2)
         /\ Packet(t, u2, IF here THEN <<6, 157, 0>> ELSE <<6, 92>> \o Encode(pc, u.regs), None)
<1> DEFINE x == ExceptionTaken(t)
           r == update_address_regs(x, pc)
           n == tracer_address(r, pc)
           q == Encode(pc, u.regs)
<1>1. /\ DOMAIN u2 = DOMAIN u /\ u2.header = u.header /\ u2.other = u.other
      /\ u2.regs = IF here THEN u.regs ELSE Push(u.regs, pc)
      /\ u2.arrived = FALSE /\ u2.entered = u.entered
      /\ u2.at = pc /\ u2.struck = u.struck + 1 /\ u2.target = "off"
  BY DEF TraceUnit, Off, Ready
<1>2. pc \in Address /\ pc # Zero
  BY TraceAssumption
<1>3. u2.struck \in 0..2 /\ u2.struck > 0 /\ u.struck \in 0..1
  BY <1>1 DEF TraceUnit
<1>4. TraceUnit(u2)
  <2>1. Push(u.regs, pc) \in [1..3 -> Address] /\ u2.regs \in [1..3 -> Address]
    <3>1. u.regs[1] \in Address /\ u.regs[2] \in Address /\ u.regs \in [1..3 -> Address]
      BY DEF TraceUnit
    <3>2. Push(u.regs, pc) \in [1..3 -> Address]
      BY <1>2, <3>1 DEF Push
    <3> QED BY <1>1, <3>1, <3>2
  <2>2. u2.arrived \in BOOLEAN /\ ~u2.arrived
    BY <1>1
  <2>3. u2.target = "off" /\ u2.at \in Targets /\ (u2.entered \/ u2.at # Main)
    BY <1>1
  <2> QED BY <1>1, <1>3, <2>1, <2>2, <2>3 DEF TraceUnit
<1>5. Same(x, t) /\ x.from_exception /\ x.address_register = t.address_register
  BY ExceptionFields
\* While a branch waits for its arrival, an exception in the text is the first since then
\* or the second, and the first one is over.
<1>6. ASSUME t.overflow_nums = 0, t.branch_flag, InText(pc)
      PROVE  /\ t.IRQ_addr = Zero
             /\ u.target = "none" => u2.struck = 2
  <2>1. Follows(t, u)
    BY <1>6 DEF Tracked
  <2>2. CASE u.target = "may"
    BY <1>6, <2>1, <2>2 DEF Follows
  <2>3. CASE u.target = "none"
    <3>1. u.at # NoWhere /\ InText(u.at) /\ u.struck = 1 /\ ~t.from_exception
      BY <1>3, <1>6, <2>1, <2>3 DEF Follows
    <3> QED BY <1>1, <2>1, <3>1 DEF Follows
  <2> QED BY <2>2, <2>3
<1>7. CASE here
  <2> DEFINE p == <<6, 157, 0>>
             d == ExceptionCounted(x)
  <2>1. /\ p \in Seq(Int) /\ Len(p) = 3 /\ p[1] \notin Reserved
        /\ Decoded(t, p).tracer = d /\ Decoded(t, p).len = 3
    BY ExceptionDecoded
  <2>2. Same(d, x) /\ d.from_exception = x.from_exception
        /\ d.address_register = x.address_register
    BY <1>5, ExceptionFields DEF Same
  <2> HIDE DEF d, p
  <2>3. ASSUME t.overflow_nums = 0
        PROVE  Follows(d, u2)
    <3>1. Follows(t, u)
      BY <2>3 DEF Tracked
    <3>2. /\ d.entry_flag = t.entry_flag /\ d.branch_flag = t.branch_flag /\ d.from_exception
          /\ d.IRQ_addr = t.IRQ_addr /\ d.address_register = t.address_register
      BY <1>5, <2>2 DEF Same
    <3>3. u.target = "none"
      BY <1>7 DEF TraceUnit
    <3>4. d.branch_flag /\ InText(u2.at) => d.IRQ_addr = Zero /\ u2.struck = 2
      BY <1>1, <1>6, <2>3, <3>2, <3>3
    <3> QED BY <1>1, <1>7, <3>1, <3>2, <3>4 DEF Follows, InException
  <2>4. Tracer(d) /\ Count(d) = Count(t)
    BY <1>5, <2>2 DEF Same
  <2>5. Packet(t, u2, p, None)
    <3>1. t.overflow_nums = 0 => Tracked(d, u2)
      BY <2>3, <2>4 DEF Tracked
    <3>2. Decoded(t, p).len = Len(p) /\ Len(p) > 0
      BY <2>1
    <3> QED BY <2>1, <2>4, <3>1, <3>2, SilentPacket
  <2> QED BY <1>4, <1>7, <2>5 DEF p
<1>8. CASE ~here
  <2> DEFINE p == <<6, 92>> \o q
             d == ExceptionCounted(n)
  <2>1. /\ Same(r, x) /\ r.from_exception = x.from_exception
        /\ r.address_register = Push(x.address_register, pc)
    BY <1>2, <1>5, RegistersPushed DEF Same
  <2>2. /\ Tracer(r) /\ r.from_exception /\ Count(r) = Count(t) /\ r.IRQ_addr = t.IRQ_addr
        /\ r.branch_flag = t.branch_flag /\ r.entry_flag = t.entry_flag
        /\ r.overflow_nums = t.overflow_nums
    BY <1>5, <2>1 DEF Same
  <2>3. t.overflow_nums = 0 => Decodes(x, q, pc) /\ Decodes(t, q, pc)
    <3>1. ASSUME t.overflow_nums = 0
          PROVE  /\ t.address_register = u.regs /\ x.address_register = u.regs
                 /\ u.regs \in [1..3 -> Address]
      BY <1>5, <3>1 DEF Tracked, Follows, TraceUnit
    <3> QED BY <1>2, <3>1, EncodingDecoded
  <2>4. p \in Seq(Int) /\ Len(p) > 0 /\ p[1] \notin Reserved
    <3>1. PICK w : w = [t EXCEPT !.address_register = u.regs]
      OBVIOUS
    <3>2. w.address_register = u.regs /\ u.regs \in [1..3 -> Address]
      BY <3>1 DEF Tracer, Started, TraceUnit
    <3>3. Decodes(w, q, pc)
      BY <1>2, <3>2, EncodingDecoded
    <3>4. q \in Seq(Int)
      BY <3>3 DEF Decodes
    <3> HIDE DEF q
    <3>5. p \in Seq(Int) /\ Len(p) > 0 /\ p[1] = 6
      BY <3>4
    <3> QED BY <3>5, Headers
  <2>5. ASSUME t.overflow_nums = 0
        PROVE  /\ Decoded(t, p).tracer = d /\ Decoded(t, p).len = Len(p)
               /\ Count(d) = Count(t) /\ Tracked(d, u2)
    <3>1. Decodes(x, q, pc)
      BY <2>3, <2>5
    <3>2. Decoded(t, p).tracer = d /\ Decoded(t, p).len = Len(p)
      BY <3>1, ExceptionDecoded
    <3>3. Follows(t, u)
      BY <2>5 DEF Tracked
    <3> HIDE DEF p, q
    <3>4. r.entry_flag \/ pc # Main
      BY <2>2, <3>3 DEF Follows
    <3>5. r.IRQ_addr \in {Zero, pc} \/ ~r.branch_flag \/ ~InText(pc)
      BY <1>6, <2>2, <2>5
    <3> HIDE DEF r
    <3>6. /\ Count(n) = Count(r)
          /\ r.IRQ_addr = Zero => n.from_exception /\ n.IRQ_addr = pc
          /\ r.IRQ_addr # Zero =>
                 \/ n.from_exception /\ n.IRQ_addr = r.IRQ_addr /\ ~Edge(r, pc)
                 \/ ~n.from_exception /\ n.IRQ_addr = Zero
                    /\ r.IRQ_addr = pc /\ Edge(r, pc)
      BY <2>2, <3>4, <3>5, SilentAddress
    <3>7. /\ Tracer(n) /\ n.overflow_nums = r.overflow_nums
          /\ n.address_register = r.address_register
          /\ n.entry_flag = (r.entry_flag \/ pc = Main)
      BY <2>2, AddressKeeps
    <3>8. n.branch_flag = r.branch_flag /\ n.entry_flag = r.entry_flag
      BY <3>6, CountFields
    <3> HIDE DEF n
    <3>9. /\ Same(d, n) /\ d.from_exception = n.from_exception
          /\ d.address_register = n.address_register
      BY <3>7, ExceptionFields
    <3> HIDE DEF d
    <3>10. Edge(r, pc) => r.IRQ_addr = Zero
      BY <1>6, <2>2, <2>5 DEF Edge
    <3>11. n.from_exception /\ (r.IRQ_addr = Zero => n.IRQ_addr = pc)
      BY <3>6, <3>10
    <3>12. /\ d.entry_flag = t.entry_flag /\ d.branch_flag = t.branch_flag
           /\ d.from_exception /\ d.address_register = Push(t.address_register, pc)
           /\ Tracer(d) /\ Count(d) = Count(t)
      BY <1>5, <2>1, <2>2, <3>6, <3>7, <3>8, <3>9, <3>11 DEF Same
    <3>13. d.branch_flag /\ InText(pc) => d.IRQ_addr = pc
      BY <1>6, <2>2, <2>5, <3>9, <3>11, <3>12 DEF Same
    <3>14. Follows(d, u2)
      BY <1>1, <1>8, <3>3, <3>12, <3>13 DEF Follows, InException
    <3> QED BY <3>2, <3>12, <3>14 DEF Tracked, p, d, n, r, q
  <2>6. Packet(t, u2, p, None)
    BY <2>4, <2>5, SilentPacket
  <2> QED BY <1>4, <1>8, <2>6
<1> QED BY <1>7, <1>8

LEMMA TraceOnSent ==
  ASSUME NEW t, NEW u, TraceUnit(u), Tracer(t), Tracked(t, u), u.target = "off", NEW u2,
         u2 = [u EXCEPT !.target = "back"]
  PROVE  TraceUnit(u2) /\ Packet(t, u2, <<4>>, None)
<1>1. /\ DOMAIN u2 = DOMAIN u /\ u2.header = u.header /\ u2.other = u.other
      /\ u2.regs = u.regs /\ u2.arrived = u.arrived /\ u2.entered = u.entered
      /\ u2.at = u.at /\ u2.struck = u.struck /\ u2.target = "back"
  BY DEF TraceUnit, Off, Ready
<1>2. InException(u) /\ InException(u2)
  BY <1>1 DEF InException
<1>3. TraceUnit(u2)
  <2>1. ~u.arrived
    BY DEF TraceUnit
  <2> QED BY <1>1, <1>2, <2>1 DEF TraceUnit
<1> DEFINE p == <<4>>
<1>4. /\ Silent(p) /\ p \in Seq(Int) /\ p[1] = 4 /\ Len(p) = 1 /\ 4 \notin Reserved
  BY TraceOnIsSilent, Headers
<1> HIDE DEF p
<1>5. Decoded(t, p).tracer = t /\ Decoded(t, p).len = Len(p)
  <2>1. SilentTracer(t, p) = t
    BY <1>4 DEF SilentTracer
  <2> QED BY <1>4, <2>1, SilentDecoded
<1>6. t.overflow_nums = 0 => Tracked(t, u2)
  BY <1>1, <1>2 DEF Tracked, Follows
<1>7. p \in Seq(Int) /\ Len(p) > 0 /\ p[1] \notin Reserved
  BY <1>4
<1>8. Packet(t, u2, p, None)
  BY <1>5, <1>6, <1>7, SilentPacket
<1> QED BY <1>3, <1>8 DEF p

LEMMA ReturnSent ==
  ASSUME NEW t, NEW u, TraceUnit(u), Tracer(t), Tracked(t, u), u.target = "back", NEW u2,
         NEW p \in {Encode(u.at, u.regs), EncodeWithContext(u.at, u.regs)},
         u2 = [u EXCEPT !.arrived = TRUE, !.target = "none", !.regs = Push(@, u.at)]
  PROVE  TraceUnit(u2) /\ Packet(t, u2, p, None)
<1> DEFINE a == u.at
           r == update_address_regs(t, a)
           d == tracer_address(r, a)
<1>1. /\ DOMAIN u2 = DOMAIN u /\ u2.header = u.header /\ u2.other = u.other
      /\ u2.regs = Push(u.regs, a) /\ u2.arrived = TRUE /\ u2.entered = u.entered
      /\ u2.at = a /\ u2.struck = u.struck /\ u2.target = "none"
  BY DEF TraceUnit, Off, Ready
<1>2. InException(u) /\ ~InException(u2)
  BY <1>1 DEF InException
<1>3. a \in Targets /\ u.struck \in 1..2 /\ (u.entered \/ a # Main)
  BY <1>2 DEF TraceUnit
<1>4. a \in Address /\ a # Zero /\ a # NoWhere
  <2>1. a \in Address /\ a # Zero
    BY <1>3, TraceAssumption
  <2>2. a.lo \in Nat /\ NoWhere.lo = -1
    BY <2>1, AddressFields DEF NoWhere
  <2> QED BY <2>1, <2>2
<1> HIDE DEF a
<1>5. TraceUnit(u2)
  <2>1. Push(u.regs, a) \in [1..3 -> Address]
    <3>1. u.regs[1] \in Address /\ u.regs[2] \in Address
      BY DEF TraceUnit
    <3> QED BY <1>4, <3>1 DEF Push
  <2>2. u2.arrived \in BOOLEAN
    BY <1>1
  <2> QED BY <1>1, <1>2, <1>3, <2>1, <2>2 DEF TraceUnit
<1>6. /\ Same(r, t) /\ r.from_exception = t.from_exception
      /\ r.address_register = Push(t.address_register, a)
  BY <1>4, RegistersPushed
<1>7. p \in Seq(Int) /\ Len(p) > 0 /\ p[1] \notin Reserved
  <2>1. PICK w : w = [t EXCEPT !.address_register = u.regs]
    OBVIOUS
  <2>2. w.address_register = u.regs /\ u.regs \in [1..3 -> Address]
    BY <2>1 DEF Tracer, Started, TraceUnit
  <2>3. Decodes(w, p, a)
    BY <1>4, <2>2, EncodingDecoded DEF a
  <2> QED BY <2>3, AddressDecoded
<1>8. ASSUME t.overflow_nums = 0
      PROVE  /\ Decoded(t, p).tracer = d /\ Decoded(t, p).len = Len(p)
             /\ Count(d) = Count(t) /\ Tracked(d, u2)
  <2>1. Follows(t, u)
    BY <1>8 DEF Tracked
  <2>2. Decodes(t, p, a)
    <3>1. t.address_register = u.regs /\ t.address_register \in [1..3 -> Address]
      BY <2>1 DEF Follows, Tracer
    <3> QED BY <1>4, <3>1, EncodingDecoded DEF a
  <2>3. Decoded(t, p).tracer = d /\ Decoded(t, p).len = Len(p)
    BY <2>2, AddressDecoded
  <2> HIDE DEF r
  <2>4. /\ Tracer(r) /\ r.from_exception /\ r.IRQ_addr = t.IRQ_addr
        /\ r.branch_flag = t.branch_flag /\ r.entry_flag = t.entry_flag
        /\ r.entry_flag = u.entered
        /\ (r.branch_flag => r.entry_flag)
    BY <1>2, <1>6, <2>1 DEF Same, Follows
  <2>5. r.branch_flag /\ InText(a) => r.IRQ_addr = a \/ (r.IRQ_addr = Zero /\ u.struck = 2)
    BY <1>2, <2>1, <2>4 DEF Follows, a
  <2>6. r.entry_flag \/ a # Main
    BY <1>3, <2>4
  <2>7. r.IRQ_addr \in {Zero, a} \/ ~r.branch_flag \/ ~InText(a)
    BY <2>5
  <2>8. /\ Count(d) = Count(r)
        /\ r.IRQ_addr = Zero => d.from_exception /\ d.IRQ_addr = a
        /\ r.IRQ_addr # Zero =>
               \/ d.from_exception /\ d.IRQ_addr = r.IRQ_addr /\ ~Edge(r, a)
               \/ ~d.from_exception /\ d.IRQ_addr = Zero
                  /\ r.IRQ_addr = a /\ Edge(r, a)
    BY <2>4, <2>6, <2>7, SilentAddress
  <2>9. /\ Tracer(d) /\ d.overflow_nums = r.overflow_nums
        /\ d.address_register = r.address_register
    BY <2>4, AddressKeeps
  <2>10. d.branch_flag = r.branch_flag /\ d.entry_flag = r.entry_flag
    BY <2>8, CountFields
  <2> HIDE DEF d
  <2>11. d.branch_flag /\ InText(a) => u.struck = 2 \/ (u.struck = 1 /\ ~d.from_exception)
    <3>1. CASE r.IRQ_addr = Zero
      BY <1>4, <2>5, <2>10, <3>1
    <3>2. CASE r.IRQ_addr # Zero
      BY <1>3, <2>4, <2>8, <2>10, <3>2 DEF Edge
    <3> QED BY <3>1, <3>2
  <2>12. d.IRQ_addr # Zero => d.from_exception
    BY <2>8
  <2>13. Follows(d, u2)
    <3>1. d.entry_flag = u2.entered /\ d.address_register = u2.regs
      BY <1>1, <1>6, <2>1, <2>4, <2>9, <2>10 DEF Follows
    <3>2. d.branch_flag => d.entry_flag
      BY <2>4, <2>10
    <3> QED BY <1>1, <1>2, <1>4, <2>11, <2>12, <3>1, <3>2 DEF Follows
  <2> QED BY <1>6, <2>3, <2>8, <2>9, <2>13 DEF Tracked, Same
<1> HIDE DEF d
<1> QED BY <1>5, <1>7, <1>8, SilentPacket

LEMMA OtherSent ==
  ASSUME NEW t, NEW u, TraceUnit(u), Tracer(t), Tracked(t, u), u.other # <<>>, NEW u2,
         u2 = [u EXCEPT !.other = Tail(@), !.arrived = FALSE,
                        !.regs = IF Head(u.other)[1] = 1 THEN <<Zero, Zero, Zero>> ELSE @]
  PROVE  TraceUnit(u2) /\ Packet(t, u2, Head(u.other), None)
<1> DEFINE p == Head(u.other)
           d == SilentTracer(t, p)
<1>1. /\ DOMAIN u2 = DOMAIN u /\ u2.header = u.header /\ u2.other = Tail(u.other)
      /\ u2.regs = IF p[1] = 1 THEN Reset ELSE u.regs
      /\ u2.arrived = FALSE /\ u2.entered = u.entered
      /\ u2.at = u.at /\ u2.struck = u.struck /\ u2.target = u.target
  BY DEF TraceUnit, Off, Ready, Reset
<1>2. /\ p \in Seq(0..255) /\ Silent(p) /\ Tail(u.other) \in Seq(Seq(0..255))
      /\ \A i \in 1..Len(Tail(u.other)) : Silent(Tail(u.other)[i])
  <2>1. u.other \in Seq(Seq(0..255)) /\ \A i \in 1..Len(u.other) : Silent(u.other[i])
    BY DEF TraceUnit
  <2> DEFINE S == Seq(0..255)
             o == u.other
  <2> HIDE DEF S, o
  <2>2. o \in Seq(S) /\ o # <<>>
    BY <2>1 DEF S, o
  <2>3. /\ Head(o) = o[1] /\ 1 \in 1..Len(o) /\ o[1] \in S /\ Tail(o) \in Seq(S)
        /\ Len(Tail(o)) = Len(o) - 1 /\ \A i \in 1..Len(Tail(o)) : Tail(o)[i] = o[i + 1]
    BY <2>2
  <2>4. \A i \in 1..Len(Tail(o)) : i + 1 \in 1..Len(o)
    BY <2>2, <2>3
  <2> QED BY <2>1, <2>3, <2>4 DEF S, o
<1>3. p \in Seq(Int)
  <2> DEFINE S == 0..255
  <2>1. p \in Seq(S) /\ S \subseteq Int
    BY <1>2
  <2> HIDE DEF S, p
  <2> QED BY <2>1
<1>4. /\ Len(p) > 0 /\ (p[1] \in Reserved => Len(p) = 1)
      /\ Decoded(t, p).tracer = d /\ Decoded(t, p).len = Len(p)
  BY <1>2, <1>3, SilentDecoded
<1>5. InException(u2) <=> InException(u)
  BY <1>1 DEF InException
<1>6. Reset \in [1..3 -> Address]
  BY ZeroIsAddress DEF Reset
<1> HIDE DEF p
<1>7. TraceUnit(u2)
  <2>1. u2.arrived \in BOOLEAN /\ ~u2.arrived
    BY <1>1
  <2>2. u2.regs \in [1..3 -> Address]
    BY <1>1, <1>6 DEF TraceUnit
  <2>3. /\ u2.other \in Seq(Seq(0..255))
        /\ \A i \in 1..Len(u2.other) : Silent(u2.other[i])
    BY <1>1, <1>2
  <2> QED BY <1>1, <1>5, <2>1, <2>2, <2>3 DEF TraceUnit
<1>8. /\ Same(d, t) /\ d.from_exception = t.from_exception
      /\ d.address_register = IF p[1] = 1 THEN Reset ELSE t.address_register
  <2>1. CASE p[1] = 1
    <3>1. d = [t EXCEPT !.address_register = Reset]
      BY <2>1 DEF SilentTracer
    <3> QED BY <2>1, <3>1, RegistersReset
  <2>2. CASE p[1] # 1
    BY <2>2 DEF SilentTracer, Same
  <2> QED BY <2>1, <2>2
<1> HIDE DEF d
<1>9. t.overflow_nums = 0 => Tracked(d, u2)
  <2>1. t.overflow_nums = 0 => Follows(d, u2)
    <3>1. SUFFICES ASSUME Follows(t, u)
                   PROVE  Follows(d, u2)
      BY DEF Tracked
    <3>2. d.address_register = u2.regs
      BY <1>1, <1>8, <3>1 DEF Follows
    <3> QED BY <1>1, <1>5, <1>8, <3>1, <3>2 DEF Follows, Same
  <2> QED BY <1>8, <2>1 DEF Tracked, Same
<1>10. Count(d) = Count(t)
  BY <1>8 DEF Same
<1>11. Packet(t, u2, p, None)
  <2>1. Seen(Count(t), None) = Count(t)
    BY DEF Seen
  <2> QED BY <1>3, <1>4, <1>9, <1>10, <2>1 DEF Packet
<1> QED BY <1>7, <1>11 DEF p

LEMMA OverflowSent ==
  ASSUME NEW t, NEW u, TraceUnit(u), Tracer(t), NEW u2,
         u2 = [u EXCEPT !.overflowed = TRUE, !.arrived = FALSE, !.at = NoWhere,
                        !.target = "must"]
  PROVE  TraceUnit(u2) /\ Packet(t, u2, <<0, 5>>, None)
<1> DEFINE d == [t EXCEPT !.overflow_nums = @ + 1]
           p == <<0, 5>>
<1>1. /\ DOMAIN u2 = DOMAIN u /\ u2.header = u.header /\ u2.other = u.other
      /\ u2.regs = u.regs /\ u2.arrived = FALSE /\ u2.entered = u.entered
      /\ u2.at = NoWhere /\ u2.struck = u.struck /\ u2.target = "must"
  BY DEF TraceUnit, Off, Ready
<1>2. TraceUnit(u2)
  <2>1. ~InException(u2)
    BY <1>1 DEF InException
  <2>2. u2.arrived \in BOOLEAN /\ ~u2.arrived
    BY <1>1
  <2> QED BY <1>1, <2>1, <2>2 DEF TraceUnit
<1>3. p \in Seq(Int) /\ Len(p) = 2 /\ p[1] = 0
  OBVIOUS
<1>4. Decoded(t, p).tracer = d /\ Decoded(t, p).len = 2 /\ 0 \notin Reserved
  <2>1. Decoded(t, p) = [tracer |-> d, len |-> 2] /\ 0 \notin Reserved
    BY OverflowDecoded
  <2> HIDE DEF d, p
  <2> QED BY <2>1
<1>5. Tracer(d) /\ Count(d) = Count(t) /\ d.overflow_nums = t.overflow_nums + 1
  BY OverflowFields
<1> HIDE DEF d, p
<1>6. Tracked(d, u2)
  BY <1>5 DEF Tracked, Tracer
<1>7. p[1] \notin Reserved /\ Len(p) > 0 /\ Len(p) = Decoded(t, p).len
  BY <1>3, <1>4
<1>8. Packet(t, u2, p, None)
  BY <1>3, <1>4, <1>5, <1>6, <1>7, SilentPacket
<1> QED BY <1>2, <1>8 DEF p

-----------------------------------------------------------------------------
(* The mode of a run does not change while it is decoded, and what the      *)
(* decoder does depends on no other variable.                               *)

LEMMA CountingKept ==
  ASSUME bb_mode' = bb_mode
  PROVE  /\ \A t, c : decode_atoms(t, c)' = decode_atoms(t, c)
         /\ \A t, a : tracer_address(t, a)' = tracer_address(t, a)
<1>1. \A t, c : decode_atoms(t, c)' = decode_atoms(t, c)
  BY DEF decode_atoms
<1>2. \A t, a : count_branch(t, a)' = count_branch(t, a)
  BY DEF count_branch
<1>3. \A t, a : tracer_address(t, a)' = tracer_address(t, a)
  BY <1>2 DEF tracer_address
<1> QED BY <1>1, <1>3

LEMMA DecodedKept ==
  ASSUME bb_mode' = bb_mode
  PROVE  /\ \A t, p : decode(t, p)' = decode(t, p)
         /\ \A t, p : Decoded(t, p)' = Decoded(t, p)
<1>1. ASSUME NEW t, NEW p
      PROVE  decode_address(t, p)' = decode_address(t, p)
  <2> DEFINE r == t.address_register[1]
             a == CASE p[1] \in 144..147 -> t.address_register[p[1] - 143]
                    [] p[1] = 149 -> short_address(r, p)
                    [] p[1] \in {130, 154} -> long_address_32bit(r, p)
                    [] p[1] \in {133, 157} -> long_address_64bit(r, p)
             n == CASE p[1] \in 144..147 -> 1
                    [] p[1] = 149 -> IF p[2] >= 128 THEN 3 ELSE 2
                    [] p[1] = 154 -> 5 [] p[1] = 157 -> 9
                    [] p[1] = 130 -> 5 + context_len(p, 6)
                    [] p[1] = 133 -> 9 + context_len(p, 10)
  <2>1. decode_address(t, p) =
          [tracer |-> tracer_address(update_address_regs(t, a), a), len |-> n]
    BY Zenon DEF decode_address
  <2>2. decode_address(t, p)' =
          [tracer |-> tracer_address(update_address_regs(t, a), a)', len |-> n]
    BY Zenon DEF decode_address
  <2> HIDE DEF a, n
  <2> QED BY <2>1, <2>2, CountingKept
<1>2. ASSUME NEW t, NEW p
      PROVE  decode_exception(t, p)' = decode_exception(t, p)
  <2>1. \A r, q : decode_address(r, q)' = decode_address(r, q)
    BY <1>1
  <2> QED BY <2>1 DEF decode_exception
<1>3. \A t, p : decode(t, p)' = decode(t, p)
  BY <1>1, <1>2 DEF decode
<1>4. \A t, p : Decoded(t, p)' = Decoded(t, p)
  BY <1>3, CountingKept DEF Decoded
<1> QED BY <1>3, <1>4

LEMMA SeenKept ==
  ASSUME bb_mode' = bb_mode
  PROVE  \A c, e : Seen(c, e)' = Seen(c, e)
<1>1. \A c, a : Abs!Location(c, a)' = Abs!Location(c, a)
  BY DEF Abs!Location
<1>2. ASSUME NEW c, NEW a
      PROVE  Abs!Arrive(c, a)' = Abs!Arrive(c, a)
  <2>1. Abs!Location(c, a)' = Abs!Location(c, a)
    BY <1>1
  <2> QED BY <2>1 DEF Abs!Arrive
<1>3. \A c, s : Abs!Branches(c, s)' = Abs!Branches(c, s)
  BY DEF Abs!Branches
<1> QED BY <1>2, <1>3 DEF Seen

LEMMA PacketKept ==
  ASSUME bb_mode' = bb_mode
  PROVE  /\ \A t : Tracer(t)' <=> Tracer(t)
         /\ \A t, u : Tracked(t, u)' <=> Tracked(t, u)
         /\ \A t, u, p, e : Packet(t, u, p, e)' <=> Packet(t, u, p, e)
<1>1. \A t : Tracer(t)' <=> Tracer(t)
  BY DEF Tracer
<1>2. \A t, u : Tracked(t, u)' <=> Tracked(t, u)
  BY <1>1 DEF Tracked
<1>3. \A t, u, p, e : Packet(t, u, p, e)' <=> Packet(t, u, p, e)
  BY <1>2, DecodedKept, SeenKept DEF Packet
<1> QED BY <1>1, <1>2, <1>3

\* A step in which the unit sends a packet.
LEMMA Sent ==
  ASSUME DecoderInv, NEW p, NEW e, Send(p, e),
         TraceUnit(unit'), Packet(tracer, unit', p, e)
  PROVE  DecoderInv'
<1>1. /\ bb_mode' = bb_mode /\ state = "DECODING" /\ state' = "DECODING"
      /\ tracer' = tracer /\ buff' = p /\ event' = e
  BY DEF Send
<1>2. Packet(tracer', unit', buff', event') /\ Tracer(tracer')
  BY <1>1 DEF DecoderInv
<1>3. Packet(tracer, unit, buff, event)' /\ Tracer(tracer)' /\ TraceUnit(unit)'
  BY <1>1, <1>2, PacketKept
<1>4. buff' # <<>> /\ bb_mode' \in BOOLEAN
  BY <1>1 DEF Packet, DecoderInv
<1> QED BY <1>1, <1>3, <1>4 DEF DecoderInv

\* Parts of sequences.
LEMMA Parts ==
  ASSUME NEW S, NEW s \in Seq(S), NEW t \in Seq(S)
  PROVE  /\ SubSeq(s \o t, 1, Len(s)) = s
         /\ SubSeq(s \o t, Len(s) + 1, Len(s) + Len(t)) = t
<1>1. PICK r : r = s \o t
  OBVIOUS
<1>2. /\ r \in Seq(S) /\ Len(r) = Len(s) + Len(t)
      /\ \A i \in 1..Len(s) + Len(t) : r[i] = IF i <= Len(s) THEN s[i] ELSE t[i - Len(s)]
  BY <1>1, ConcatProperties
<1>3. Len(s) \in Nat /\ Len(t) \in Nat
  OBVIOUS
<1>4. \A m, n \in Int : 1 <= m /\ n <= Len(r) =>
        /\ SubSeq(r, m, n) \in Seq(S)
        /\ Len(SubSeq(r, m, n)) = IF m <= n THEN n - m + 1 ELSE 0
        /\ \A i \in 1..n - m + 1 : SubSeq(r, m, n)[i] = r[m + i - 1]
  <2>1. ASSUME NEW m \in Int, NEW n \in Int, 1 <= m, n <= Len(r)
        PROVE  \A i \in m..n : r[i] \in S
    BY <1>2, <1>3, <2>1
  <2> QED BY <2>1, SubSeqProperties, SMTT(30)
<1>5. SubSeq(r, 1, Len(s)) = s
  <2>1. PICK q : q = SubSeq(r, 1, Len(s))
    OBVIOUS
  <2>2. q \in Seq(S) /\ Len(q) = Len(s) /\ \A i \in 1..Len(s) : q[i] = r[i]
    BY <1>2, <1>3, <1>4, <2>1
  <2>3. \A i \in 1..Len(q) : q[i] = s[i]
    BY <1>2, <1>3, <2>2
  <2> QED BY <2>1, <2>2, <2>3, SeqEqual
<1>6. SubSeq(r, Len(s) + 1, Len(s) + Len(t)) = t
  <2>1. PICK q : q = SubSeq(r, Len(s) + 1, Len(s) + Len(t))
    OBVIOUS
  <2>2. q \in Seq(S) /\ Len(q) = Len(t) /\ \A i \in 1..Len(t) : q[i] = r[Len(s) + i]
    BY <1>2, <1>3, <1>4, <2>1
  <2>3. \A i \in 1..Len(q) : q[i] = t[i]
    BY <1>2, <1>3, <2>2
  <2> QED BY <2>1, <2>2, <2>3, SeqEqual
<1> QED BY <1>1, <1>5, <1>6

LEMMA SyncBytes ==
  /\ Async \in Seq(Int) /\ Len(Async) = 12
  /\ Sync \in Seq(Int) /\ Len(Sync) = 16 /\ Sync[1] = 0
  /\ SubSeq(Sync, 1, 12) = Async /\ SubSeq(Sync, 13, 16) = <<1, 1, 0, 4>>
<1> DEFINE i == <<1, 1, 0, 4>>
<1>1. Async \in Seq(Int) /\ Len(Async) = 12 /\ Async[1] = 0
  BY DEF Async
<1>2. i \in Seq(Int) /\ Len(i) = 4
  OBVIOUS
<1> HIDE DEF i
<1>3. Sync = Async \o i
  BY DEF Sync, i
<1>4. Sync \in Seq(Int) /\ Len(Sync) = 16 /\ Sync[1] = 0
  <2>1. Sync \in Seq(Int) /\ Len(Sync) = Len(Async) + Len(i)
    BY <1>1, <1>2, <1>3, Concatenated
  <2>2. \A k \in 1..Len(Async) + Len(i) :
          Sync[k] = IF k <= Len(Async) THEN Async[k] ELSE i[k - Len(Async)]
    BY <1>1, <1>2, <1>3, Concatenated
  <2> QED BY <1>1, <1>2, <2>1, <2>2
<1>5. SubSeq(Sync, 1, 12) = Async /\ SubSeq(Sync, 13, 16) = i
  <2>1. SubSeq(Sync, 1, Len(Async)) = Async
    BY <1>1, <1>2, <1>3, Parts
  <2>2. SubSeq(Sync, Len(Async) + 1, Len(Async) + Len(i)) = i
    BY <1>1, <1>2, <1>3, Parts
  <2> QED BY <1>1, <1>2, <2>1, <2>2
<1> QED BY <1>1, <1>4, <1>5 DEF i

\* What the decoder consumed left it in step with the unit.
LEMMA InStep ==
  ASSUME DecoderInv, state = "DECODING", buff = <<>>
  PROVE  event = None /\ Tracked(tracer, unit) /\ Tracer(tracer) /\ TraceUnit(unit)
<1>1. Sync # <<>> /\ <<1, 1, 0, 4>> # <<>>
  <2> DEFINE i == <<1, 1, 0, 4>>
  <2>1. Sync \in Seq(Int) /\ Len(Sync) = 16 /\ i \in Seq(Int) /\ Len(i) = 4
    BY SyncBytes
  <2> HIDE DEF i
  <2>2. Sync # <<>> /\ i # <<>>
    <3>1. \A s \in Seq(Int) : Len(s) > 0 => s # <<>>
      OBVIOUS
    <3>2. Len(Sync) > 0 /\ Len(i) > 0
      BY <2>1
    <3>3. Sync # <<>> 
      BY <2>1, <3>1, <3>2
    <3>4. i # <<>> 
      BY <2>1, <3>1, <3>2
    <3> QED BY <3>3, <3>4
  <2> QED BY <2>2 DEF i
<1>2. ~Packet(tracer, unit, buff, event)
  BY DEF Packet
<1> QED BY <1>1, <1>2 DEF DecoderInv

LEMMA UnitStep ==
  ASSUME MaxInterrupts \in 0..2, DecoderInv, Unit
  PROVE  DecoderInv'
<1>1. /\ state = "DECODING" /\ buff = <<>> /\ Tracked(tracer, unit)
      /\ Tracer(tracer) /\ TraceUnit(unit)
  <2>1. state = "DECODING" /\ buff = <<>>
    BY DEF Unit, SendAtoms, SendAddress, SendException, SendTraceOn, SendReturn,
           SendOther, SendOverflow, Send
  <2> QED BY <2>1, InStep
<1>2. CASE SendAtoms
  <2>1. PICK c \in {246, 247, unit.header} :
          /\ Send(<<c>>, [op |-> "atoms", atoms |-> AtomSeq(c)])
          /\ unit' = [unit EXCEPT !.events = @ - 1, !.arrived = FALSE, !.struck = 0,
                        !.at = NoWhere,
                        !.target = IF ~(AtomSeq(c)[Len(AtomSeq(c))] = 1) THEN "none"
                                   ELSE IF bb_mode THEN "must" ELSE "may"]
    BY <1>2, ZenonT(60) DEF SendAtoms
  <2>2. c \in Atoms
    <3>1. unit.header \in Atoms /\ 246 \in Atoms /\ 247 \in Atoms
      BY <1>1 DEF Atoms, TraceUnit
    <3> QED BY <2>1, <3>1
  <2>3. /\ TraceUnit(unit')
        /\ Packet(tracer, unit', <<c>>, [op |-> "atoms", atoms |-> AtomSeq(c)])
    BY <1>1, <2>1, <2>2, AtomsSent
  <2> QED BY <2>1, <2>3, Sent
<1>3. CASE SendAddress
  <2>1. PICK a \in Targets, in \in BOOLEAN :
          /\ in = (unit.entered \/ a = Main)
          /\ unit.target \in {"may", "must"}
          /\ Send(Encode(a, unit.regs), [op |-> "arrive", address |-> a])
          /\ unit' = [unit EXCEPT !.events = @ - 1, !.arrived = TRUE, !.target = "none",
                        !.regs = Push(@, a), !.entered = in, !.at = a]
    BY <1>3 DEF SendAddress
  <2>2. /\ TraceUnit(unit')
        /\ Packet(tracer, unit', Encode(a, unit.regs), [op |-> "arrive", address |-> a])
    <3>1. Arrives(unit, a, unit')
      BY <1>1, <2>1 DEF Arrives, TraceUnit, Off, Ready
    <3> QED BY <1>1, <2>1, <3>1, AddressSent
  <2> QED BY <2>1, <2>2, Sent
<1>4. CASE SendException
  <2>1. PICK pc \in Targets, here \in BOOLEAN :
          /\ here = (unit.arrived /\ pc = unit.regs[1])
          /\ unit.target \in {"none", "may"} /\ unit.struck < MaxInterrupts
          /\ unit.at # NoWhere => (InText(pc) <=> InText(unit.at))
          /\ unit.entered \/ pc # Main
          /\ Send(IF here THEN <<6, 157, 0>> ELSE <<6, 92>> \o Encode(pc, unit.regs), None)
          /\ unit' = [unit EXCEPT !.interrupts = @ - 1, !.struck = @ + 1,
                        !.arrived = FALSE, !.target = "off", !.at = pc,
                        !.regs = IF here THEN @ ELSE Push(@, pc)]
    BY <1>4 DEF SendException
  <2>3. unit.struck < 2
    BY <1>1, <2>1, MaxInterrupts \in 0..2 DEF TraceUnit
  <2>2. /\ TraceUnit(unit')
        /\ Packet(tracer, unit',
                  IF here THEN <<6, 157, 0>> ELSE <<6, 92>> \o Encode(pc, unit.regs), None)
    BY <1>1, <2>1, <2>3, ExceptionSent, ZenonT(60)
  <2> QED BY <2>1, <2>2, Sent
<1>5. CASE SendTraceOn
  <2>1. /\ unit.target = "off" /\ Send(<<4>>, None)
        /\ unit' = [unit EXCEPT !.target = "back"]
    BY <1>5 DEF SendTraceOn
  <2>2. TraceUnit(unit') /\ Packet(tracer, unit', <<4>>, None)
    BY <1>1, <2>1, TraceOnSent
  <2> QED BY <2>1, <2>2, Sent
<1>6. CASE SendReturn
  <2>1. PICK p \in {Encode(unit.at, unit.regs), EncodeWithContext(unit.at, unit.regs)} :
          /\ unit.target = "back" /\ Send(p, None)
          /\ unit' = [unit EXCEPT !.arrived = TRUE, !.target = "none",
                                  !.regs = Push(@, unit.at)]
    BY <1>6 DEF SendReturn
  <2>2. TraceUnit(unit') /\ Packet(tracer, unit', p, None)
    BY <1>1, <2>1, ReturnSent
  <2> QED BY <2>1, <2>2, Sent
<1>7. CASE SendOther
  <2>1. /\ unit.other # <<>> /\ Send(Head(unit.other), None)
        /\ unit' = [unit EXCEPT !.other = Tail(@), !.arrived = FALSE,
                      !.regs = IF Head(unit.other)[1] = 1 THEN <<Zero, Zero, Zero>> ELSE @]
    BY <1>7 DEF SendOther
  <2>2. TraceUnit(unit') /\ Packet(tracer, unit', Head(unit.other), None)
    BY <1>1, <2>1, OtherSent
  <2> QED BY <2>1, <2>2, Sent
<1>8. CASE SendOverflow
  <2>1. /\ Send(<<0, 5>>, None)
        /\ unit' = [unit EXCEPT !.overflowed = TRUE, !.arrived = FALSE, !.at = NoWhere,
                                !.target = "must"]
    BY <1>8 DEF SendOverflow
  <2>2. TraceUnit(unit') /\ Packet(tracer, unit', <<0, 5>>, None)
    BY <1>1, <2>1, OverflowSent
  <2> QED BY <2>1, <2>2, Sent
<1> QED BY <1>2, <1>3, <1>4, <1>5, <1>6, <1>7, <1>8 DEF Unit

-----------------------------------------------------------------------------
(* The decoder's own steps.                                                 *)

\* The synchronisation a trace begins with, and its trace info packet.
LEMMA SyncDecoded ==
  ASSUME NEW t
  PROVE  /\ decode(t, Sync) = [tracer |-> t, len |-> 12]
         /\ decode(t, <<1, 1, 0, 4>>) = [tracer |-> [t EXCEPT !.address_register = Reset],
                                         len |-> 3]
<1>1. decode(t, Sync) = [tracer |-> t, len |-> 12]
  <2>1. decode_extension(t, Sync) = [tracer |-> t, len |-> 12]
    BY SyncBytes DEF decode_extension
  <2>2. Sync[1] = 0 /\ ~IsAddress(Sync[1])
    BY SyncBytes, Headers
  <2>3. decode(t, Sync) = decode_extension(t, Sync)
    BY <2>2 DEF decode
  <2> QED BY <2>1, <2>3
<1> DEFINE p == <<1, 1, 0, 4>>
<1>2. Len(p) = 4 /\ p[1] = 1 /\ p[2] = 1 /\ p[3] = 0
  OBVIOUS
<1> HIDE DEF p
<1>3. Chain(p, 3, 1) = 1
  <2> DEFINE ends == {n \in 1..1 : 3 + n - 1 <= Len(p) /\ p[3 + n - 1] < 128}
  <2>1. ends = {1}
    BY <1>2
  <2>2. Min(ends) = 1
    BY <2>1 DEF Min
  <2> HIDE DEF ends
  <2>3. Chain(p, 3, 1) = IF ends = {} THEN 0 ELSE Min(ends)
    BY DEF Chain, ends
  <2> QED BY <2>1, <2>2, <2>3
<1>4. trace_info_len(p) = 3
  <2>1. /\ (1 \div 2^0) % 2 = 1 /\ (1 \div 2^1) % 2 # 1
        /\ (1 \div 2^2) % 2 # 1 /\ (1 \div 2^3) % 2 # 1
    OBVIOUS
  <2> QED BY <1>2, <1>3, <2>1 DEF trace_info_len
<1>5. decode_trace_info(t, p) = [tracer |-> [t EXCEPT !.address_register = Reset], len |-> 3]
  BY <1>4 DEF decode_trace_info, Reset
<1>6. decode(t, p) = decode_trace_info(t, p)
  <2>1. p[1] = 1 /\ ~IsAddress(p[1])
    BY <1>2, Headers
  <2> QED BY <2>1 DEF decode
<1> QED BY <1>1, <1>5, <1>6 DEF p

\* What follows a trace info packet, the registers being reset.
LEMMA TraceInfoDecoded ==
  ASSUME NEW t, Tracer(t), NEW u, Tracked(t, u), u.regs = Reset, NEW d,
         Same(d, t), d.from_exception = t.from_exception, d.address_register = Reset
  PROVE  Packet(d, u, <<4>>, None)
<1>1. d.overflow_nums = 0 => Tracked(d, u)
  BY DEF Tracked, Follows, Same
<1> DEFINE p == <<4>>
<1>2. /\ Silent(p) /\ p \in Seq(Int) /\ p[1] = 4 /\ Len(p) = 1 /\ 4 \notin Reserved
  BY TraceOnIsSilent, Headers
<1> HIDE DEF p
<1>3. Decoded(d, p).tracer = d /\ Decoded(d, p).len = Len(p)
  <2>1. SilentTracer(d, p) = d
    BY <1>2 DEF SilentTracer
  <2> QED BY <1>2, <2>1, SilentDecoded
<1>4. p \in Seq(Int) /\ Len(p) > 0 /\ p[1] \notin Reserved
  BY <1>2
<1>5. Packet(d, u, p, None)
  BY <1>1, <1>3, <1>4, SilentPacket DEF Same
<1> QED BY <1>5 DEF p

\* A packet is consumed as a whole, and its event with it.
LEMMA PacketConsumed ==
  ASSUME Packet(tracer, unit, buff, event), SkipByte \/ CountAtoms \/ DecodePacket
  PROVE  /\ buff' = <<>> /\ event' = None
         /\ UNCHANGED <<unit, state, bb_mode>>
         /\ IF tracer.overflow_nums = 0 THEN tracer' = Decoded(tracer, buff).tracer
                                        ELSE event = None /\ tracer' = tracer
<1>1. buff \in Seq(Int) /\ Len(buff) > 0 /\ Head(buff) = buff[1]
  BY DEF Packet
<1>2. /\ SubSeq(buff, Len(buff) + 1, Len(buff)) = <<>>
      /\ Consume(Len(buff)) => buff' = <<>> /\ event' = None
  BY <1>1 DEF Consume
<1>3. CASE SkipByte
  <2>1. Len(buff) = 1 /\ event = None /\ Consume(1) /\ buff[1] \in Reserved
    BY <1>1, <1>3 DEF SkipByte, Packet
  <2>2. Decoded(tracer, buff).tracer = tracer
    BY <2>1 DEF Decoded
  <2> QED BY <1>2, <1>3, <2>1, <2>2 DEF SkipByte
<1>4. CASE CountAtoms
  <2>1. /\ tracer.overflow_nums = 0 /\ IsAtom(buff[1]) /\ Consume(1)
        /\ tracer' = decode_atoms(tracer, buff[1])
    BY <1>1, <1>4 DEF CountAtoms
  <2>2. buff[1] \notin Reserved
    BY <2>1 DEF IsAtom, Reserved
  <2>3. Decoded(tracer, buff) = [tracer |-> decode_atoms(tracer, buff[1]), len |-> 1]
    BY <2>1, <2>2 DEF Decoded
  <2>4. Len(buff) = 1
    BY <2>1, <2>3 DEF Packet
  <2> QED BY <1>2, <1>4, <2>1, <2>3, <2>4 DEF CountAtoms
<1>5. CASE DecodePacket
  <2> DEFINE d == decode(tracer, buff)
  <2>1. /\ tracer.overflow_nums = 0 /\ ~IsAtom(buff[1]) /\ buff[1] \notin Reserved
        /\ Consume(IF d.len <= 0 THEN 1 ELSE d.len) /\ tracer' = d.tracer
    BY <1>1, <1>5 DEF DecodePacket
  <2>2. Decoded(tracer, buff) = d
    BY <2>1 DEF Decoded
  <2>3. d.len = Len(buff)
    BY <2>1, <2>2 DEF Packet
  <2> HIDE DEF d
  <2>4. Consume(Len(buff))
    BY <1>1, <2>1, <2>3
  <2> QED BY <1>2, <1>5, <2>1, <2>2, <2>4 DEF DecodePacket, d
<1> QED BY <1>3, <1>4, <1>5

Consumption == SkipByte \/ CountAtoms \/ DecodePacket

LEMMA SyncConsumed ==
  ASSUME buff \in {Sync, <<1, 1, 0, 4>>}, event = None, Consumption
  PROVE  /\ event' = None /\ UNCHANGED <<unit, state, bb_mode>>
         /\ Len(buff') < Len(buff)
         /\ \/ buff' = <<1, 1, 0, 4>> /\ tracer' = tracer
            \/ buff' = <<4>> /\ tracer' = [tracer EXCEPT !.address_register = Reset]
<1> DEFINE i == <<1, 1, 0, 4>>
           on == <<4>>
           d == [tracer EXCEPT !.address_register = Reset]
<1>1. i \in Seq(Int) /\ Len(i) = 4 /\ i[1] = 1 /\ Head(i) = i[1] /\ Len(on) = 1
  OBVIOUS
<1>2. SubSeq(i, 4, 4) = on
  <2> DEFINE s == <<1, 1, 0>>
  <2>1. s \in Seq(Int) /\ Len(s) = 3 /\ on \in Seq(Int) /\ Len(on) = 1
    OBVIOUS
  <2>2. i = s \o on
    OBVIOUS
  <2> HIDE DEF s, on, i
  <2>3. SubSeq(i, Len(s) + 1, Len(s) + Len(on)) = on
    BY <2>1, <2>2, Parts
  <2>4. Len(s) + 1 = 4 /\ Len(s) + Len(on) = 4
    BY <2>1
  <2> QED BY <2>3, <2>4
<1>3. Sync \in Seq(Int) /\ Len(Sync) = 16 /\ Sync[1] = 0 /\ SubSeq(Sync, 13, 16) = i
  BY SyncBytes
<1>4. decode(tracer, Sync) = [tracer |-> tracer, len |-> 12]
  BY SyncDecoded
<1>5. decode(tracer, i) = [tracer |-> d, len |-> 3]
  BY SyncDecoded
<1> HIDE DEF i, on, d
<1>6. buff \in {Sync, i}
  BY DEF i
<1>7. Head(buff) \notin Reserved /\ ~IsAtom(Head(buff))
  <2>1. Head(Sync) = Sync[1]
    BY <1>3
  <2>2. Head(buff) \in {0, 1}
    BY <1>1, <1>3, <1>6, <2>1
  <2> QED BY <2>2, Headers
<1>8. DecodePacket
  BY <1>7 DEF Consumption, SkipByte, CountAtoms
<1>9. /\ event' = None /\ UNCHANGED <<unit, state, bb_mode>>
      /\ Len(buff') < Len(buff)
      /\ (buff' = i /\ tracer' = tracer) \/ (buff' = on /\ tracer' = d)
  <2>1. CASE buff = Sync
    <3>1. Consume(12) /\ tracer' = tracer /\ UNCHANGED <<unit, state, bb_mode>>
      BY <1>4, <1>8, <2>1 DEF DecodePacket
    <3>2. buff' = i /\ event' = None
      BY <1>3, <2>1, <3>1 DEF Consume
    <3>3. Len(buff') < Len(buff)
      <4>1. buff' = i /\ buff = Sync
        BY <2>1, <3>2
      <4>2. Len(i) = 4 /\ Len(Sync) = 16
        BY <1>1, <1>3
      <4> QED BY <4>1, <4>2
    <3> QED BY <3>1, <3>2, <3>3
  <2>2. CASE buff = i
    <3>1. Consume(3) /\ tracer' = d /\ UNCHANGED <<unit, state, bb_mode>>
      BY <1>5, <1>8, <2>2 DEF DecodePacket
    <3>2. buff' = on /\ event' = None
      BY <1>1, <1>2, <2>2, <3>1 DEF Consume
    <3>3. Len(buff') < Len(buff)
      <4>1. buff' = on /\ buff = i
        BY <2>2, <3>2
      <4>2. Len(i) = 4 /\ Len(on) = 1
        BY <1>1
      <4> QED BY <4>1, <4>2
    <3> QED BY <3>1, <3>2, <3>3
  <2> QED BY <1>6, <2>1, <2>2
<1> QED BY <1>9 DEF i, on, d

LEMMA ConsumptionStep ==
  ASSUME DecoderInv, Consumption
  PROVE  DecoderInv'
<1>1. state = "DECODING" /\ buff # <<>>
  BY DEF Consumption, SkipByte, CountAtoms, DecodePacket, Decoding
<1>2. /\ bb_mode \in BOOLEAN /\ Tracer(tracer) /\ TraceUnit(unit)
      /\ \/ Packet(tracer, unit, buff, event)
         \/ /\ buff \in {Sync, <<1, 1, 0, 4>>} /\ event = None
            /\ Tracked(tracer, unit) /\ unit.regs = Reset
  BY <1>1 DEF DecoderInv
<1>3. CASE Packet(tracer, unit, buff, event)
  <2>1. /\ buff' = <<>> /\ event' = None /\ unit' = unit /\ state' = state
        /\ bb_mode' = bb_mode
        /\ IF tracer.overflow_nums = 0 THEN tracer' = Decoded(tracer, buff).tracer
                                       ELSE event = None /\ tracer' = tracer
    BY <1>3, PacketConsumed DEF Consumption
  <2>2. Tracked(tracer', unit')
    <3>1. CASE tracer.overflow_nums = 0
      BY <1>3, <2>1, <3>1 DEF Packet
    <3>2. CASE tracer.overflow_nums # 0
      BY <1>2, <2>1, <3>2 DEF Tracked
    <3> QED BY <3>1, <3>2
  <2>3. Tracked(tracer, unit)' /\ Tracer(tracer)'
    <3>1. Tracked(tracer', unit') /\ Tracer(tracer')
      BY <2>2 DEF Tracked
    <3> QED BY <2>1, <3>1, PacketKept
  <2>4. TraceUnit(unit)' /\ bb_mode' \in BOOLEAN
    BY <1>2, <2>1
  <2> QED BY <1>1, <2>1, <2>3, <2>4 DEF DecoderInv
<1>4. CASE /\ buff \in {Sync, <<1, 1, 0, 4>>} /\ event = None
           /\ Tracked(tracer, unit) /\ unit.regs = Reset
  <2>1. /\ event' = None /\ unit' = unit /\ state' = state /\ bb_mode' = bb_mode
        /\ \/ buff' = <<1, 1, 0, 4>> /\ tracer' = tracer
           \/ buff' = <<4>> /\ tracer' = [tracer EXCEPT !.address_register = Reset]
    BY <1>4, SyncConsumed
  <2>2. TraceUnit(unit)' /\ bb_mode' \in BOOLEAN
    BY <1>2, <2>1
  <2>3. CASE buff' = <<1, 1, 0, 4>> /\ tracer' = tracer
    <3>1. Tracked(tracer', unit') /\ Tracer(tracer') /\ unit'.regs = Reset
      BY <1>2, <1>4, <2>1, <2>3
    <3>2. Tracked(tracer, unit)' /\ Tracer(tracer)' /\ (unit.regs = Reset)'
      BY <2>1, <3>1, PacketKept
    <3> QED BY <1>1, <2>1, <2>2, <2>3, <3>2 DEF DecoderInv
  <2>4. CASE buff' = <<4>> /\ tracer' = [tracer EXCEPT !.address_register = Reset]
    <3>1. PICK d : d = [tracer EXCEPT !.address_register = Reset]
      OBVIOUS
    <3>2. Same(d, tracer) /\ d.from_exception = tracer.from_exception
          /\ d.address_register = Reset
      BY <1>2, <3>1, RegistersReset
    <3>3. Packet(d, unit, <<4>>, None) /\ Tracer(d)
      BY <1>2, <1>4, <3>2, TraceInfoDecoded DEF Same
    <3>4. Packet(tracer', unit', buff', event') /\ Tracer(tracer')
      BY <2>1, <2>4, <3>1, <3>3
    <3>5. Packet(tracer, unit, buff, event)' /\ Tracer(tracer)'
      BY <2>1, <3>4, PacketKept
    <3>6. buff' # <<>>
      BY <2>4
    <3> QED BY <1>1, <2>1, <2>2, <3>5, <3>6 DEF DecoderInv
  <2> QED BY <2>1, <2>3, <2>4
<1> QED BY <1>2, <1>3, <1>4

LEMMA EndStep ==
  ASSUME DecoderInv, GiveUp \/ EndOfBuffer
  PROVE  DecoderInv'
<1>1. /\ state' = "DONE" /\ bb_mode' = bb_mode /\ tracer' = tracer /\ unit' = unit
  BY DEF GiveUp, EndOfBuffer
<1>2. Tracer(tracer') /\ TraceUnit(unit') /\ bb_mode' \in BOOLEAN
  BY <1>1 DEF DecoderInv
<1>3. Tracer(tracer)' /\ TraceUnit(unit)'
  BY <1>1, <1>2, PacketKept
<1> QED BY <1>1, <1>2, <1>3 DEF DecoderInv

-----------------------------------------------------------------------------
(* The start of a run.                                                      *)

LEMMA ReadyIsUnit ==
  ASSUME NEW kit, kit.header \in 192..255, kit.other \in Seq(Seq(0..255)),
         \A i \in 1..Len(kit.other) : Silent(kit.other[i])
  PROVE  TraceUnit(Ready(kit)) /\ Ready(kit).regs = Reset
<1> DEFINE u == Ready(kit)
<1>1. /\ DOMAIN u = DOMAIN Off /\ u.header = kit.header /\ u.other = kit.other
      /\ u.target = "must" /\ u.arrived = FALSE /\ u.entered = FALSE
      /\ u.regs = Reset /\ u.at = NoWhere /\ u.struck = 0
  BY DEF Ready, Off, Reset
<1> HIDE DEF u
<1>2. u.arrived \in BOOLEAN /\ u.entered \in BOOLEAN /\ ~u.arrived
  BY <1>1
<1>3. u.regs \in [1..3 -> Address]
  BY <1>1, ZeroIsAddress DEF Reset
<1>4. ~InException(u)
  BY <1>1 DEF InException
<1>5. TraceUnit(u)
  BY <1>1, <1>2, <1>3, <1>4 DEF TraceUnit
<1> QED BY <1>1, <1>5 DEF u

LEMMA OffIsUnit == TraceUnit(Off)
<1> DEFINE kit == [header |-> 192, other |-> <<>>, events |-> 0, interrupts |-> 0]
<1>1. /\ kit.header = 192 /\ kit.other = <<>> /\ <<>> \in Seq(Seq(0..255))
      /\ Len(<<>>) = 0
  OBVIOUS
<1> HIDE DEF kit
<1>2. kit.header \in 192..255 /\ kit.other \in Seq(Seq(0..255))
  BY <1>1
<1>3. 1..Len(kit.other) = {}
  BY <1>1
<1>4. TraceUnit(Ready(kit))
  BY <1>2, <1>3, ReadyIsUnit
<1> QED BY <1>4 DEF Off, kit

LEMMA StartedIsFresh == Fresh(Started)
<1>1. Started = [Started EXCEPT !.overflow_nums = Started.overflow_nums]
  BY DEF Started
<1>2. Started.overflow_nums = 0
  BY DEF Started
<1> QED BY <1>1, <1>2 DEF Fresh

LEMMA FreshTracer ==
  ASSUME NEW t, Fresh(t)
  PROVE  /\ Tracer(t) /\ Tracer(t)' /\ Count(t) = Count(Started)
         /\ Fresh([t EXCEPT !.overflow_nums = @ + 1])
         /\ \A kit : Tracked(t, Ready(kit))
<1>1. /\ t.entry_flag = FALSE /\ t.branch_flag = FALSE /\ t.atom_in_slide = 1
      /\ t.hash = 0 /\ t.pre_basic_block = 0 /\ t.branch_nums = 0 /\ t.trace_bits = <<>>
      /\ t.from_exception = FALSE /\ t.IRQ_addr = Zero /\ t.address_register = Reset
      /\ DOMAIN t = DOMAIN Started /\ t.overflow_nums \in Nat
  BY DEF Fresh, Started, Reset
<1>2. t.address_register \in [1..3 -> Address]
  BY <1>1, ZeroIsAddress DEF Reset
<1>3. /\ t.entry_flag \in BOOLEAN /\ t.branch_flag \in BOOLEAN
      /\ t.from_exception \in BOOLEAN /\ t.atom_in_slide \in Nat
  <2>1. t.entry_flag \in BOOLEAN
    BY <1>1
  <2>2. t.branch_flag \in BOOLEAN
    BY <1>1
  <2>3. t.from_exception \in BOOLEAN
    BY <1>1
  <2>4. t.atom_in_slide \in Nat
    BY <1>1
  <2> QED BY <2>1, <2>2, <2>3, <2>4
<1>4. Tracer(t) /\ Tracer(t)'
  BY <1>1, <1>2, <1>3 DEF Tracer
<1>5. Count(t) = Count(Started)
  BY <1>1 DEF Count, Started
<1>6. Fresh([t EXCEPT !.overflow_nums = @ + 1])
  <2>1. PICK e : e = [t EXCEPT !.overflow_nums = @ + 1]
    OBVIOUS
  <2>2. DOMAIN e = DOMAIN Started /\ e.overflow_nums = t.overflow_nums + 1
    BY <1>1, <2>1 DEF Started
  <2>3. e.overflow_nums \in Nat
    BY <1>1, <2>2
  <2>4. e = [Started EXCEPT !.overflow_nums = e.overflow_nums]
    BY <2>1, <2>2 DEF Fresh, Started
  <2> QED BY <2>1, <2>2, <2>3, <2>4 DEF Fresh
<1>7. ASSUME NEW kit
      PROVE  Tracked(t, Ready(kit))
  <2>1. PICK u : u = Ready(kit)
    OBVIOUS
  <2>2. u.target = "must" /\ u.entered = FALSE /\ u.regs = Reset
    BY <2>1 DEF Ready, Reset
  <2>3. ~InException(u)
    BY <2>2 DEF InException
  <2>4. Follows(t, u)
    BY <1>1, <2>2, <2>3 DEF Follows
  <2> QED BY <1>4, <2>1, <2>4 DEF Tracked
<1> QED BY <1>4, <1>5, <1>6, <1>7

LEMMA NextByte ==
  ASSUME NEW S, NEW s \in Seq(S), NEW n \in Nat \ {0}, n <= Len(s) + 1
  PROVE  LET r == SubSeq(s, n, Len(s))
         IN /\ r \in Seq(S) /\ Len(r) = Len(s) - n + 1
            /\ r # <<>> => n <= Len(s) /\ SubSeq(r, 2, Len(r)) = SubSeq(s, n + 1, Len(s))
<1>1. PICK r : r = SubSeq(s, n, Len(s))
  OBVIOUS
<1>2. Len(s) \in Nat /\ \A i \in 1..Len(s) : s[i] \in S
  OBVIOUS
<1>3. /\ r \in Seq(S) /\ Len(r) = Len(s) - n + 1
      /\ \A i \in 1..Len(s) - n + 1 : r[i] = s[n + i - 1]
  <2>1. \A i \in n..Len(s) : s[i] \in S
    BY <1>2
  <2> QED BY <1>1, <1>2, <2>1, SubSeqProperties
<1>4. ASSUME r # <<>>
      PROVE  n <= Len(s) /\ SubSeq(r, 2, Len(r)) = SubSeq(s, n + 1, Len(s))
  <2>1. Len(r) # 0
    BY <1>3, <1>4
  <2>2. n <= Len(s)
    BY <1>2, <1>3, <2>1
  <2>3. PICK q : q = SubSeq(r, 2, Len(r))
    OBVIOUS
  <2>4. PICK z : z = SubSeq(s, n + 1, Len(s))
    OBVIOUS
  <2>5. /\ q \in Seq(S) /\ Len(q) = Len(s) - n
        /\ \A i \in 1..Len(s) - n : q[i] = r[i + 1]
    <3>1. \A i \in 2..Len(r) : r[i] \in S
      BY <1>3
    <3>2. Len(r) \in Int /\ Len(r) - 1 = Len(s) - n /\ Len(r) >= 1
      BY <1>2, <1>3, <2>2
    <3>3. /\ q \in Seq(S) /\ Len(q) = IF 2 <= Len(r) THEN Len(r) - 1 ELSE 0
          /\ \A i \in 1..Len(r) - 1 : q[i] = r[i + 1]
      BY <2>3, <3>1, <3>2, SubSeqProperties
    <3> QED BY <3>2, <3>3
  <2>6. /\ z \in Seq(S) /\ Len(z) = Len(s) - n
        /\ \A i \in 1..Len(s) - n : z[i] = s[n + i]
    <3>1. \A i \in n + 1..Len(s) : s[i] \in S
      BY <1>2
    <3>2. /\ z \in Seq(S) /\ Len(z) = IF n + 1 <= Len(s) THEN Len(s) - n ELSE 0
          /\ \A i \in 1..Len(s) - n : z[i] = s[n + i]
      BY <1>2, <2>4, <3>1, SubSeqProperties
    <3> QED BY <1>2, <2>2, <3>2
  <2>7. \A i \in 1..Len(s) - n : q[i] = z[i]
    <3>1. ASSUME NEW i \in 1..Len(s) - n
          PROVE  q[i] = z[i]
      <4>1. i + 1 \in 1..Len(s) - n + 1 /\ n + (i + 1) - 1 = n + i
        BY <1>2
      <4>2. r[i + 1] = s[n + i]
        BY <1>3, <4>1
      <4> QED BY <2>5, <2>6, <4>2
    <3> QED BY <3>1
  <2> QED BY <2>2, <2>3, <2>4, <2>5, <2>6, <2>7, SeqEqual
<1> QED BY <1>1, <1>3, <1>4

\* A synchronisation is only found at the end of what was in the buffer.
LEMMA Found ==
  ASSUME DecoderInv, state = "SYNCING", Synchronised(buff)
  PROVE  buff = Sync
<1>1. PICK kit \in Kits, n \in Nat \ {0} :
        n <= Len(kit.begin) + 1 /\ buff = SubSeq(kit.begin, n, Len(kit.begin))
  BY DEF DecoderInv
<1>2. /\ kit.begin \in Seq(0..255)
      /\ \A k \in 1..Len(kit.begin) :
           Synchronised(SubSeq(kit.begin, k, Len(kit.begin)))
             => SubSeq(kit.begin, k, Len(kit.begin)) = Sync
  <2>1. Kit(kit)
    BY TraceAssumption
  <2> QED BY <2>1 DEF Kit
<1> DEFINE S == 0..255
           b == kit.begin
<1> HIDE DEF S, b
<1>3. b \in Seq(S) /\ n <= Len(b) + 1 /\ buff = SubSeq(b, n, Len(b))
  BY <1>1, <1>2 DEF S, b
<1>4. buff # <<>>
  BY DEF Synchronised
<1>5. n <= Len(b)
  BY <1>3, <1>4, NextByte
<1>6. n \in 1..Len(b)
  BY <1>3, <1>5
<1> QED BY <1>1, <1>2, <1>6 DEF b

LEMMA ScanStep ==
  ASSUME DecoderInv, Scan
  PROVE  DecoderInv'
<1>1. /\ state = "SYNCING" /\ buff # <<>> /\ unit' = unit /\ bb_mode' = bb_mode
      /\ IF Synchronised(buff) THEN state' = "DECODING" /\ buff' = buff /\ event' = event
                               ELSE Consume(1) /\ state' = state
      /\ tracer' = IF buff[1] = 0 THEN decode_extension(tracer, buff).tracer ELSE tracer
  BY DEF Scan
<1>2. bb_mode \in BOOLEAN /\ TraceUnit(unit) /\ event = None /\ Fresh(tracer)
  BY <1>1 DEF DecoderInv
<1>3. PICK kit \in Kits, n \in Nat \ {0} :
        /\ unit = Ready(kit) /\ n <= Len(kit.begin) + 1
        /\ buff = SubSeq(kit.begin, n, Len(kit.begin))
  BY <1>1 DEF DecoderInv
<1>4. CASE Synchronised(buff)
  <2>1. buff = Sync
    BY <1>1, <1>4, Found
  <2>2. tracer' = tracer
    <3>1. decode_extension(tracer, Sync) = [tracer |-> tracer, len |-> 12]
      BY SyncBytes DEF decode_extension
    <3> QED BY <1>1, <2>1, <3>1
  <2>3. Tracer(tracer) /\ Tracked(tracer, unit) /\ unit.regs = Reset
    <3>1. unit.regs = Reset
      BY <1>3 DEF Ready, Reset
    <3> QED BY <1>2, <1>3, <3>1, FreshTracer
  <2>4. Tracer(tracer') /\ Tracked(tracer', unit') /\ unit'.regs = Reset
    BY <1>1, <2>2, <2>3
  <2>5. Tracer(tracer)' /\ Tracked(tracer, unit)' /\ (unit.regs = Reset)'
    BY <1>1, <2>4, PacketKept
  <2>6. /\ TraceUnit(unit)' /\ bb_mode' \in BOOLEAN /\ event' = None
        /\ state' = "DECODING" /\ buff' = Sync
    BY <1>1, <1>2, <1>4, <2>1
  <2> QED BY <2>5, <2>6 DEF DecoderInv
<1>5. CASE ~Synchronised(buff)
  <2>1. Fresh(tracer')
    <3>1. \/ decode_extension(tracer, buff).tracer = tracer
          \/ decode_extension(tracer, buff).tracer = [tracer EXCEPT !.overflow_nums = @ + 1]
      BY DEF decode_extension
    <3> QED BY <1>1, <1>2, <3>1, FreshTracer
  <2>2. Tracer(tracer)' /\ Fresh(tracer)'
    <3>1. Tracer(tracer')
      BY <2>1, FreshTracer
    <3> QED BY <1>1, <2>1, <3>1, PacketKept DEF Fresh, Started
  <2>3. TraceUnit(unit)' /\ bb_mode' \in BOOLEAN /\ event' = None /\ state' = "SYNCING"
    BY <1>1, <1>2, <1>5 DEF Consume
  <2>4. \E k \in Kits, m \in Nat \ {0} :
          /\ unit' = Ready(k) /\ m <= Len(k.begin) + 1
          /\ buff' = SubSeq(k.begin, m, Len(k.begin))
    <3> DEFINE S == 0..255
               b == kit.begin
    <3>1. b \in Seq(S)
      BY TraceAssumption DEF Kit
    <3> HIDE DEF S, b
    <3>2. buff = SubSeq(b, n, Len(b)) /\ n <= Len(b) + 1 /\ unit' = Ready(kit)
      BY <1>1, <1>3 DEF b
    <3>3. n <= Len(b) /\ SubSeq(buff, 2, Len(buff)) = SubSeq(b, n + 1, Len(b))
      BY <1>1, <3>1, <3>2, NextByte
    <3>4. buff' = SubSeq(b, n + 1, Len(b))
      BY <1>1, <1>5, <3>3 DEF Consume
    <3>5. n + 1 \in Nat \ {0} /\ n + 1 <= Len(b) + 1
      BY <3>1, <3>3
    <3> QED BY <3>2, <3>4, <3>5 DEF b
  <2> QED BY <2>2, <2>3, <2>4 DEF DecoderInv
<1> QED BY <1>4, <1>5

LEMMA LoadStep ==
  ASSUME DecoderInv, Load
  PROVE  DecoderInv'
<1>1. PICK kit \in Kits :
        /\ state = "READING" /\ state' = "SYNCING" /\ buff' = kit.begin
        /\ unit' = Ready(kit) /\ bb_mode' = bb_mode /\ tracer' = tracer /\ event' = event
  BY DEF Load
<1>2. tracer = Started /\ event = None /\ bb_mode \in BOOLEAN
  BY <1>1 DEF DecoderInv
<1>3. Kit(kit)
  BY TraceAssumption
<1>4. TraceUnit(unit)'
  <2>1. TraceUnit(unit')
    BY <1>1, <1>3, ReadyIsUnit DEF Kit
  <2> QED BY <2>1
<1>5. Tracer(tracer)' /\ Fresh(tracer)'
  <2>1. Fresh(tracer') /\ Tracer(tracer')
    BY <1>1, <1>2, StartedIsFresh, FreshTracer
  <2> QED BY <1>1, <2>1, PacketKept DEF Fresh, Started
<1>6. 1 <= Len(kit.begin) + 1 /\ kit.begin = SubSeq(kit.begin, 1, Len(kit.begin))
  <2> DEFINE S == 0..255
             b == kit.begin
  <2>1. b \in Seq(S)
    BY <1>3 DEF Kit
  <2> HIDE DEF S, b
  <2>2. 1 <= Len(b) + 1 /\ b = SubSeq(b, 1, Len(b))
    BY <2>1
  <2> QED BY <2>2 DEF b
<1>7. \E k \in Kits, m \in Nat \ {0} :
        /\ unit' = Ready(k) /\ m <= Len(k.begin) + 1
        /\ buff' = SubSeq(k.begin, m, Len(k.begin))
  BY <1>1, <1>6
<1> QED BY <1>1, <1>2, <1>4, <1>5, <1>7 DEF DecoderInv

LEMMA NextRunStep ==
  ASSUME DecoderInv, NextRun
  PROVE  DecoderInv'
<1>1. /\ state' = "READING" /\ bb_mode' \in BOOLEAN /\ tracer' = Started
      /\ buff' = <<>> /\ event' = None /\ unit' = Off
  BY DEF NextRun
<1>2. Tracer(Started)'
  BY StartedIsFresh, FreshTracer
<1>3. Tracer(tracer)' /\ TraceUnit(unit)' /\ (tracer = Started)'
  BY <1>1, <1>2, OffIsUnit DEF Tracer, Started
<1> QED BY <1>1, <1>3 DEF DecoderInv

LEMMA DecoderInvIsInvariant ==
  ASSUME MaxInterrupts \in 0..2 PROVE Spec => []DecoderInv
<1>1. Init => DecoderInv
  <2>1. Tracer(Started)
    BY StartedIsFresh, FreshTracer
  <2> QED BY <2>1, OffIsUnit DEF Init, DecoderInv
<1>2. DecoderInv /\ [Next]_vars => DecoderInv'
  <2> SUFFICES ASSUME DecoderInv, [Next]_vars
               PROVE  DecoderInv'
    OBVIOUS
  <2>1. CASE Unit
    BY <2>1, MaxInterrupts \in 0..2, UnitStep
  <2>2. CASE NextRun
    BY <2>2, NextRunStep
  <2>3. CASE Load
    BY <2>3, LoadStep
  <2>4. CASE Decoder
    BY <2>4, ScanStep, ConsumptionStep, EndStep DEF Decoder, Consumption
  <2>5. CASE UNCHANGED vars
    <3>1. /\ bb_mode' = bb_mode /\ state' = state /\ buff' = buff /\ tracer' = tracer
          /\ event' = event /\ unit' = unit
      BY <2>5 DEF vars
    <3>2. /\ TraceUnit(unit)' <=> TraceUnit(unit)
          /\ Fresh(tracer)' <=> Fresh(tracer)
      BY <3>1 DEF Fresh, Started
    <3>3. /\ Tracer(tracer)' <=> Tracer(tracer)
          /\ Tracked(tracer, unit)' <=> Tracked(tracer, unit)
          /\ Packet(tracer, unit, buff, event)' <=> Packet(tracer, unit, buff, event)
      BY <3>1, PacketKept
    <3> QED BY <3>1, <3>2, <3>3 DEF DecoderInv
  <2> QED BY <2>1, <2>2, <2>3, <2>4, <2>5 DEF Next
<1> QED BY <1>1, <1>2, PTL DEF Spec

-----------------------------------------------------------------------------
(* What the invariant says of the decoder's steps.                          *)

LEMMA FreshScan ==
  ASSUME DecoderInv, Scan
  PROVE  /\ event = None /\ event' = None /\ UNCHANGED <<unit, bb_mode>>
         /\ Count(tracer') = Count(tracer)
<1>1. /\ state = "SYNCING" /\ bb_mode' = bb_mode /\ unit' = unit
      /\ event' \in {event, None}
      /\ tracer' = IF buff[1] = 0 THEN decode_extension(tracer, buff).tracer ELSE tracer
  BY DEF Scan, Consume
<1>2. event = None /\ Fresh(tracer)
  BY <1>1 DEF DecoderInv
<1>3. Fresh(tracer')
  <2>1. \/ decode_extension(tracer, buff).tracer = tracer
        \/ decode_extension(tracer, buff).tracer = [tracer EXCEPT !.overflow_nums = @ + 1]
    BY DEF decode_extension
  <2> QED BY <1>1, <1>2, <2>1, FreshTracer
<1>4. Count(tracer') = Count(Started) /\ Count(tracer) = Count(Started)
  BY <1>2, <1>3, FreshTracer
<1> QED BY <1>1, <1>2, <1>4

\* A step that consumes bytes counts the event its packet stands for.
LEMMA Counted ==
  ASSUME DecoderInv, Consumption
  PROVE  /\ event' = None /\ UNCHANGED <<unit, state, bb_mode>>
         /\ Len(buff') < Len(buff)
         /\ Count(tracer') = Seen(Count(tracer), event)
         /\ tracer.overflow_nums > 0 => Count(tracer') = Count(tracer)
<1>1. state = "DECODING" /\ buff # <<>>
  BY DEF Consumption, SkipByte, CountAtoms, DecodePacket, Decoding
<1>2. /\ Tracer(tracer)
      /\ \/ Packet(tracer, unit, buff, event)
         \/ /\ buff \in {Sync, <<1, 1, 0, 4>>} /\ event = None
            /\ Tracked(tracer, unit) /\ unit.regs = Reset
  BY <1>1 DEF DecoderInv
<1>3. Seen(Count(tracer), None) = Count(tracer)
  BY DEF Seen
<1>4. CASE Packet(tracer, unit, buff, event)
  <2>1. /\ buff' = <<>> /\ event' = None /\ UNCHANGED <<unit, state, bb_mode>>
        /\ IF tracer.overflow_nums = 0 THEN tracer' = Decoded(tracer, buff).tracer
                                       ELSE event = None /\ tracer' = tracer
    BY <1>4, PacketConsumed DEF Consumption
  <2>2. Len(buff') < Len(buff)
    <3>1. Len(buff) > 0 /\ buff' = <<>>
      BY <1>4, <2>1 DEF Packet
    <3> QED BY <3>1
  <2>3. CASE tracer.overflow_nums = 0
    <3>1. Count(tracer') = Seen(Count(tracer), event)
      BY <1>4, <2>1, <2>3 DEF Packet
    <3> QED BY <2>1, <2>2, <2>3, <3>1
  <2>4. CASE tracer.overflow_nums # 0
    BY <1>3, <2>1, <2>2, <2>4
  <2> QED BY <2>3, <2>4
<1>5. CASE /\ buff \in {Sync, <<1, 1, 0, 4>>} /\ event = None
           /\ Tracked(tracer, unit) /\ unit.regs = Reset
  <2>1. /\ event' = None /\ UNCHANGED <<unit, state, bb_mode>> /\ Len(buff') < Len(buff)
        /\ tracer' = tracer \/ tracer' = [tracer EXCEPT !.address_register = Reset]
    BY <1>5, SyncConsumed
  <2>2. Count(tracer') = Count(tracer)
    <3>1. CASE tracer' = tracer
      BY <3>1
    <3>2. CASE tracer' = [tracer EXCEPT !.address_register = Reset]
      BY <1>2, <3>2, RegistersReset DEF Same
    <3> QED BY <2>1, <3>1, <3>2
  <2> QED BY <1>3, <1>5, <2>1, <2>2
<1> QED BY <1>2, <1>4, <1>5

\* FrozenByOverflow: an overflow ends the counting of a run (decode_stream() returns at
\* the next packet, and the scan for the synchronisation counts nothing); with at most two
\* interrupts between two branches, as far as DecoderInv describes what is sent.
THEOREM OverflowFreezes ==
  ASSUME MaxInterrupts \in 0..2 PROVE Spec => FrozenByOverflow
<1>1. DecoderInv /\ [Next]_vars =>
        [(Running /\ tracer.overflow_nums > 0) => tracer'.trace_bits = tracer.trace_bits]_vars
  <2> SUFFICES ASSUME DecoderInv, Next, Running, tracer.overflow_nums > 0
               PROVE  tracer'.trace_bits = tracer.trace_bits
    OBVIOUS
  <2>1. \A t : Count(t).map = t.trace_bits
    BY DEF Count
  <2>2. CASE Unit
    <3>1. tracer' = tracer
      BY <2>2 DEF Unit, SendAtoms, SendAddress, SendException, SendTraceOn, SendReturn,
             SendOther, SendOverflow, Send
    <3> QED BY <3>1
  <2>3. CASE NextRun \/ Load
    BY <2>3 DEF NextRun, Load, Running
  <2>4. CASE Scan
    BY <2>1, <2>4, FreshScan
  <2>5. CASE Consumption
    BY <2>1, <2>5, Counted
  <2>6. CASE GiveUp \/ EndOfBuffer
    BY <2>6 DEF GiveUp, EndOfBuffer
  <2> QED BY <2>2, <2>3, <2>4, <2>5, <2>6 DEF Next, Decoder, Consumption
<1> QED BY <1>1, MaxInterrupts \in 0..2, DecoderInvIsInvariant, PTL DEF Spec, FrozenByOverflow

\* Consumes: each step of decode_stream() consumes a byte or leaves the state, so that it
\* comes to its end with any trace in which at most two interrupts strike between two
\* branches.
THEOREM EveryStepConsumes ==
  ASSUME MaxInterrupts \in 0..2 PROVE Spec => Consumes
<1>1. DecoderInv /\ [Next]_vars =>
        [(Running /\ buff # <<>>) => (Len(buff') < Len(buff) \/ state' # state)]_vars
  <2> SUFFICES ASSUME DecoderInv, Next, Running, buff # <<>>, state' = state
               PROVE  Len(buff') < Len(buff)
    OBVIOUS
  <2>1. ~Unit
    BY DEF Unit, SendAtoms, SendAddress, SendException, SendTraceOn, SendReturn,
           SendOther, SendOverflow, Send
  <2>2. ~NextRun /\ ~Load
    BY DEF NextRun, Load, Running
  <2>3. CASE Scan
    <3>1. state = "SYNCING" /\ buff' = SubSeq(buff, 2, Len(buff))
      BY <2>3 DEF Scan, Consume
    <3>2. PICK kit \in Kits, n \in Nat \ {0} :
            n <= Len(kit.begin) + 1 /\ buff = SubSeq(kit.begin, n, Len(kit.begin))
      BY <3>1 DEF DecoderInv
    <3> DEFINE S == 0..255
               b == kit.begin
    <3>3. b \in Seq(S)
      BY TraceAssumption DEF Kit
    <3> HIDE DEF S, b
    <3>4. n <= Len(b) + 1 /\ buff = SubSeq(b, n, Len(b))
      BY <3>2 DEF b
    <3>5. /\ Len(buff) = Len(b) - n + 1 /\ n <= Len(b)
          /\ buff' = SubSeq(b, n + 1, Len(b))
      BY <3>1, <3>3, <3>4, NextByte
    <3>6. n + 1 \in Nat \ {0} /\ n + 1 <= Len(b) + 1 /\ Len(b) \in Nat
      BY <3>3, <3>5
    <3>7. Len(buff') = Len(b) - (n + 1) + 1
      BY <3>3, <3>5, <3>6, NextByte
    <3> QED BY <3>5, <3>6, <3>7
  <2>4. CASE Consumption
    BY <2>4, Counted
  <2>5. CASE GiveUp \/ EndOfBuffer
    BY <2>5 DEF GiveUp, EndOfBuffer, Running
  <2> QED BY <2>1, <2>2, <2>3, <2>4, <2>5 DEF Next, Decoder, Consumption
<1> QED BY <1>1, MaxInterrupts \in 0..2, DecoderInvIsInvariant, PTL DEF Spec, Consumes

-----------------------------------------------------------------------------
(* TraceDecoder implements BranchTrace.                                     *)

LEMMA FlowStep ==
  /\ event' = event => Flow' = Flow
  /\ event = None => Flow = <<>>
  /\ event' = None => Flow' = <<>>
  /\ event # None => Flow = <<event>>
  /\ event' # None => Flow' = <<event'>>
BY DEF Flow

\* The unit sends a packet: the program runs on, if it is an event of it.
LEMMA UnitImplements ==
  ASSUME DecoderInv, Unit
  PROVE  Abs!Perform \/ UNCHANGED Abs!vars
<1>1. /\ tracer' = tracer /\ bb_mode' = bb_mode /\ state = "DECODING" /\ buff = <<>>
      /\ \/ event' = None
         \/ \E c \in {246, 247, unit.header} :
              event' = [op |-> "atoms", atoms |-> AtomSeq(c)]
         \/ \E a \in Targets : event' = [op |-> "arrive", address |-> a]
  BY ZenonT(60) DEF Unit, SendAtoms, SendAddress, SendException, SendTraceOn, SendReturn,
         SendOther, SendOverflow, Send
<1>2. event = None /\ TraceUnit(unit) /\ Flow = <<>>
  BY <1>1, InStep, FlowStep
<1>3. CASE event' = None
  <2>1. Flow' = Flow /\ Count(tracer)' = Count(tracer)
    BY <1>1, <1>2, <1>3, FlowStep DEF Count
  <2> QED BY <1>1, <2>1 DEF Abs!vars
<1>4. CASE event' # None
  <2>1. event' \in Abs!Atom \union Abs!Arrival
    <3>1. ASSUME NEW c \in {246, 247, unit.header},
                 event' = [op |-> "atoms", atoms |-> AtomSeq(c)]
          PROVE  event' \in Abs!Atom
      <4>1. unit.header \in Atoms /\ 246 \in Atoms /\ 247 \in Atoms
        BY <1>2 DEF Atoms, TraceUnit
      <4>2. AtomSeq(c) \in Seq({0, 1})
        BY <4>1, AtomsCounted
      <4> QED BY <3>1, <4>2 DEF Abs!Atom
    <3>2. ASSUME NEW a \in Targets, event' = [op |-> "arrive", address |-> a]
          PROVE  event' \in Abs!Arrival
      <4>1. a \in Address
        BY TraceAssumption
      <4>2. a \in [lo : Nat, mid : Nat, hi : Nat]
        BY <4>1, InRecords, AddressFields
      <4> QED BY <3>2, <4>2 DEF Abs!Arrival
    <3> QED BY <1>1, <1>4, <3>1, <3>2
  <2>2. Flow' = <<event'>> /\ Count(tracer)' = Count(tracer)
    BY <1>1, <1>4, FlowStep DEF Count
  <2>3. PICK e : e = event'
    OBVIOUS
  <2>4. /\ Flow' = <<e>> /\ Len(Flow') = Len(Flow) + 1 /\ Len(Flow') = 1
        /\ Flow'[Len(Flow')] = e /\ Flow' = Append(Flow, e)
    BY <1>2, <2>2, <2>3
  <2> QED BY <1>1, <2>1, <2>2, <2>3, <2>4 DEF Abs!Perform
<1> QED BY <1>3, <1>4

\* The decoder consumes a packet: its event is counted, if it has one.
LEMMA ConsumptionImplements ==
  ASSUME DecoderInv, Consumption
  PROVE  Abs!Observe \/ UNCHANGED Abs!vars
<1>1. /\ event' = None /\ bb_mode' = bb_mode
      /\ Count(tracer)' = Seen(Count(tracer), event)
  BY Counted DEF Count
<1>2. CASE event = None
  <2>1. Flow' = Flow /\ Count(tracer)' = Count(tracer)
    BY <1>1, <1>2, FlowStep DEF Seen
  <2> QED BY <1>1, <2>1 DEF Abs!vars
<1>3. CASE event # None
  <2>1. Flow = <<event>> /\ Flow' = <<>>
    BY <1>1, <1>3, FlowStep
  <2>2. /\ event \in {Flow[i] : i \in 1..Len(Flow)}
        /\ Tail(Flow) = <<>> /\ Flow = <<event>> \o Tail(Flow)
    BY <2>1
  <2>3. Count(tracer)' = IF event.op = "atoms" THEN Abs!Branches(Count(tracer), event.atoms)
                                               ELSE Abs!Arrive(Count(tracer), event.address)
    BY <1>1, <1>3 DEF Seen
  <2> QED BY <1>1, <2>1, <2>2, <2>3 DEF Abs!Observe
<1> QED BY <1>2, <1>3

\* The decoder counts the branches of the program while at most two interrupts strike
\* between two of them: each step is one of BranchTrace, or does not show in it.  With
\* three, tracer_address() may take an address of theirs for one of the program's.
THEOREM DecoderImplementsBranchTrace ==
  ASSUME MaxInterrupts \in 0..2 PROVE Spec => CountsTheBranches
<1>1. Init => Abs!Init
  <2>1. Count(Started) = Abs!Nothing
    BY DEF Count, Started, Abs!Nothing
  <2> QED BY <2>1 DEF Init, Abs!Init, Flow
<1>2. DecoderInv /\ [Next]_vars => [Abs!Next]_(Abs!vars)
  <2> SUFFICES ASSUME DecoderInv, [Next]_vars
               PROVE  Abs!Next \/ UNCHANGED Abs!vars
    OBVIOUS
  <2>1. CASE Unit
    BY <2>1, UnitImplements DEF Abs!Next
  <2>2. CASE NextRun
    <3>1. bb_mode' \in BOOLEAN /\ event' = None /\ tracer' = Started
      BY <2>2 DEF NextRun
    <3>2. Count(tracer)' = Abs!Nothing
      BY <3>1 DEF Count, Started, Abs!Nothing
    <3> QED BY <3>1, <3>2, FlowStep DEF Abs!Next, Abs!NextRun
  <2>3. CASE Load \/ GiveUp \/ EndOfBuffer \/ UNCHANGED vars
    <3>1. bb_mode' = bb_mode /\ event' = event /\ tracer' = tracer
      BY <2>3 DEF Load, GiveUp, EndOfBuffer, vars
    <3>2. Flow' = Flow /\ Count(tracer)' = Count(tracer)
      BY <3>1, FlowStep DEF Count
    <3> QED BY <3>1, <3>2 DEF Abs!vars
  <2>4. CASE Scan
    <3>1. bb_mode' = bb_mode /\ event' = event /\ Count(tracer)' = Count(tracer)
      BY <2>4, FreshScan DEF Count
    <3> QED BY <3>1, FlowStep DEF Abs!vars
  <2>5. CASE Consumption
    BY <2>5, ConsumptionImplements DEF Abs!Next
  <2> QED BY <2>1, <2>2, <2>3, <2>4, <2>5 DEF Next, Decoder, Consumption
<1> QED BY <1>1, <1>2, MaxInterrupts \in 0..2, DecoderInvIsInvariant, PTL DEF Spec, CountsTheBranches, Abs!Spec
=============================================================================
