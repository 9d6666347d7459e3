------------------------------ MODULE Mutations ------------------------------
(***************************************************************************)
(* The arithmetic of fuzz_one()'s deterministic stages: what each tries at *)
(* a position of the buffer, and could_be_bitflip(), could_be_arith() and  *)
(* could_be_interest(), by which a stage leaves out what an earlier one    *)
(* has tried.  A buffer is a sequence of bytes, its positions start at 0,  *)
(* and a word of it is little endian, as on the host.                      *)
(***************************************************************************)
EXTENDS Integers, SequencesExt

ARITH_MAX == 35

Word(buf, i, blen) == SubSeq(buf, i + 1, i + blen)
Put(buf, i, word) ==
  [p \in 1..Len(buf) |-> IF p \in i + 1..i + Len(word) THEN word[p - i] ELSE buf[p]]

Bit(byte, n) == (byte \div 2^n) % 2

\* The byte with the bits in S, numbered from the lowest, flipped.
FlipByte(byte, S) ==
  LET Value(n) == IF n \in S THEN 2^n - Bit(byte, n) * 2^n ELSE Bit(byte, n) * 2^n
  IN Value(0) + Value(1) + Value(2) + Value(3) + Value(4) + Value(5) + Value(6) + Value(7)

\* FLIP_BIT numbers the bits of the buffer from the highest of each byte.
Flip(buf, from, bits) ==
  [p \in 1..Len(buf) |->
     FlipByte(buf[p], {n \in 0..7 : 8 * (p - 1) + 7 - n \in from..from + bits - 1})]

\* The word plus d, modulo its width.
Add(word, d) ==
  LET carry[n \in 0..Len(word)] ==
        IF n = 0 THEN d ELSE (word[n] + carry[n - 1]) \div 256
  IN [n \in 1..Len(word) |-> (word[n] + carry[n - 1]) % 256]

SWAP(word) == Reverse(word)
AddBE(word, d) == SWAP(Add(SWAP(word), d))

Deltas == (-ARITH_MAX..ARITH_MAX) \ {0}

\* Of a signed number.
LE16(v) == <<v % 256, (v \div 256) % 256>>
LE32(v) == [n \in 1..4 |-> (v \div 256^(n - 1)) % 256]

signed_8 == {-128, -1, 0, 1, 16, 32, 64, 100, 127}
signed_16 == signed_8 \union {-32768, -129, 128, 255, 256, 512, 1000, 1024, 4096, 32767}
interesting_8 == {<<v % 256>> : v \in signed_8}
interesting_16 == {LE16(v) : v \in signed_16}
\* -2^31 is given by its bytes.
interesting_32 ==
  {LE32(v) : v \in signed_16 \union
     {-100663046, -32769, 32768, 65535, 65536, 100663045, 2147483647}}
  \union {<<0, 0, 0, 128>>}

-----------------------------------------------------------------------------
\* The bits in which two words differ, numbered from the lowest.
Changed(old, new) ==
  {n \in 0..8 * Len(old) - 1 : Bit(old[n \div 8 + 1], n % 8) # Bit(new[n \div 8 + 1], n % 8)}

Contiguous(bits, widths) == \E sh \in bits : \E w \in widths : bits = sh..sh + w - 1
Least(bits) == CHOOSE n \in bits : \A m \in bits : n <= m

\* (Mutant) the shift factor of a byte, word or dword pattern is not looked at.
CouldBeBitflipAnywhere(old, new) ==
  LET bits == Changed(old, new) IN bits = {} \/ Contiguous(bits, {1, 2, 4, 8, 16, 32})

could_be_bitflip(old, new) ==
  LET bits == Changed(old, new)
  IN \/ bits = {}
     \/ Contiguous(bits, {1, 2, 4})
     \/ Least(bits) % 8 = 0 /\ Contiguous(bits, {8, 16, 32})

\* The parts of n bytes in which two words differ.
Differ(old, new, n) ==
  {i \in 0..Len(old) \div n - 1 : Word(old, i * n, n) # Word(new, i * n, n)}

Near(old, new) == \E d \in Deltas : new = Add(old, d)

could_be_arith(old, new) ==
  LET One(n, i) == Differ(old, new, n) = {i}
      Old(n, i) == Word(old, i * n, n)
      New(n, i) == Word(new, i * n, n)
  IN \/ old = new
     \/ \E i \in Differ(old, new, 1) : One(1, i) /\ Near(Old(1, i), New(1, i))
     \/ \E i \in Differ(old, new, 2) :
          /\ One(2, i)
          /\ \/ Near(Old(2, i), New(2, i))
             \/ Near(SWAP(Old(2, i)), SWAP(New(2, i)))
     \/ Len(old) = 4 /\ (Near(old, new) \/ Near(SWAP(old), SWAP(new)))

\* (Mutant) words are compared although none was inserted.
CouldBeInterestEager(old, new, check_le) ==
  \/ old = new
  \/ \E i \in 0..Len(old) - 1 : \E v \in interesting_8 : new = Put(old, i, v)
  \/ \E i \in 0..Len(old) - 2 : \E v \in interesting_16 : new = Put(old, i, v)

could_be_interest(old, new, check_le) ==
  LET blen == Len(old)
  IN \/ old = new
     \/ \E i \in 0..blen - 1 : \E v \in interesting_8 : new = Put(old, i, v)
     \/ /\ blen # 2 \/ check_le
        /\ \/ \E i \in 0..blen - 2 : \E v \in interesting_16 :
                new = Put(old, i, v) \/ (blen > 2 /\ new = Put(old, i, SWAP(v)))
           \/ blen = 4 /\ check_le /\ new \in interesting_32

-----------------------------------------------------------------------------
(* What a stage tries at position i. *)

FlipBits(buf, bits) == {Flip(buf, from, bits) : from \in 0..8 * Len(buf) - bits}
FlipBytes(buf, i, blen) == {Flip(buf, 8 * i, 8 * blen)}

\* An addition carries out of the half of the word that a shorter one reaches.
Carries(low, d) ==
  LET all == [n \in 1..Len(low) |-> IF d > 0 THEN 255 ELSE 0]
  IN IF d > 0 THEN \E e \in 1..d : Add(low, e - 1) = all
              ELSE \E e \in 1..-d : Add(low, 1 - e) = all

Arith(buf, i, blen) ==
  LET orig == Word(buf, i, blen)
      Low(word) == SubSeq(word, 1, blen \div 2)
      le == {Add(orig, d) : d \in {e \in Deltas : blen = 1 \/ Carries(Low(orig), e)}}
      be == {AddBE(orig, d) : d \in {e \in Deltas : blen > 1 /\ Carries(Low(SWAP(orig)), e)}}
  IN {Put(buf, i, new) : new \in {w \in le \union be : ~could_be_bitflip(orig, w)}}

Interesting(blen) ==
  CASE blen = 1 -> interesting_8 [] blen = 2 -> interesting_16 [] OTHER -> interesting_32

Interest(buf, i, blen) ==
  LET orig == Word(buf, i, blen)
      New(w, check_le) ==
        /\ ~could_be_bitflip(orig, w) /\ ~could_be_arith(orig, w)
        /\ blen > 1 => ~could_be_interest(orig, w, check_le)
      le == {v \in Interesting(blen) : New(v, FALSE)}
      be == {SWAP(v) : v \in {u \in Interesting(blen) :
                                blen > 1 /\ u # SWAP(u) /\ New(SWAP(u), TRUE)}}
  IN {Put(buf, i, new) : new \in le \union be}

-----------------------------------------------------------------------------
(* The mutations, without regard to what is left out. *)

Variants(buf) ==
  LET Words(blen) == {<<i, Word(buf, i, blen)>> : i \in 0..Len(buf) - blen}
      all == UNION {Words(n) : n \in {1, 2, 4}}
      flips == (UNION {FlipBits(buf, n) : n \in {1, 2, 4}}) \union
               (UNION {FlipBytes(buf, w[1], Len(w[2])) : w \in all})
      Sums(w) == {Put(buf, w[1], Add(w[2], d)) : d \in Deltas} \union
                 {Put(buf, w[1], AddBE(w[2], d)) : d \in Deltas}
      Consts(w) == UNION {{Put(buf, w[1], v), Put(buf, w[1], SWAP(v))} :
                            v \in Interesting(Len(w[2]))}
  IN (flips \union (UNION {Sums(w) \union Consts(w) : w \in all})) \ {buf}

\* Two or four neighbouring bits of a little-endian word that lie in two bytes:
\* could_be_bitflip() takes them for a flip, but the walking flips go from the
\* lowest bit of a byte to the highest of the next.
Straddles(old, new) ==
  LET bits == Changed(old, new)
  IN Contiguous(bits, {2, 4}) /\ Cardinality({n \div 8 : n \in bits}) > 1
=============================================================================
