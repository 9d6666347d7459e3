---------------------------- MODULE TraceNumbers ----------------------------
(***************************************************************************)
(* Addresses, map cells and bits, as the counting of branches uses them.   *)
(* An address is a record: lo holds its bits 0-16 (an index of the map     *)
(* depends on no other bit), mid the bits 17-31 and hi the bits 32-63.     *)
(***************************************************************************)
EXTENDS Integers, Sequences, TLC

Bits16 == 65536
Bits17 == 131072

Zero == [lo |-> 0, mid |-> 0, hi |-> 0]

\* The order of two 64-bit addresses.
Leq(a, b) ==
  \/ a.hi < b.hi
  \/ a.hi = b.hi /\ a.mid < b.mid
  \/ a.hi = b.hi /\ a.mid = b.mid /\ a.lo <= b.lo

\* The hash of the way of a path: which of its branches were taken (bits), in program
\* order.  The multiplier of sdbm is 1 + 2 + 8 - 2 = 9.
PathHash(path, bits) ==
  LET h[i \in 0..Len(bits)] ==
        IF i = 0 THEN path ELSE (9 * h[i - 1] + bits[i]) % Bits17
  IN h[Len(bits)]

\* The exclusive or of two 16-bit numbers.
Xor16(a, b) ==
  LET x[i \in 0..16] ==
        IF i = 0 THEN 0
        ELSE x[i - 1] + 2^(i - 1) * ((a \div 2^(i - 1) + b \div 2^(i - 1)) % 2)
  IN x[16]

\* trace_bits[index]++ in unsigned char cells; a cell that is absent is 0.
Increment(map, index) ==
  IF index \in DOMAIN map THEN [map EXCEPT ![index] = (@ + 1) % 256]
                          ELSE map @@ (index :> 1)
=============================================================================
