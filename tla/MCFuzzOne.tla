------------------------------ MODULE MCFuzzOne ------------------------------
EXTENDS FuzzOne

\* A parser of a two-byte magic and a flag; it reads all of a case with a high
\* first byte, of whose last byte the atoms show one bit less.
Halved(buf) == [buf EXCEPT ![Len(buf)] = @ \div 2]
MCTrace(mode, buf) ==
  IF buf[1] >= 200 THEN <<1, IF mode = Atoms THEN Halved(buf) ELSE buf>>
  ELSE IF Len(buf) > 2 /\ SubSeq(buf, 1, 2) = <<77, 90>> THEN <<2, <<buf[3] % 2>>>>
  ELSE <<3, <<>>>>

\* A run that is not whole may leave the address trace of a case that is no magic.
MCOdd == {<<Address, <<3, <<>>>>>>}

\* An entry whose checksums are its own, found in atom mode.
Case(case, options) ==
  [case |-> case, trim_done |-> "trim" \notin options, no_arith |-> "no_arith" \in options,
   skip_deterministic |-> "skip" \in options, use_splicing |-> "splice" \in options,
   exec_cksum |-> IF "overflowed" \in options THEN <<Address, <<9, <<>>>>>> ELSE Cksum(ExecMode, case),
   atom_cksum |-> IF "overflowed" \in options THEN NoCksum ELSE Cksum(Atoms, case),
   bb_mode |-> IF "address" \in options THEN Address ELSE Atoms,
   tokens |-> IF "tokens" \in options
              THEN <<[data |-> <<224, 15>>, hit_cnt |-> 0], [data |-> <<104, 73, 7>>, hit_cnt |-> 0]>>
              ELSE <<>>]

MCStarts ==
  {Case(<<255>>, {}), Case(<<7>>, {"skip"}), Case(<<224, 15>>, {"trim", "tokens"}),
   Case(<<0, 127>>, {"address"}), Case(<<250, 255>>, {"tokens"}),
   Case(<<128, 0>>, {"no_arith", "overflowed"}),
   Case(<<77, 90, 1>>, {}), Case(<<255, 224, 127>>, {}),
   Case(<<7, 12, 30>>, {"tokens", "no_arith"}), Case(<<72, 105, 7>>, {"tokens", "no_arith"}),
   Case(<<77, 90, 3, 9>>, {"no_arith"}), Case(<<255, 0, 224, 1>>, {}),
   Case(<<77, 90, 1, 1, 1, 1>>, {"trim", "skip"}),
   Case(<<77, 9, 5, 4, 90, 8>>, {"trim", "skip", "splice"}),
   Case(<<77, 90, 2, 0, 9>>, {"trim", "no_arith"})}

\* Nothing before has overflowed.
MCSureStarts == {Case(<<77, 90, 3, 9>>, {}), Case(<<7, 12, 30>>, {})}

MCExtras == <<<<90>>, <<127, 1>>, <<109, 90>>, <<1, 2, 3>>>>
MCOthers == {<<9>>, <<77, 91, 1, 2>>, <<5, 90, 2>>}
MCScores == {1}
MCBlocks == <<1, 2, 3>>
=============================================================================
