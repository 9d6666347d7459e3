----------------------------- MODULE TraceDecoder -----------------------------
(***************************************************************************)
(* The decoder of the ETMv4 trace of one run after the other: synchroni-   *)
(* sation, the packets, the address registers, and the counting of atoms   *)
(* and addresses.  Its environment is the trace unit of the core, which    *)
(* encodes the branches of an AArch64 program as packets, and the          *)
(* interrupts, context switches and overflows that come between them.      *)
(***************************************************************************)
EXTENDS TraceNumbers, FiniteSetsExt

CONSTANTS Main, TextStart, TextEnd,   \* as in BranchTrace
          Targets,        \* the addresses the program arrives at
          Kits,           \* what a run consists of, with its bounds: see Kit
          MaxInterrupts   \* bound: interrupts between two branches (tracer_address()
                          \* tells the program's addresses from theirs up to two)

VARIABLES bb_mode,    \* TRUE: address mode, the trace unit broadcasts all targets
          state,      \* stream.state; "DONE" once decode_stream() returned
          buff,       \* stream.buff from the current position on
          tracer,     \* the counters of the run and the address registers
          event,      \* the event of the program that the packet in buff stands for
          unit        \* the trace unit and the program it traces

vars == <<bb_mode, state, buff, tracer, event, unit>>

-----------------------------------------------------------------------------
(* Counting. *)

Started == [entry_flag |-> FALSE, branch_flag |-> FALSE, atom_in_slide |-> 1,
            hash |-> 0, pre_basic_block |-> 0, branch_nums |-> 0,
            trace_bits |-> <<>>,
            from_exception |-> FALSE, IRQ_addr |-> Zero,
            overflow_nums |-> 0, exception_nums |-> 0,
            address_register |-> <<Zero, Zero, Zero>>]

\* The tables of tracer.h: number of atoms, atoms as a number, the last atom.
atom_length(c) ==
  CASE c \in 192..212 -> c - 188 [] c \in 224..244 -> c - 220
    [] c \in 213..215 \union {245} -> 5 [] c \in 216..219 -> 2
    [] c \in 220..223 -> 4 [] c \in 246..247 -> 1 [] c \in 248..255 -> 3

atom_map(c) ==
  CASE c \in 192..212 -> 2^(c - 188) - 1 [] c \in 224..244 -> 2^(c - 220) - 2
    [] c \in 213..223 -> <<0, 10, 21, 0, 2, 1, 3, 7, 0, 5, 10>>[c - 212]
    [] c \in 245..255 -> <<15, 0, 1, 0, 4, 2, 6, 1, 5, 3, 7>>[c - 244]

atom_flag(c) == c \in 192..212 \union {215, 218, 219, 220, 222, 245, 247} \union 252..255

\* The first branch is in the highest bit of the number.
sdbm(hash, serial, len) ==
  PathHash(hash, [i \in 1..len |-> (serial \div 2^(len - i)) % 2])

InText(a) == Leq(TextStart, a) /\ Leq(a, TextEnd)

decode_atoms(t, c) ==
  IF ~t.entry_flag THEN t
  ELSE [t EXCEPT !.from_exception = FALSE, !.IRQ_addr = Zero,
                 !.branch_flag = atom_flag(c),
                 !.atom_in_slide = @ + atom_length(c),
                 !.hash = IF bb_mode THEN @ ELSE sdbm(@, atom_map(c), atom_length(c))]

count_branch(t, a) ==
  LET slide == IF bb_mode /\ t.atom_in_slide > 4 THEN 5 ELSE t.atom_in_slide
      to == (a.lo + (IF bb_mode THEN slide - 1 ELSE t.hash)) % Bits17
  IN [t EXCEPT !.branch_nums = @ + t.atom_in_slide,
               !.trace_bits = Increment(@, Xor16(to % Bits16, t.pre_basic_block)),
               !.pre_basic_block = to \div 2,
               !.hash = IF bb_mode THEN @ ELSE 0,
               !.atom_in_slide = 1, !.branch_flag = FALSE, !.IRQ_addr = Zero]

\* (Mutant) the return from an exception counts.
TracerAddressCountsReturn(old, a) ==
  LET t == [old EXCEPT !.entry_flag = @ \/ a = Main]
  IN IF ~(t.entry_flag /\ t.branch_flag /\ InText(a)) THEN t
     ELSE count_branch(t, a)

\* The first address after an exception is where it struck; the same address
\* once more is the return from it.  Neither is a branch of the program.
tracer_address(old, a) ==
  LET t == [old EXCEPT !.entry_flag = @ \/ a = Main]
  IN IF t.from_exception /\ t.IRQ_addr = Zero THEN [t EXCEPT !.IRQ_addr = a]
     ELSE IF ~(t.entry_flag /\ t.branch_flag /\ InText(a)) THEN t
     ELSE IF t.from_exception /\ t.IRQ_addr = a
          THEN [t EXCEPT !.from_exception = FALSE, !.IRQ_addr = Zero]
     ELSE count_branch(t, a)

-----------------------------------------------------------------------------
(* Packets: a decoder takes the tracer and the bytes p from its header on,   *)
(* and returns the tracer and the number of bytes it consumed (<= 0: none).  *)

\* The length of a chain of at most max bytes from p[i] on, each but the last
\* with its continuation bit set; 0 if the chain is longer.
Chain(p, i, max) ==
  LET ends == {n \in 1..max : i + n - 1 <= Len(p) /\ p[i + n - 1] < 128}
  IN IF ends = {} THEN 0 ELSE Min(ends)

Async == <<0, 0, 0, 0, 0, 0, 0, 0, 0, 0, 0, 128>>

decode_extension(t, p) ==
  IF Len(p) >= 12 /\ SubSeq(p, 1, 12) = Async THEN [tracer |-> t, len |-> 12]
  ELSE IF Len(p) >= 2 /\ p[2] = 3 THEN [tracer |-> t, len |-> 2]
  ELSE IF Len(p) >= 2 /\ p[2] = 5
       THEN [tracer |-> [t EXCEPT !.overflow_nums = @ + 1], len |-> 2]
  ELSE [tracer |-> t, len |-> -1]

\* PLCTL says which of INFO, KEY, SPEC and CYCT follow.
trace_info_len(p) ==
  LET plctl == p[2]
      has(k) == (plctl \div 2^k) % 2 = 1
      \* the position after section k, which ends at i (0: malformed)
      Section(i, k, max) ==
        IF i = 0 \/ ~has(k) THEN i
        ELSE IF Chain(p, i, max) = 0 THEN 0 ELSE i + Chain(p, i, max)
  IN IF plctl >= 128 THEN -1
     ELSE Section(Section(Section(Section(3, 0, 1), 1, 4), 2, 4), 3, 2) - 1

decode_trace_info(t, p) ==
  [tracer |-> IF trace_info_len(p) <= 0 THEN t
              ELSE [t EXCEPT !.address_register = <<Zero, Zero, Zero>>],
   len |-> trace_info_len(p)]

update_address_regs(t, a) ==
  [t EXCEPT !.address_register = <<a, @[1], @[2]>>]

\* VMID and context ID are there if bits 6 and 7 of the info byte say so.
context_len(p, i) ==
  1 + ((p[i] \div 64) % 2) + 4 * (p[i] \div 128)

short_address(r, p) ==
  [r EXCEPT !.lo = ((p[2] % 128) * 4)
                   + (IF p[2] >= 128 THEN p[3] * 512 ELSE 512 * (@ \div 512))]

long_address_32bit(r, p) ==
  [r EXCEPT !.lo = ((p[2] % 128) * 4) + ((p[3] % 128) * 512) + ((p[4] % 2) * Bits16),
            !.mid = (p[4] \div 2) + p[5] * 128]

long_address_64bit(r, p) ==
  [long_address_32bit(r, p) EXCEPT
     !.hi = p[6] + p[7] * 256 + p[8] * Bits16 + p[9] * 256 * Bits16]

IsAddress(c) == c \in 144..147 \union {130, 133, 149, 154, 157}

\* The address packets of the instruction set IS0.
decode_address(t, p) ==
  LET c == p[1]
      r == t.address_register[1]
      a == CASE c \in 144..147 -> t.address_register[c - 143]
             [] c = 149 -> short_address(r, p)
             [] c \in {130, 154} -> long_address_32bit(r, p)
             [] c \in {133, 157} -> long_address_64bit(r, p)
      len == CASE c \in 144..147 -> 1
               [] c = 149 -> IF p[2] >= 128 THEN 3 ELSE 2
               [] c = 154 -> 5 [] c = 157 -> 9
               [] c = 130 -> 5 + context_len(p, 6)
               [] c = 133 -> 9 + context_len(p, 10)
  IN [tracer |-> tracer_address(update_address_regs(t, a), a), len |-> len]

\* The packets that change nothing the map depends on, by their length: time stamps,
\* cycle counts, conditional instructions and their results.
timestamp_len(p) ==
  LET ts == IF Chain(p, 2, 7) = 0 THEN 9 ELSE Chain(p, 2, 7)
      count == IF Chain(p, 2 + ts, 3) = 0 THEN 3 ELSE Chain(p, 2 + ts, 3)
  IN 1 + ts + (IF p[1] % 2 = 1 THEN count ELSE 0)

\* A header and a chain of at most four bytes.
keyed_len(p) == IF Chain(p, 2, 4) = 0 THEN -1 ELSE 1 + Chain(p, 2, 4)

cc_len(p) == IF p[1] \in {14, 15} THEN keyed_len(p) ELSE IF p[1] \in {12, 13} THEN 2 ELSE 1

cond_inst_len(p) == IF p[1] = 108 THEN keyed_len(p) ELSE IF p[1] = 109 THEN 2 ELSE 1

\* In format 1 one or two payloads, each a byte and a chain of at most five.
cond_result_len(p) ==
  LET After(i) == IF i = 0 \/ Chain(p, i + 1, 5) = 0 THEN 0 ELSE i + 1 + Chain(p, i + 1, 5)
      format1 == (IF (p[1] \div 4) % 2 = 1 THEN After(2) ELSE After(After(2))) - 1
  IN IF p[1] \in 104..111 THEN format1 ELSE IF p[1] \in 80..95 THEN 2 ELSE 1

\* All others are one byte, the context packet 129 excepted.
other_len(p) ==
  CASE p[1] \in {2, 3} -> timestamp_len(p)
    [] p[1] \in 12..31 -> cc_len(p)
    [] p[1] \in 64..67 \union {108, 109} -> cond_inst_len(p)
    [] p[1] \in 68..95 \union 104..107 \union {110, 111} -> cond_result_len(p)
    [] p[1] = 129 -> 1 + context_len(p, 2)
    [] OTHER -> 1

EE(p) == 2 * ((p[2] \div 64) % 2) + (p[2] % 2)

decode_exception(t, p) ==
  LET at == IF p[2] >= 128 THEN 4 ELSE 3
      struck == [t EXCEPT !.from_exception = TRUE]
      end == IF EE(p) = 1 THEN [tracer |-> struck, len |-> 0]
             ELSE decode_address(struck, SubSeq(p, at, Len(p)))
  IN IF p[1] = 7 THEN [tracer |-> t, len |-> 1]
     ELSE IF EE(p) \notin {1, 2} THEN [tracer |-> struck, len |-> -1]
     ELSE [tracer |-> [end.tracer EXCEPT !.exception_nums = @ + 1],
           len |-> at - 1 + end.len]

decode(t, p) ==
  CASE p[1] = 0 -> decode_extension(t, p)
    [] p[1] = 1 -> decode_trace_info(t, p)
    [] p[1] \in {6, 7} -> decode_exception(t, p)
    [] IsAddress(p[1]) -> decode_address(t, p)
    [] OTHER -> [tracer |-> t, len |-> other_len(p)]

\* packet_index[c] = -1: no packet begins with c.
Reserved == {5} \union 8..11 \union 96..103 \union {132} \union 135..143
            \union {148, 151, 152, 153, 156, 159} \union 176..191
IsAtom(c) == c >= 192

\* A packet, or what is taken for one, that changes no counter.
Silent(p) ==
  \/ p \in {Async, <<0, 3>>, <<7>>}
  \/ Len(p) = 1 /\ p[1] \in Reserved
  \/ Len(p) > 1 /\ p[1] = 1 /\ trace_info_len(p) = Len(p)
  \/ /\ Len(p) > 0 /\ p[1] \notin {0, 1, 6, 7} \union Reserved
     /\ ~IsAtom(p[1]) /\ ~IsAddress(p[1]) /\ other_len(p) = Len(p)

-----------------------------------------------------------------------------
(* The trace unit.  It sends a packet when the decoder has consumed the one  *)
(* before: the decoder reads no further than a packet and sees no difference. *)

None == [op |-> "none"]
NoWhere == [lo |-> -1, mid |-> 0, hi |-> 0]

\* The branches an atom packet stands for, in program order.
AtomSeq(c) ==
  CASE c \in 246..247 -> <<c % 2>>
    [] c \in 216..219 -> <<c % 2, (c \div 2) % 2>>
    [] c \in 248..255 -> <<c % 2, (c \div 2) % 2, (c \div 4) % 2>>
    [] c \in 220..223 -> <<<<0, 1, 1, 1>>, <<0, 0, 0, 0>>, <<0, 1, 0, 1>>, <<1, 0, 1, 0>>>>[c - 219]
    [] c = 245 -> <<0, 1, 1, 1, 1>>
    [] c \in 213..215 -> <<<<0, 0, 0, 0, 0>>, <<0, 1, 0, 1, 0>>, <<1, 0, 1, 0, 1>>>>[c - 212]
    [] c \in 192..212 \union 224..244 ->
         [i \in 1..(c % 32) + 4 |-> IF c >= 224 /\ i = (c % 32) + 4 THEN 0 ELSE 1]

\* A long address of 32 or of 64 bits, without and with a context: the exception
\* level and a context ID.
Long32(c, a) == <<c, (a.lo % 512) \div 4, (a.lo \div 512) % 128,
                  (a.lo \div Bits16) + 2 * (a.mid % 128), a.mid \div 128>>
Long64(c, a) == Long32(c, a) \o <<a.hi % 256, (a.hi \div 256) % 256, a.hi \div Bits16, 0>>
Context == <<144, 42, 0, 0, 0>>

\* The shortest packet for a, given the last three addresses.
Encode(a, regs) ==
  LET r == regs[1]
      same == {q \in 1..3 : regs[q] = a}
  IN IF same # {} THEN <<143 + Min(same)>>
     ELSE IF a.hi # r.hi THEN Long64(157, a)
     ELSE IF a.mid # r.mid THEN Long32(154, a)
     ELSE IF a.lo \div 512 # r.lo \div 512
          THEN <<149, 128 + ((a.lo % 512) \div 4), a.lo \div 512>>
     ELSE <<149, (a.lo % 512) \div 4>>

EncodeWithContext(a, regs) ==
  IF a.hi # regs[1].hi THEN Long64(133, a) \o Context ELSE Long32(130, a) \o Context

Push(regs, a) == <<a, regs[1], regs[2]>>

Send(packet, e) ==
  /\ state = "DECODING" /\ buff = <<>>
  /\ buff' = packet /\ event' = e
  /\ UNCHANGED <<bb_mode, state, tracer>>

\* A group of branches.  The target of the last one may follow, if it was taken;
\* in address mode it must, and no other branch of the group is taken.
SendAtoms == \E c \in {246, 247, unit.header} :
  LET n == Len(AtomSeq(c))
      taken == AtomSeq(c)[n] = 1
  IN /\ unit.target \in {"none", "may"} /\ unit.events > 0
     /\ bb_mode => \A i \in 1..n - 1 : AtomSeq(c)[i] = 0
     /\ Send(<<c>>, [op |-> "atoms", atoms |-> AtomSeq(c)])
     /\ unit' = [unit EXCEPT !.events = @ - 1, !.arrived = FALSE, !.struck = 0,
                             !.at = NoWhere,
                             !.target = IF ~taken THEN "none"
                                        ELSE IF bb_mode THEN "must" ELSE "may"]

SendAddress == \E a \in Targets :
  /\ unit.target \in {"may", "must"} /\ unit.events > 0
  /\ Send(Encode(a, unit.regs), [op |-> "arrive", address |-> a])
  /\ unit' = [unit EXCEPT !.events = @ - 1, !.arrived = TRUE, !.target = "none",
                          !.regs = Push(@, a), !.entered = @ \/ a = Main, !.at = a]

\* An interrupt at pc: where it struck is in the packet, unless that is the address
\* just sent.  Without a branch the program does not leave its text or come into it,
\* and not more than MaxInterrupts interrupts strike.
SendException == \E pc \in Targets :
  LET here == unit.arrived /\ pc = unit.regs[1]
  IN /\ unit.target \in {"none", "may"} /\ unit.interrupts > 0 /\ unit.struck < MaxInterrupts
     /\ unit.at # NoWhere => (InText(pc) <=> InText(unit.at))
     /\ unit.entered \/ pc # Main
     /\ Send(IF here THEN <<6, 157, 0>> ELSE <<6, 92>> \o Encode(pc, unit.regs), None)
     /\ unit' = [unit EXCEPT !.interrupts = @ - 1, !.struck = @ + 1,
                             !.arrived = FALSE, !.target = "off", !.at = pc,
                             !.regs = IF here THEN @ ELSE Push(@, pc)]

\* The handler is not traced.  Tracing goes on.
SendTraceOn ==
  /\ unit.target = "off"
  /\ Send(<<4>>, None)
  /\ unit' = [unit EXCEPT !.target = "back"]

\* The program goes on where it was, perhaps after a switch of the context.
SendReturn == \E switched \in BOOLEAN :
  /\ unit.target = "back"
  /\ Send(IF switched THEN EncodeWithContext(unit.at, unit.regs)
                      ELSE Encode(unit.at, unit.regs), None)
  /\ unit' = [unit EXCEPT !.arrived = TRUE, !.target = "none", !.regs = Push(@, unit.at)]

\* A packet that is no branch: a trace info resets the addresses.
SendOther ==
  /\ unit.other # <<>>
  /\ Send(Head(unit.other), None)
  /\ unit' = [unit EXCEPT !.other = Tail(@), !.arrived = FALSE,
                          !.regs = IF Head(unit.other)[1] = 1 THEN <<Zero, Zero, Zero>> ELSE @]

\* The FIFO of the trace unit is full: branches are lost, then tracing goes on.
SendOverflow ==
  /\ ~unit.overflowed
  /\ Send(<<0, 5>>, None)
  /\ unit' = [unit EXCEPT !.overflowed = TRUE, !.arrived = FALSE, !.at = NoWhere,
                          !.target = "must"]

-----------------------------------------------------------------------------
(* decode_stream(). *)

\* How a trace begins.  Decoding starts with it.
Sync == Async \o <<1, 1, 0, 4>>
Synchronised(p) ==
  /\ Len(p) > 12 /\ SubSeq(p, 1, 12) = Async /\ p[13] = 1
  /\ trace_info_len(SubSeq(p, 13, Len(p))) > 0

\* What a run consists of, with its bounds: the contents of the buffer up to the first
\* branch (a synchronisation only at their end), the header of an atom packet besides
\* those of one branch, packets of something that is no branch, and the numbers of
\* events and of interrupts.
Kit(kit) ==
  /\ kit.begin \in Seq(0..255)
  /\ \A n \in 1..Len(kit.begin) :
       LET rest == SubSeq(kit.begin, n, Len(kit.begin))
       IN Synchronised(rest) => rest = Sync
  /\ kit.header \in 192..255
  /\ kit.other \in Seq(Seq(0..255)) /\ \A i \in 1..Len(kit.other) : Silent(kit.other[i])
  /\ kit.events \in Nat /\ kit.interrupts \in Nat

\* Instructions are at multiples of four, none at 0, the program in the lower half.
Address == [lo : {n \in 0..Bits17 - 1 : n % 4 = 0}, mid : 0..32767, hi : 0..Bits16 * 256 - 1]

ASSUME TraceAssumption ==
  Targets \subseteq Address \ {Zero} /\ (\A kit \in Kits : Kit(kit)) /\ MaxInterrupts \in Nat

\* The trace unit at the start of a run: an address comes first.
Ready(kit) ==
  [header |-> kit.header, other |-> kit.other,
   events |-> kit.events, interrupts |-> kit.interrupts,
   regs |-> <<Zero, Zero, Zero>>, target |-> "must", arrived |-> FALSE,
   entered |-> FALSE, overflowed |-> FALSE, at |-> NoWhere, struck |-> 0]

Off == Ready([header |-> 192, other |-> <<>>, events |-> 0, interrupts |-> 0])

Init ==
  /\ bb_mode \in BOOLEAN
  /\ state = "READING" /\ buff = <<>> /\ event = None
  /\ tracer = Started /\ unit = Off

\* The trace of the run is copied.
Load == \E kit \in Kits :
  /\ state = "READING" /\ state' = "SYNCING"
  /\ buff' = kit.begin
  /\ unit' = Ready(kit)
  /\ UNCHANGED <<bb_mode, tracer, event>>

\* Before the next run is decoded, in the mode it was traced in, the counters are
\* reset and the address registers new.
NextRun ==
  /\ state = "DONE" /\ state' = "READING"
  /\ bb_mode' \in BOOLEAN
  /\ tracer' = Started
  /\ buff' = <<>> /\ event' = None /\ unit' = Off

\* The event has been seen when the buffer is at its end.
Consume(n) ==
  /\ buff' = SubSeq(buff, n + 1, Len(buff))
  /\ event' = IF n < Len(buff) THEN event ELSE None

\* (Mutant) the scan stays at an extension packet that starts nothing.
ScanStays ==
  LET e == IF buff[1] = 0 THEN decode_extension(tracer, buff)
                          ELSE [tracer |-> tracer, len |-> 1]
      found == e.len = 12 /\ Len(buff) > 12 /\ buff[13] = 1
  IN /\ state = "SYNCING" /\ buff # <<>>
     /\ tracer' = e.tracer
     /\ IF found THEN state' = "DECODING" /\ UNCHANGED <<buff, event>>
                 ELSE Consume(IF buff[1] = 0 THEN 0 ELSE 1) /\ UNCHANGED state
     /\ UNCHANGED <<unit, bb_mode>>

\* Search the first synchronisation with a trace info packet behind it; decoding
\* starts at it.
Scan ==
  LET e == IF buff[1] = 0 THEN decode_extension(tracer, buff)
                          ELSE [tracer |-> tracer, len |-> -1]
  IN /\ state = "SYNCING" /\ buff # <<>>
     /\ tracer' = e.tracer
     /\ IF Synchronised(buff) THEN state' = "DECODING" /\ UNCHANGED <<buff, event>>
                 ELSE Consume(1) /\ UNCHANGED state
     /\ UNCHANGED <<unit, bb_mode>>

Decoding == state = "DECODING" /\ buff # <<>>

\* A byte that begins no packet.
SkipByte ==
  /\ Decoding /\ Head(buff) \in Reserved
  /\ Consume(1)
  /\ UNCHANGED <<state, tracer, unit, bb_mode>>

\* After an overflow nothing more is counted.
GiveUp ==
  /\ Decoding /\ Head(buff) \notin Reserved /\ tracer.overflow_nums > 0
  /\ state' = "DONE"
  /\ UNCHANGED <<buff, tracer, event, unit, bb_mode>>

CountAtoms ==
  /\ Decoding /\ IsAtom(Head(buff)) /\ tracer.overflow_nums = 0
  /\ tracer' = decode_atoms(tracer, Head(buff))
  /\ Consume(1)
  /\ UNCHANGED <<state, unit, bb_mode>>

\* (Mutant) only atoms are ignored after an overflow.
DecodePacketAnyway ==
  LET d == decode(tracer, buff)
  IN /\ Decoding /\ Head(buff) \notin Reserved /\ ~IsAtom(Head(buff))
     /\ tracer' = d.tracer
     /\ Consume(IF d.len <= 0 THEN 1 ELSE d.len)
     /\ UNCHANGED <<state, unit, bb_mode>>

DecodePacket ==
  LET d == decode(tracer, buff)
  IN /\ Decoding /\ Head(buff) \notin Reserved /\ ~IsAtom(Head(buff))
     /\ tracer.overflow_nums = 0
     /\ tracer' = d.tracer
     /\ Consume(IF d.len <= 0 THEN 1 ELSE d.len)
     /\ UNCHANGED <<state, unit, bb_mode>>

EndOfBuffer ==
  /\ state \in {"SYNCING", "DECODING"} /\ buff = <<>>
  /\ state' = "DONE"
  /\ UNCHANGED <<buff, tracer, event, unit, bb_mode>>

Decoder == Scan \/ SkipByte \/ GiveUp \/ CountAtoms \/ DecodePacket \/ EndOfBuffer

Unit == \/ SendAtoms \/ SendAddress \/ SendException \/ SendTraceOn \/ SendReturn
        \/ SendOther \/ SendOverflow

Next == Unit \/ NextRun \/ Load \/ Decoder

Spec == Init /\ [][Next]_vars

-----------------------------------------------------------------------------
Running == state \in {"SYNCING", "DECODING"}

\* The map of a run that overflowed is not touched any more.
FrozenByOverflow == [][
  (Running /\ tracer.overflow_nums > 0) => tracer'.trace_bits = tracer.trace_bits]_vars

\* Every step of decode_stream() consumes a byte or is its last in this state: no
\* contents of the buffer keep it from its end.
Consumes == [][
  (Running /\ buff # <<>>) => (Len(buff') < Len(buff) \/ state' # state)]_vars

\* The decoder counts the branches of the program: a packet is the event it stands
\* for, and interrupts, addresses sent short and synchronisation do not show.
Flow == IF event = None THEN <<>> ELSE <<event>>

Count(t) == [entered |-> t.entry_flag, taken |-> t.branch_flag,
             since |-> t.atom_in_slide, path |-> t.hash, last |-> t.pre_basic_block,
             branches |-> t.branch_nums, map |-> t.trace_bits]

Abs == INSTANCE BranchTrace WITH flow <- Flow, counted <- Count(tracer)

CountsTheBranches == Abs!Spec
=============================================================================
