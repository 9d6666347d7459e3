------------------------------ MODULE BranchTrace ------------------------------
(***************************************************************************)
(* What the map of a run promises: the branches the traced program took,   *)
(* in the order it took them, from main on and into its text - nothing     *)
(* else, and each once.  The program is a flow of events: a group of       *)
(* conditional branches taken (1) or not (0), and the arrival at the       *)
(* target of a branch.  Interrupts, the compression of addresses,          *)
(* synchronisation and bytes do not appear: TraceDecoder implements this.  *)
(***************************************************************************)
EXTENDS TraceNumbers

CONSTANTS Main,                 \* main_entry_addr
          TextStart, TextEnd    \* text_start_addr, text_end_addr

VARIABLES bb_mode,  \* the mode of the run: TRUE address mode, FALSE atom mode
          flow,     \* the events of the program that are not counted yet
          counted   \* what was counted of those before

vars == <<bb_mode, flow, counted>>

\* Nothing counted: the program has not reached main.
Nothing == [entered |-> FALSE,   \* main was reached
            taken |-> FALSE,     \* the last branch was taken
            since |-> 1,         \* branches since the last counted arrival, plus 1
            path |-> 0,          \* their hash: which were taken (atom mode)
            last |-> 0,          \* the last counted location, halved
            branches |-> 0, map |-> <<>>]

Init == bb_mode \in BOOLEAN /\ flow = <<>> /\ counted = Nothing

Atom == [op : {"atoms"}, atoms : Seq({0, 1})]
Arrival == [op : {"arrive"}, address : [lo : Nat, mid : Nat, hi : Nat]]

\* The program runs on.
Perform ==
  /\ Len(flow') = Len(flow) + 1
  /\ flow'[Len(flow')] \in Atom \union Arrival
  /\ flow' = Append(flow, flow'[Len(flow')])
  /\ UNCHANGED <<bb_mode, counted>>

\* Branches count from main on.
Branches(c, atoms) ==
  IF ~c.entered THEN c
  ELSE [c EXCEPT !.taken = atoms[Len(atoms)] = 1,
                 !.since = @ + Len(atoms),
                 !.path = IF bb_mode THEN @ ELSE PathHash(@, atoms)]

\* A location is the target and the way to it: how many branches (at most 5 are
\* told apart), or which of them were taken.
Location(c, a) ==
  (a.lo + (IF ~bb_mode THEN c.path ELSE IF c.since > 4 THEN 4 ELSE c.since - 1)) % Bits17

InText(a) == Leq(TextStart, a) /\ Leq(a, TextEnd)

\* The arrival at a in the text, by a taken branch, is an edge of the map.
Arrive(c, a) ==
  LET e == [c EXCEPT !.entered = @ \/ a = Main]
  IN IF ~(e.entered /\ e.taken /\ InText(a)) THEN e
     ELSE [e EXCEPT !.taken = FALSE, !.since = 1, !.path = 0,
                    !.last = Location(c, a) \div 2,
                    !.branches = @ + c.since,
                    !.map = Increment(@, Xor16(Location(c, a) % Bits16, c.last))]

\* The next event of the program, e, is counted.
Observe == \E e \in {flow[i] : i \in 1..Len(flow)} :
  /\ flow = <<e>> \o Tail(flow) /\ flow' = Tail(flow)
  /\ counted' = IF e.op = "atoms" THEN Branches(counted, e.atoms)
                                  ELSE Arrive(counted, e.address)
  /\ UNCHANGED bb_mode

\* The next run starts from nothing, whatever the last one left, in either mode.
NextRun == bb_mode' \in BOOLEAN /\ flow' = <<>> /\ counted' = Nothing

Next == Perform \/ Observe \/ NextRun

Spec == Init /\ [][Next]_vars
=============================================================================
