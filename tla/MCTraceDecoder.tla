--------------------------- MODULE MCTraceDecoder ---------------------------
EXTENDS TraceDecoder

At(lo, mid, hi) == [lo |-> lo, mid |-> mid, hi |-> hi]

MCMain == At(4096, 3, 170)
MCTextStart == At(4096, 3, 170)
MCTextEnd == At(10240, 3, 170)

\* main; near main; in another 512 bytes; in a library beyond the text.
MCTargets == {MCMain, At(4604, 3, 170), At(9216, 3, 170),
              At(4100, 4, 170)}

RunKit(begin, header, other, events, interrupts) ==
  [begin |-> begin, header |-> header, other |-> other,
   events |-> events, interrupts |-> interrupts]

\* The rest of a packet; an overflow; zeros that look like a start.
Leads == {<<154, 17>>, <<0, 5>>, <<0, 0>>}

Resync == <<Async, <<1, 1, 0>>, <<4>>>>

\* A discarded trace; a context; packets of cycle counting, of conditional
\* instructions and time stamps; a trace info with every section.
Others == {<<<<0, 3>>>>, <<<<129, 144, 42, 0, 0, 0>>>>, <<<<128>>, <<112>>>>,
           <<<<12, 33>>, <<18>>>>, <<<<32>>, <<45>>, <<48>>, <<52>>, <<56>>>>,
           <<<<108, 129, 2>>, <<64>>, <<109, 5>>, <<67>>>>,
           <<<<106, 149, 1, 134, 0>>, <<110, 133, 2>>, <<72>>, <<80, 149>>, <<68>>>>,
           <<<<2, 131, 5>>, <<3, 131, 5, 144, 1>>>>,
           <<<<1, 15, 1, 130, 1, 131, 2, 144, 3>>, <<4>>, <<5>>, <<7>>>>}

MCKits ==
  {RunKit(Sync, 215, <<>>, 6, 2), RunKit(Sync, 226, <<>>, 7, 0),
   RunKit(Sync, 226, Resync, 5, 0), RunKit(Sync, 247, <<<<1, 1, 0>>>>, 3, 2)}
  \union {RunKit(Sync, c, <<>>, 3, 0) : c \in 192..255 \ (208..212)}
  \union {RunKit(lead \o start, 246, <<>>, 1, 0) : lead \in Leads, start \in {Sync, <<>>}}
  \union {RunKit(Sync, 246, other, 3, 1) : other \in Others}
=============================================================================
