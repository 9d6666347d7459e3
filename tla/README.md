# Stalker in TLA+

Stalker is a greybox fuzzer: AFL 2.5x with the instrumentation replaced by the Arm
CoreSight trace hardware (ETMv4 trace units, one ETR buffer). The program is
`AFL-ETM/afl-fuzz` (`afl-fuzz.c` with `stream.c`, `tracer.c`, `decoder.c`,
`etmv4_decode.c`), with `afl-tmin` beside it. This directory holds TLA+ models of it, TLC
configurations and TLAPS proofs. Paths below are relative to `src/AFL-ETM`; line numbers
without a file are of `afl-fuzz.c`.

## 1. Inventory

| Component | State | Operations | Interacts with | Hard behaviour | What makes it correct |
|---|---|---|---|---|---|
| Execution of the target (2634-2715, 2767-3148, 7896-7912) | `child_pid`, `child_timed_out`, `skip_tracing`, the interval timer, `etm_mutex`, ETM registers, the ETR buffer, `trace_bits` | `run_target`, `start_etm`, `stop_etm`, `handle_timeout` | fork server (two pipes), SIGALRM, the other process of `-X` through the mutex and the buffer | signal against main line, two processes on one buffer, a fork server that dies | every run is traced whole and alone; its verdict and map are its own; every call returns |
| Frequency controller (3025-3107, 2747-2761, 3150-3202) | `cur/opt_cpu_freq_*`, `stable_freq_nums_*`, `non_overflow_nums_*`, `freq_interval`, `cur_repetition_num`, `min_freq_exec_flag` | end of `run_target`, `retry_to_fuzz` | decoder (`overflow_nums`), cpufreq sysfs files, three callers with retry loops | integer against double arithmetic, intervals that move, globals shared by the loops | frequencies stay in range, overflow slows down, retries end |
| Queue and culling (936-969, 1425-1526, 6039-6120, 7695-7712) | `queue_entry` list, `top_rated[]`, `tc_ref`, `trace_mini`, favored/pending counters | `add_to_queue`, `update_bitmap_score`, `cull_queue`, skipping and abandoning in `fuzz_one` | calibration, trimming, `save_if_interesting`, `main` | long sequences of legal calls; stored traces that age | reference counts and counters are exact, culling covers the map, favorites are fuzzed |
| Hybrid coverage (1039-1113, 3266-3289, 4012-4278, 9020-9052) | `virgin_bits/atom/atom_real/tmout/crash`, `atom_check_*`, `bb_mode` | `has_new_bits`, `save_if_interesting`, `purge_atom_coverage`, `set_etm_mode` | execution, queue, calibration | a nested run in the other mode between check and use | no new coverage is lost, maps of the two modes stay apart |
| Calibration (3295-3567) | `first_trace`, `var_bytes`, `cal_failed`, stage counters | `calibrate_case` | execution, queue | two modes interleaved in one loop, abort paths | the stored checksum is of a run without overflow; modes restored |
| Trimming, mutation stages (5504-5708, 6173-7690) | `in_buf`, `out_buf`, `eff_map`, `extras` | `trim_case`, `common_fuzz_stuff`, `fuzz_one` stages, `could_be_*` | all of the above | arithmetic at boundaries | each stage restores the buffer; skipped values were tried before |
| Trace decoder (`stream.c`, `tracer.c`, `decoder.c`, `etmv4_decode.c`) | packet position, synchronisation, address registers, exception and branch state, atom slide | `decode_stream`, `decode_*`, `tracer_*` | execution (`trace_result`), `trace_bits` | packets read by the state earlier ones left | each packet is decoded by its format; branches are counted once |
| Synchronisation (7723-7866) | `.synced/<id>` files, other instances' queue directories | `sync_fuzzers` | other processes through the file system | files being written, aborts in between | every foreign case is tried; a pass ends |
| Start and shutdown (7872-7883, 9009-9018, 9352-9412, 9555-9596) | `stop_soon`, `multicore_pid`, cpufreq settings | `main`, `handle_stop_sig`, `restore_cpu_frequency` | both processes of `-X` | signals, one process killing the other | settings restored, state written |
| Output directory (4340-4700, 9440-9500) | `queue`, `_resume`, `.state` marks, `fuzzer_stats` | `maybe_delete_out_dir`, `read_testcases`, `pivot_inputs`, `nuke_resume_dir`, `find_start_position`, `write_stats_file` | every component that writes a case; the next session | a kill between any two changes of the disk | no case and no mark is lost; files are the queue in memory |
| afl-tmin (`afl-tmin.c`) | `in_data`, `orig_cksum`, block and position of each stage | the dry run, `minimize`, the timer, the stop by the user | the target | skipped repetitions, stages that undo each other's fixpoint | the result behaves as the original, is 1-minimal, and comes |

Left aside: the instrumentation, LLVM and QEMU modes inherited from AFL (their fork
servers use `FORKSRV_FD`, 198; `init_forkserver` connects `AFLCS_FORKSRV_FD`, 195, so they
never reach this afl-fuzz), `temp.c` and `simple.c` (earlier copies of afl-fuzz that are
not built), `afl-showmap`, `afl-analyze` and `afl-gotcpu`, scripts, Arm's CSAL tools, and
binaries without source (`../lib`, `../SOFTWARE`). The patched dynamic linker of `../lib`
is the fork server in use; it is modelled from the words `run_target` exchanges with it
and marked external.

How the parts interact: `main` picks queue entries and calls `fuzz_one`, which trims,
mutates and hands each mutation to `common_fuzz_stuff`; that runs the target
(`run_target`: fork server, trace unit, SIGALRM), decodes the trace into `trace_bits` and
gives it to `save_if_interesting`, which may run the target again in the other mode,
calibrate and add to the queue. The frequency controller sits at the end of `run_target`
and in the retry loops around it. The queue is mirrored in the output directory, from
which the next session resumes and other instances import.

The hazards of the code, each at its line with the properties that watch it, are in
`PROJECT.json`.

## 2. Plan

Done: `Execution` with its abstract specification `AtomicRun`, `Frequency`, `Queue`,
`Hybrid`, `Mutations` and `FuzzOne`, `TraceDecoder` with its abstract specification
`BranchTrace`, `OutputDir`, `Sync`, `Minimizer`.

Left, in order of weight:

1. `Faults`: the half of `save_if_interesting` for cases that crash or hang:
   `virgin_tmout` and `virgin_crash`, the rerun with `hang_tmout`, the limits on kept
   samples; abstract specification: a set of unique faults.
2. Shutdown: the cpufreq settings, and the parent and child of `-X` at the time limit.

## 3. Modules

### AtomicRun, Execution
`AtomicRun` is the run that the callers of `run_target` take for granted, and with them
`Hybrid`, `Frequency` and `FuzzOne`, in which a run is one step: `Call`, `Observe` (map and
counters of this run, unless its timer fired: then an empty map, and counters of an earlier
run), `Return` (a timeout only if the timer fired, nothing at all once the program is to
stop), `Cancel` and `Exit` when the fork server is gone. The timer may fire at any time but
between the observation and the return.

`Execution` has one step per system call of `run_target`; each afl-fuzz process `f` has
its own fork server, child, core and ETM (`source[f]`), and all share the ETR buffer
(`etr`) and, with `Multicore`, `etm_mutex`. `Begin` is the entry of a call from any call
site. `Ask`, `GetPid`, `Lock`, `StartEtm`, `Notify`, `Arm`, `GetStatus`, `ClearPid`,
`Disarm`, `StopEtm`, `Unlock`, `Decode`, `Report` follow the code's order; `Fork` stands
for the branch without fork server, which shares the middle part. With `Analysis` a
process begins as `cpu_frequency_analysis` leaves it, with children forked by `run_target`
itself, and `StartServer` and `Hello` are the handshake of `init_forkserver`, its timer
included. `Timeout` is `handle_timeout` delivered at any point at which the timer is
armed. `PipeFails` is a failed read or write (return if `stop_soon`, else exit), `NoChild`
a server that cannot fork (FATAL), `TimeLimit` the end of the process at the limit of `-l`
and `StopWhenDone` the ends that set `stop_soon`, both in `show_stats`. A child may end by
`exit`, with the code of MSAN (if `uses_asan`), by a signal of its own, by SIGKILL, or
because `execv` has failed; the branch without fork server then compares a word it never
wrote (`Faults`). `ClearPid` always clears: the linker's server waits for the end of its
child, so no status says "stopped". A failing `pipe()` is left out. `ServerForks`,
`ChildRuns`, `ChildEnds`, `ServerDies` are the environment. Data is reduced to whose it
is: a packet or a map is the set of children it came from, a pid is the number of the run.
`Phase` maps its steps to those of `AtomicRun`: a call shows where it begins, at `Decode`
and at `Report`.

### Frequency
One step per call of `run_target`, with the retry decision as a step of its own. `Slower`,
`Faster`, `Mean` and `Interval` translate the arithmetic exactly; doubles become fractions
rounded as the conversion to `u64` rounds them. Which run overflows, fails or is left
untraced is free; an untraced run keeps the overflow count of the run before it, and the
controller looks at that. `Retry` sees the frequency that `Run` has already lowered, as
`retry_to_fuzz` does, so `speed` keeps the one the run was made at.

### Queue
`perform_dry_run` calibrates the inputs; then the main loop culls, picks, skips,
calibrates again what failed (up to `CalChances`), trims, finds and abandons.
`update_bitmap_score` and the loop of `cull_queue` take one step per map byte.
`Calibrated` and `Trim` are where an entry is scored; a calibration may observe another
set of bytes than the checksum's when `Variable`. Skipping is nondeterministic where the
code throws dice. Costs (`exec_us * len`) are small numbers. Dumb mode and `queued_paths >
10` (as a guard of skipping) are left out: skipping may happen earlier than in the code.

### Hybrid
Hybrid coverage (`-E 3`), with a step for every run of the target whose map is used; `pc`
names the function that makes the next one. `bb_mode` is the variable of the code, `etm`
the mode register `set_etm_mode` writes: an assignment of one without the other shows. A
map is the set of bits a run set, and bits of atom maps and of address maps are different
values although the code keeps both in the same cells; a checksum is its map, and `None` a
checksum of 0. `Calibrate` is the entry of `calibrate_case` from the dry run, from
`fuzz_one` or from `save_if_interesting`; `CalibrateCycle`, `CalibrateEnd` and
`CalibrateAbort` are a cycle of its loop, the last one and the abort, with the switch at
half time, the comparison in either mode and `first_trace` as the code has them; `Return`
gives the verdict to the caller. `TrimStart` and `TrimEnd` are the mode of `trim_case`
(its runs and its shortening loop are in `FuzzOne`); `UpdateChecksum` is
`update_checksum_in_hybrid_mode` with the reset of the mode after it. `StageRun`,
`StageNew` followed by `ConfirmOld` or `ConfirmNew`, and `StageKeep` are the paths of
`common_fuzz_stuff` and `save_if_interesting`; every counted run may be one in which
`purge_atom_coverage` finds its interval over. Which bits a run sets, whether it
overflows, times out or crashes is free; a run that is retried counts as its last attempt
(the retries are in `Frequency`), a run that times out has an empty map and, as the
overflow counter is left over from an earlier run, any overflow flag. Left out:
`crash_mode`, dumb mode, imported cases, the fault maps (`Faults` of the plan), the
checksum 0 of a run (not noted in the filter), timing and statistics. The map left in
`trace_bits` when `fuzz_one` calibrates is any map.

`MapsNotMixed` is about the mode register, the virgin maps, `exec_cksum`, `top_rated` and
`var_bytes`. It leaves out `first_trace` (an earlier calibration's may lie there, which
`TypeOK` shows is not compared with) and `atom_cksum`: that one does take an address
checksum, when a calibration aborted before its half leaves address mode on (6148 comes
before 6149-6152). What that does to the effector map is in `FuzzOne`.

### Mutations and FuzzOne
`Mutations` is the arithmetic of the stages on sequences of bytes: flips, additions in
both byte orders and three widths with their carries, interesting values, and
`could_be_bitflip`, `could_be_arith` and `could_be_interest` as the code decides them.
`FuzzOne` is `fuzz_one` over one entry: `TrimBegin`, `TrimTry`, `TrimHalve` and `TrimDone`
are the loop of `trim_case`; `Flip1` to `Flip8Done` with `InStage`/`EndStage` the
deterministic stages up to interest 32, each with its effector test, its short cuts and
the restoring of `out_buf`; `Over`, `UserInsert` and their ends the two dictionaries;
`Stack` and `Tweaks` a stack of havoc with the length of the buffer, `HavocRun` the run
and the restoring after it; `Splice` and `NoPartner` the choice of a partner.
`abandon_entry` may come after any run.

The trace of a whole run is a function `Trace` of mode and buffer, its checksum the pair
of mode and trace. In mode 3 a run ends in atom mode or, if its atoms were new, in address
mode (`Runs`); and a run that overflows, times out or varies may leave any checksum of
`Odd`. `exec_cksum` is what earlier runs have stored, which need not be the case's own.
`UpdateChecksum` stores `atom_cksum` as the code does: of a run in whatever mode is on,
and only if nothing overflowed, so that it may be of another mode, of another trace or the
one before. In `TrimTry` a run that overflowed may show the very trace of the entry. Three
history variables remember what the properties need: `misled`, that the last cut of
trimming rests on a run that was not whole although it lost no packets; `seen`, in which
mode the flip of a byte was seen whole; `tried`, what has been run.

A token found is kept with its `hit_cnt`: `maybe_add_auto` compares without case, counts a
token found again, puts a new one in the place of one of the lower half when there are
`MAX_AUTO_EXTRAS`, and sorts; only the `USE_AUTO_EXTRAS` best, by length, are used in
place. With more than `MAX_DET_EXTRAS` tokens of the user `Over` may skip any of them.
Bytes that a random choice writes are any value: in havoc the number -1 stands for them.
Skipping, calibration and the pending counters are in `Queue`, the modes and maps of the
run in `Hybrid`.

### TraceNumbers, BranchTrace, TraceDecoder
`BranchTrace` is the promise: a program is a flow of events (a group of conditional
branches taken or not, the arrival at a branch target), and the map counts the arrivals in
the text from `main` on, each at the cell its location and the one before give.
`TraceDecoder` is the code: `Scan`, `SkipByte` and `GiveUp` are `synchronization`,
`DecodePacket` one turn of `decode_stream` with the length the packet's decoder returns,
`decode_atoms` and `tracer_address` the counting with its exception state. The other half
of the module is the trace unit, modelled from what the decoder expects of it (external):
it encodes an event as a packet (`SendAtoms`, `SendAddress`), compresses addresses against
its address registers (`Encode`), sends an interrupt as exception, trace on and return
(`SendException`, `SendTraceOn`, `SendReturn`, the last perhaps with a new context), other
packets and overflows. It sends a packet when the one before it is consumed; the code
has the whole trace in its buffer, but reads no further than one packet. `event`
remembers which event the packet in the buffer stands for; with it `Abs` maps the
decoder's state to `BranchTrace`, and `CountsTheBranches` says that every step of the
decoder counts one event or none. `Kits` says what the runs consist of (`Kit`: what lies
before the first branch, one more atom header, packets that change no counter, numbers of
events and interrupts); `TraceAssumption` asks of them no more than that, and of the
targets that they are addresses of AArch64 code. Addresses are records of a low part of 17
bits, which a map index depends on, and two upper parts.

At most `MaxInterrupts` interrupts strike between two branches, two in the run, and they
strike where the program can be without a branch: it does not leave its text or come into
it. The bound on their number is needed. While a taken branch waits for its target, the
first address after an exception goes to `IRQ_addr`, and the same address again clears it.
An exception that follows the return at once has no address of its own, so the return from
it is what goes to `IRQ_addr`; a third one at another place is then counted by
`tracer_address` (403-415) as an edge. TLC finds this with `MaxInterrupts` 3, and the
theorems assume that it is at most 2; no document speaks of interrupts, so it is a hazard
in `PROJECT.json` and not a finding.

### OutputDir
One step per change of the disk: the start (`StartFresh`, `StartInPlace` with `rename()`),
the deletion of what is left mark by mark and file by file, `PivotCase`/`PivotMark` for
the import under new ids, `NukeMark` to `NukeDone` for `_resume`, the statistics
(truncated, then written), a find (`AddToQueue`: in memory and being calibrated, without a
file; then created, then written), the mark of the deterministic stages, the three steps
of a trim. `Kill` may fall between any two: a stop by the user is one too, as
`handle_stop_sig` kills the process group. `RemoveStats` is a user who removes torn
statistics. `ReadTestcases` takes the files in their order or, with `AFL_SHUFFLE_QUEUE`,
in any (queues of up to `MaxShuffled` entries); `trusted` tells whether the entry the
statistics name is still the one the last session was at. `debris` notes the moments at
which the code itself loses something: `_resume` half deleted, a trimmed file unlinked but
not rewritten, a fresh session over a `_resume`.

### Sync
`sync_fuzzers` of each instance over the queues of the others, file by file, with
`min_accept` from `.synced` and files that are still empty. `RunAgain` is the retry as the
code has it. The steps after the first import (`Save`, `CloseQueue`) are in the module as
the code has them, and never reached after a file was run.

### Minimizer
`afl-tmin`: `DryRun`, then `minimize`: `Normalize`, `Delete`, `Alphabet`, `Chars`, each
step one try with the code's test of the skipped repetition, the ends of the stages and
passes, `WriteOutput`, and `Abort` where the code looks at `stop_soon`. The target is
deterministic and given by `Outcome`; the alarm may come late for a run that ended
(`late`).

### Modules around them
Each `MC*` module instantiates one of them. A definition marked "(Mutant)" is a plausible
slip of the code next to it, is used by no specification and shows that the properties
notice it. `*Proofs` hold the theorems.

## 4. Runs

| Run | Bounds | Shows |
|---|---|---|
| `execution_solo` | one process, four calls from `cpu_frequency_analysis` on, a fork server that may die, fairness | `TimeoutVerdict`, `OwnTrace`: verdict, map and counters belong to their run; `ImplementsAtomicRun` (a refinement); `RunCompletes`: every call with the fork server returns |
| `execution_multicore` | two processes, two calls each, time limit, fairness | `EtrExclusive`, `FullyTraced`: one trace at a time, each whole; `AlarmInOwnRun`; `RunCompletes`: the mutex is handed on |
| `execution_shared_buffer` | two processes | violation of `OwnTrace`: decoding after unlock |
| `frequency_hybrid` | frequencies 10 and 21 with every value between, 6 runs, intervals 1-3, 2 repetitions | range, slow-down, the bound and the outcome of the retry loop |
| `queue_culling` | 3 entries, 1 of them an input, 2 bytes, 2 costs, 2 chances, varying traces, fairness | references, pending counters and winners are exact, culling covers, favorites are fuzzed |
| `hybrid_modes` | 3 entries, 1 input, 2 fuzzed, 1 atom and 2 address bits, 4 cycles (5 long), symmetry | the virgin maps, scores and `exec_cksum` take no bits of the other mode, coverage is owned, the filter works, entries are scored by address maps, modes are restored |
| `trace_decoder` | runs of up to 7 events with up to 2 interrupts between two branches, in both modes, one after the other; 4 targets; each atom packet; rubbish before the first packet; a sample of every other packet | `CountsTheBranches` (the refinement), `FrozenByOverflow`, `Consumes` |
| `output_resume` | 2 inputs, 1 find, queues of up to 2 shuffled, any number of sessions | `CasesSurvive`, `MarksSurvive`, `DiskIsMemory`, `SeekSameCase` |
| `sync_import` | 2 instances, 2 cases, fairness | violation of `BackToFuzzing`: an import never ends |
| `fuzz_one` | 15 entries of 1 to 6 bytes with their options, mode 3, whole runs and one checksum of others, 4 tokens, 3 splicing partners, fairness | buffers are restored, short cuts leave out nothing untried, the effector map is exact as far as runs told, lengths fit, trimming keeps the trace, `fuzz_one` returns |
| `fuzz_one_tokens` | two of them, whole runs only | violation of `TokensHadEffect`: tokens of bytes without effect |
| `minimizer` | every case of up to 4 bytes over 3 symbols, 5 targets (one hangs, one counts the length), the exact option | `KeepsBehaviour`, `OneMinimal`, `Ends` |

Why these bounds are enough. `run_target` keeps nothing across calls but the flags, the
timer, the buffer and the counters of the previous run, so a second call shows a leak and
a third one its repair; the fourth makes room for the change from no fork server to one.
Two processes suffice for one mutex and one buffer. In `Frequency` six runs cover a full
retry cycle at the bound, an interval that shrinks and the call after it. In `Queue` a
slot can change hands twice among three entries, and an entry can hold all slots or none;
with two bytes a stored trace can miss a slot won later. In `Hybrid` two fuzzed entries
let a mode that one leaves behind reach the next; three entries are an input, a find of
the first and a find of the second; four cycles are two in each mode, so that a trace is
compared with one of its own mode; with one atom bit and two address bits a case may be
new in one map and old in the other, and a second case may still be new; a filter key of
one half is enough for the filter to be noted and asked, while the theorems hold for any
set of halves. In `TraceDecoder` seven events fill the slide of five and go beyond it, the
four targets need each length of address packet, and a second interrupt may strike where
the first returned. In `OutputDir` three cases suffice for an import that drops one,
renumbers one and keeps one, and two to be shuffled; sessions are not bounded. In
`FuzzOne` `ARITH_MAX` is 35 as in `config.h`, the entries hold the bytes at which
additions carry, words change sign and interesting values meet; the size parameters are
scaled with them (`EFF_MAP_SCALE2` 0, `EFF_MIN_LEN` 4, `MAX_FILE` 7, `HAVOC_STACK_POW2` 1,
`SPLICE_CYCLES` 2, trimming from a half to an eighth, down to 1 byte, tokens of
`MIN_AUTO_EXTRA` = `MAX_AUTO_EXTRA` = 3 bytes, 2 of them kept and 1 used, `MAX_DET_EXTRAS`
3 for a dictionary of 4), so that entries lie on both sides of each; `Odd` holds a
checksum that some case has as its own, so that a run that is not whole can pass for
another; `MaxFinds` bounds how often havoc is prolonged. In `Minimizer` cases of four
bytes have blocks of 2 and 1, repetitions of each, and a pass after a pass.

Deadlock is checked except in `fuzz_one`, `fuzz_one_tokens` and `minimizer`, whose
programs end; in the others no process stops but at the bounds, where it stutters. A fork
server that dies while its process holds `etm_mutex` is not in the runs of two processes
(the other process would wait for ever, which no document denies); for that case there is
the theorem `EtrIsExclusive`. Nor are two instances without `-X`, which share the hardware
without a lock: nothing could hold of them.

### Fairness
`Execution!Fairness`: a process that can take its next step takes it (one thread, no other
scheduling), an armed timer expires, the fork server answers. The target itself may run
for ever and `Begin` is not fair. Weak fairness lets a process that makes call after call
take `etm_mutex` before the other every time, and a pthread mutex promises no more; with
the finitely many calls of `execution_multicore`, `RunCompletes` asks only that a holder
lets go; without fork server no timer is armed, and
`RunCompletes` does not speak of those runs. `Queue!FairSpec`: the main loop is sequential
and never blocks, so weak fairness of `Next` is the fairness of a running process.
`FuzzOne`: weak fairness of `Stays`, the steps of a sequential function; abandoning an
entry is not fair. `Minimizer`: weak fairness of `Program`; the user need not stop it.
`Sync`: an instance goes on with its scan, and writes the file it has created; that it
begins another scan is not assumed.

### Refinement
`TraceDecoder` implements `BranchTrace` (`CountsTheBranches`): the flow is the event whose
packet is still in the buffer, and what was counted is the tracer's record. Without
interrupts, compression and synchronisation in the abstract specification, it says that
those do not show in the map. `trace_decoder` checks it, and `TraceDecoderProofs` proves
it for every value of the constants.

`Execution` implements `AtomicRun` for a process alone (`ImplementsAtomicRun`): what shows
of a call is where it begins, is decoded and reports. `execution_solo` checks it, and
`ExecutionProofs` proves it. Two processes do not implement it: `execution_shared_buffer`.

## 5. Proofs

The proofs hold for every value of the constants that satisfies the named assumptions, and
rest on nothing else. Where an assumption has a conjunct of pure arithmetic (a power of
two is positive, in `Minimizer` and `FuzzOne`), it is a fact the provers have no rule for;
TLC evaluates it in the runs.

`ExecutionProofs`: `TypeOK`; `EtrExclusive` under `Multicore`, by the invariant that the
process between `Lock` and `Unlock` is the holder and that `source` is nonzero only there;
`FullyTraced`, by relating the state of the server to the step of `run_target`;
`TimeoutVerdict`, by following the alarm of a run from the handler to the verdict;
`AlarmInOwnRun` while fork servers live, by the places at which a timer may be armed
(`TimerInv`, `IdleTimerInv`); `OwnTrace` for one process, for any number of calls and a
server that may die: `WindowInv` says when the source is on, `TraceInv` what buffer and
map hold at each step. For two processes `OwnTrace` is false (`execution_shared_buffer`).
`ImplementsAtomicRun` (theorem `RunIsAtomic`, again for one process): with these invariants
and `StopInv` each step is one of `AtomicRun` or does not show in it (`StepIsAtomic`);
`TimerInv` is what keeps an alarm from coming between the observation and the return.

`FrequencyProofs`: `FreqInRange`, `OverflowSlows`, `RetryBounded` and
`OverflowAcceptedNearFloor` for any range, interval and number of runs. The inductive
invariant `ControlInRange` adds the types of the counters; the lemmas on `Slower`,
`Faster`, `Mean` and `Interval` carry the arithmetic (`DivBounds` bounds the integer
divisions). The last of the four says what the code makes of its intent: a trace that
overflowed is kept if the frequency *after* the run is the minimum, so it was taken at the
minimum or one step (`Slower`) above.

`QueueProofs`: `RefsExact`, `TraceKept`, `WinnersStay`, `FavoredCover` and `PendingExact`
for any map, queue and cost. `RefsExact` is not inductive: the count must be known to be
positive before it is decremented (`WinnerCounted`), and that a trace is stored exactly
while the count is not zero (`MiniInv`) links the two; `RefInv` is their conjunction with
the types. `SlotMoves` says what one assignment to `top_rated[]` does to the number of
slots of each entry. `CoverInv` follows the bytes that culling has passed. `PendingInv`
needs both, and that one pass scores and culls no entry twice (`ScoredOnce`,
`CulledOnce`): a favorite whose trace no longer has the byte it won would otherwise be
counted again.

`HybridProofs`: `TypeOK`, `MapsNotMixed`, `CoverageOwned`, `ConfirmedOnce`, and with at
least two cycles `ScoredByAddressMap` and `CalibrationRestoresMode`, for any number of
entries, bits, cycles and chances. The inductive invariant `Inv` adds `Linked`: during a
calibration that will judge an atom run against a checksum, `first_trace` was written in
this call (`CalLinked`); a case set aside was found by an atom trace and runs in address
mode (`FoundLinked`); the dry run has not tried the entries ahead of it (`Untried`,
without which `cal_failed` could pass its bound). `FirstTraceWritten` is the lemma that no
trace of an earlier calibration is compared with, `VirginOK` that a cycle clears and shows
bits of its own mode, `ComparedSums` that checksums stay separate, `ReturnOK` what every
caller finds; then there is one lemma per group of actions. The action properties of
calibration follow from `CalModes`, which says in which mode each cycle runs, and from
where a success can come from (`SuccessIsTheEnd`, `EndIsSwitched`).

`OutputDirProofs`: `DiskIsMemory`, `CasesSurvive` and `MarksSurvive`, for any inputs and
finds and any history of sessions and kills. `DiskInv` says of each step of a start and of
an import which part of the queue is on disk (`Files`, `Det`) and which still in
`_resume`; `SavedInv` that what was written is in one of the two; `SurvivalInv` collects
the phases. That an import numbers the cases without gaps rests on ranking the old ids
(`Ranked`, `IdsEnumerate`). `SeekSameCase` needs of a session that resumes that the old
statistics still name an entry of the queue being imported, which `SeekInv` follows from
the last write of the statistics through kills and starts.

`FuzzOneProofs`: `TrimKeepsTrace` (`TrimInv`; the stages after trimming touch neither
entry nor file; `misled` is the one way in which the entry's trace can differ) and
`EffMapExact`: `EffInv` bounds the blocks marked so far from both sides (`MapSoFar`,
`MustMark`, `MayMark`), `EffectSeen` says that a comparison decides whether a byte has an
effect if its run was whole and the stored checksum is the case's in the same mode
(`Told`), and of other bytes nothing is claimed; `ExactMap` that the stage ends at what
the property asks, `BlocksOfBytes` that the last block is that of the last byte.
`BufferRestored` and `CasesFit`, for any entries, tokens and lengths: `BufInv` says that
between two runs `out_buf` differs from the case only where a token lies over it, that
this token is within the case and no longer than those to come (so the next one covers it;
`TokensKept` says it of the tokens found, whose best are sorted by length after each
`maybe_add_auto`), and that every buffer tried fits; `LengthInv` keeps the length trimmed
to. The assumptions it adds are those of the code: entries, tokens and splicing partners
are strings of bytes, neither empty nor longer than `MAX_FILE`, `load_extras` sorts the
tokens by length, and the block lengths of havoc are positive and do not shrink.

`NothingUntried` is proved in two parts. `VariantsCovered` is about the buffer alone, of
any length and contents: each flip, sum or interesting value is one that some stage tries
(`Reached`), or `Straddles`. It follows what each of the three short cuts recognises.
`FlipCovers`: the bits in which two words differ are those that one walking flip visits,
unless they cross two bytes (`Crossing`, `WithinAByte`, `WholeBytes`, from bits numbered
within bytes to `FLIP_BIT`'s numbering of the buffer). `NoCarry`, `AddToHalf` and
`WiderSums`: a sum that the 16- or 32-bit stage leaves out because it does not carry out of
the lower half is one of the stage of that half, in either byte order (`CarryOver` is what
each byte passes on, `Filled` the sum that a missing carry would have made). `NearCovers`
and `InterestCovers`: a value that looks like a sum or an earlier value differs in one
part, which a narrower stage has put there (`PutPart`, `PutInWord`). `TriedInv` then says
of the run how far each stage has come: with every block marked and arithmetic enabled, the
stages that are over have been everywhere and the one at work at all positions before `i`
(`StagesTried`), after all the bits (`BitsTried`) and bytes (`BytesTried`).
`ShortCutsAreSound` puts the two together.

`MinimizerProofs`: `KeepsBehaviour` (`BehaviourInv`: what is learnt of the original is
what each later try is compared with) and `OneMinimal`: `PassInv` says that a pass which
has deleted nothing has tried each byte up to its position, where a block that was skipped
equals the one before it, whose deletion gives the same case.

`TraceDecoderProofs`: `CountsTheBranches`, `FrozenByOverflow` and `Consumes`, for any
program, text and targets, any atom packet, any other packets and any rubbish before the
first, in either mode, assuming `MaxInterrupts` at most 2: with 3 they are false (section
3, and the hazard at `tracer.c` 403). The inductive invariant `DecoderInv` says that the
buffer holds nothing, the rest of the synchronisation, or one packet (`Packet`): what the
decoder makes of it has its whole length, counts its event as `BranchTrace` does, and
leaves the decoder in step with the trace unit (`Follows`: the same address registers, an
exception in the text remembered with its address). Where the property itself speaks only
of counters, `Follows` is what makes it inductive: an address sent short is understood
only with the registers in step, and a return is told from a branch only by `IRQ_addr`.
The lemmas say what the tables of atom packets stand for (`LongAtoms`, `ShortAtoms`), that
an address of each form is decoded as itself (`EncodingDecoded`, with the digits of
`LoDigits` and `Digits`), how many bytes each packet takes, and that nothing the decoder
computes depends on a variable but the mode (`PacketKept`); then there is one lemma per
packet sent (`AtomsSent` to `OverflowSent`) and one per step of the decoder.

Model-checked only: the liveness properties `RunCompletes`, `FavoriteFuzzed`, `Returns`
and `Ends` (liveness under fairness is outside the prover's reach). Each safety invariant
and each safety action property of the passing runs is a theorem.

## 6. What the violations say

Each violation run checks one statement of the repository against what the code does;
`PROJECT.json` "findings" quotes the statement.

- `execution_shared_buffer`: `run_target` unlocks `etm_mutex` (2995) before `etmv4_decode`
  reads the ETR buffer (3015): with two processes the map may be of the other's run.
- `sync_import`: `if (retry_to_fuzz)` (7831) tests an address where the other callers call
  the function: the first imported case is run for ever.
- `fuzz_one_tokens`: the automatic dictionary (6267-6274) compares the trace of the last
  run, mostly one of atoms, with the checksum of an address trace: bytes without effect
  become tokens.

Two exceptions are written into properties because the code makes them and no document
denies them. `NothingUntried` excepts `Straddles`: `could_be_bitflip` takes a changed
pattern that lies across the boundaries of the flips for one of them, and speaks of the
time before the dictionaries, which overwrite the case in another way. `CasesSurvive` and
`MarksSurvive` except the states `debris` names (see `OutputDir`).

## 7. Not modelled

- The half of `save_if_interesting` for crashes and hangs, the directories `crashes` and
  `hangs` with their backup (4779), and `plot_data`.
- Checks of the host, CPU binding and `restore_cpu_frequency`: they write to sysfs and
  nothing in the program reads it back.
- Timing, statistics and their screen, except the fields of `fuzzer_stats` that a
  resumption reads.
- Dumb mode, `crash_mode`, and the one-mode variants (`-E 1`, `-E 2`) of calibration.
- Of `Sync`, what happens after an import that ends: the code never gets there.
- In the decoder: addresses of the instruction set IS1 (AArch64 has none) and the Q
  packets, time stamps of eight bytes and more, the `u_bit` of cycle counts of format 1,
  the headers 0x2d-0x2f that an earlier entry of the table shadows, the cancel packet of
  format 3 (unreachable there), the one-payload read of a conditional result, the shift of
  the exception's TYPE (not used), and the atoms that mispredict and cancel packets add
  (the modelled trace unit sends those packets only where they add none). Of
  `set_etm_mode` only context id and branch broadcast appear. Hashes and addresses are
  taken modulo 2^17, of which an index keeps all that matters.
- Calls whose outcome does not come back to the modelled state: logging, formatting, file
  names and memory allocation.
- Seen in the models and left without a run of their own:
  - without fork server `tb4` is set to `EXEC_FAIL_SIG` in the child (2881), and the parent
    compares its own, which has no value (3143): a failed `execv` may pass for a run, or a
    run for a failed `execv` (`Faults` of `Execution`);
  - a run that timed out is not decoded, so `overflow_nums` is that of an earlier run, and
    the frequency is lowered for it again (3063-3068; `Run` of `Frequency`);
  - `atom_cksum` may be the checksum of an address trace (6148-6152; `UpdateChecksum` of
    `Hybrid` and `FuzzOne`);
  - `non_overflow_nums` is compared for equality with an interval that moves (3077; in
    `Frequency`, where the controller then speeds up later);
  - `find_timeout` takes its value from old statistics (4339);
  - without fork server no timer bounds a run (2894; in `Execution`, where `RunCompletes`
    excepts it).
- `temp.c` and `simple.c`, 17.5 of the repository's 38 thousand lines of this program, are
  copies of `afl-fuzz.c` that no build rule names; of the code that is built, what the
  models stand for is listed definition by definition in `PROJECT.json` "map".
