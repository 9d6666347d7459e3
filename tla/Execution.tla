------------------------------ MODULE Execution ------------------------------
(***************************************************************************)
(* One execution of the target: run_target() of afl-fuzz.c, the fork       *)
(* server it talks to over two pipes, the SIGALRM handler, the process-    *)
(* shared etm_mutex of -X, and the trace hardware: one ETM per core (the   *)
(* source) and the one ETR buffer (the sink) that every core writes to and *)
(* that afl-fuzz maps with mmap(/dev/mem).                                 *)
(*                                                                         *)
(* Every call site of run_target() is "some later call": the model starts  *)
(* calls freely.  A child is named by the number of the call that made it. *)
(* The fork server is the one of the patched dynamic linker (not under     *)
(* src/): it forks on the first word, writes the pid, lets the child run   *)
(* on the second word and writes the wait status.                          *)
(***************************************************************************)
EXTENDS Integers

CONSTANTS Fuzzer,       \* the afl-fuzz processes that trace on this board
          NoFuzzer,     \* the value of a mutex that nobody holds
          MaxRun,       \* bound: run_target() calls per process
          Multicore,    \* multicore_mode (-X): take etm_mutex
          uses_asan,    \* is the target built with a sanitizer?
          Analysis,     \* does cpu_frequency_analysis() come first? if not, the fork
                        \* server is up already
          ServerMayDie  \* may the fork server vanish, or fail to fork (OOM)?

ASSUME ExecutionAssumption ==
  /\ NoFuzzer \notin Fuzzer
  /\ MaxRun \in Nat
  /\ {Multicore, uses_asan, Analysis, ServerMayDie} \subseteq BOOLEAN

VARIABLES
  pc,             \* the next step of run_target()
  run,            \* number of run_target() calls so far (total_execs)
  no_forkserver,  \* are children forked by run_target() itself?
  child_pid,      \* -1 at first; 0, or the call whose child it names
  child_timed_out,
  skip_tracing,
  stop_soon,
  alarm,          \* is the interval timer armed?
  status,         \* the wait status run_target() read
  fault,          \* what the last completed call returned
  trace_bits,     \* the children whose branches trace_bits[] counts
  counted,        \* the call that overflow_nums etc. describe
  server,         \* the fork server and its child
  etm_mutex,      \* the process that holds etm_mutex
  source,         \* 0: this core's ETM is off; else the traced child
  etr,            \* the children whose packets the ETR buffer holds
  alarmed         \* history: the last call whose SIGALRM found a child_pid

call == <<run, stop_soon, no_forkserver>>
flags == <<child_timed_out, skip_tracing, alarmed>>
results == <<fault, trace_bits, counted>>
etm == <<source, etr>>
fuzzerVars == <<pc, call, child_pid, flags, alarm, status, results>>
vars == <<fuzzerVars, server, etm_mutex, etm>>

PC == {"idle", "hello", "ask", "getpid", "lock", "start", "notify", "arm", "wait",
       "clear", "disarm", "stop", "unlock", "decode", "report", "exited"}

\* How a child can end: exit(), exit() with the code of MSAN (if uses_asan), its own
\* fatal signal, a SIGKILL, or exit(0) after execv() has failed.
Ending == {"exit", "msan", "signal", "sigkill", "noexec"}

Server == {"idle", "starting", "asked", "held", "released", "running", "dead"} \union Ending

Run0 == 0..MaxRun
Child == Fuzzer \X Run0

Init ==
  /\ pc = [f \in Fuzzer |-> "idle"]
  /\ run = [f \in Fuzzer |-> 0]
  /\ no_forkserver = [f \in Fuzzer |-> Analysis]
  /\ child_pid = [f \in Fuzzer |-> IF Analysis THEN -1 ELSE 0]
  /\ child_timed_out = [f \in Fuzzer |-> FALSE]
  /\ skip_tracing = [f \in Fuzzer |-> FALSE]
  /\ stop_soon = [f \in Fuzzer |-> FALSE]
  /\ alarm = [f \in Fuzzer |-> FALSE]
  /\ status = [f \in Fuzzer |-> "exit"]
  /\ fault = [f \in Fuzzer |-> "none"]
  /\ trace_bits = [f \in Fuzzer |-> {}]
  /\ counted = [f \in Fuzzer |-> 0]
  /\ server = [f \in Fuzzer |-> "idle"]
  /\ etm_mutex = NoFuzzer
  /\ source = [f \in Fuzzer |-> 0]
  /\ etr = {}
  /\ alarmed = [f \in Fuzzer |-> 0]

-----------------------------------------------------------------------------
Goto(f, from, to) == pc[f] = from /\ pc' = [pc EXCEPT ![f] = to]

(* init_forkserver(), after the runs that cpu_frequency_analysis() makes.   *)

\* The server is forked, and the timer is armed while its hello is waited for.
StartServer(f) ==
  /\ no_forkserver[f] /\ run[f] > 0
  /\ Goto(f, "idle", "hello")
  /\ no_forkserver' = [no_forkserver EXCEPT ![f] = FALSE]
  /\ alarm' = [alarm EXCEPT ![f] = TRUE]
  /\ server' = [server EXCEPT ![f] = "starting"]
  /\ UNCHANGED <<run, stop_soon, flags, results, etm, child_pid, status, etm_mutex>>

\* The hello has come, or the server is gone and FATAL() exits.
Hello(f) ==
  /\ server[f] \in {"idle", "dead"}
  /\ Goto(f, "hello", IF server[f] = "idle" THEN "idle" ELSE "exited")
  /\ alarm' = [alarm EXCEPT ![f] = FALSE]
  /\ UNCHANGED <<call, flags, results, etm, child_pid, status, server, etm_mutex>>

-----------------------------------------------------------------------------
(* The steps of run_target(), in program order.                            *)

\* (Mutant) the flags of the previous call survive.
BeginKeepsFlags(f) ==
  /\ run[f] < MaxRun
  /\ Goto(f, "idle", "ask")
  /\ run' = [run EXCEPT ![f] = @ + 1]
  /\ trace_bits' = [trace_bits EXCEPT ![f] = {}]
  /\ UNCHANGED <<flags, etm, no_forkserver, child_pid, stop_soon, alarm, status, fault,
                 counted, server, etm_mutex>>

\* (Mutant) trace_bits[] is not zeroed.
BeginKeepsMap(f) ==
  /\ run[f] < MaxRun
  /\ Goto(f, "idle", "ask")
  /\ run' = [run EXCEPT ![f] = @ + 1]
  /\ child_timed_out' = [child_timed_out EXCEPT ![f] = FALSE]
  /\ skip_tracing' = [skip_tracing EXCEPT ![f] = FALSE]
  /\ UNCHANGED <<trace_bits, etm, no_forkserver, child_pid, stop_soon, alarm, status, fault, counted,
                 server, etm_mutex, alarmed>>

\* Entry: the flags SIGALRM sets are cleared and trace_bits[] is zeroed.
Begin(f) ==
  /\ run[f] < MaxRun
  /\ Goto(f, "idle", "ask")
  /\ run' = [run EXCEPT ![f] = @ + 1]
  /\ child_timed_out' = [child_timed_out EXCEPT ![f] = FALSE]
  /\ skip_tracing' = [skip_tracing EXCEPT ![f] = FALSE]
  /\ trace_bits' = [trace_bits EXCEPT ![f] = {}]
  /\ UNCHANGED <<etm, no_forkserver, child_pid, stop_soon, alarm, status, fault, counted,
                 server, etm_mutex, alarmed>>

\* write(fsrv_ctl_fd, &prev_timed_out, 4); the server may not care for the word's
\* value, which is left out.
Ask(f) ==
  /\ ~no_forkserver[f]
  /\ Goto(f, "ask", "getpid")
  /\ server[f] = "idle"
  /\ server' = [server EXCEPT ![f] = "asked"]
  /\ UNCHANGED <<call, flags, results, etm, child_pid, alarm, status,
                 etm_mutex>>

\* read(fsrv_st_fd, &child_pid, 4)
GetPid(f) ==
  /\ Goto(f, "getpid", "lock")
  /\ server[f] = "held"
  /\ child_pid' = [child_pid EXCEPT ![f] = run[f]]
  /\ UNCHANGED <<call, flags, results, etm, alarm, status, server, etm_mutex>>

\* if (child_pid <= 0) FATAL("Fork server is misbehaving (OOM?)")
NoChild(f) ==
  /\ ServerMayDie
  /\ Goto(f, "getpid", "exited")
  /\ server[f] = "asked"
  /\ server' = [server EXCEPT ![f] = "dead"]
  /\ child_pid' = [child_pid EXCEPT ![f] = -1]
  /\ UNCHANGED <<call, flags, results, etm, alarm, status, etm_mutex>>

\* Without a fork server the child is forked here and waits on a pipe.
Fork(f) ==
  /\ no_forkserver[f]
  /\ Goto(f, "ask", "lock")
  /\ server' = [server EXCEPT ![f] = "held"]
  /\ child_pid' = [child_pid EXCEPT ![f] = run[f]]
  /\ UNCHANGED <<call, flags, results, etm, alarm, status, etm_mutex>>

\* (Mutant) -X does not take the mutex.
LockNot(f) ==
  /\ Goto(f, "lock", "start")
  /\ UNCHANGED <<call, flags, results, etm, child_pid, alarm, status, server,
                 etm_mutex>>

\* if (multicore_mode) pthread_mutex_lock(&etm_mutex->mutex)
Lock(f) ==
  /\ Goto(f, "lock", "start")
  /\ IF Multicore THEN etm_mutex = NoFuzzer /\ etm_mutex' = f
                  ELSE UNCHANGED etm_mutex
  /\ UNCHANGED <<call, flags, results, etm, child_pid, alarm, status, server>>

\* (Mutant) the context-ID filter still holds the previous child's pid.
StartEtmStalePid(f) ==
  /\ Goto(f, "start", "notify")
  /\ source' = [source EXCEPT ![f] = run[f] - 1]
  /\ etr' = IF \A g \in Fuzzer : source[g] = 0 THEN {} ELSE etr
  /\ UNCHANGED <<call, flags, results, child_pid, alarm, status, server,
                 etm_mutex>>

\* start_etm(child_pid): the pid goes into the context-ID filter, then the
\* source is enabled.  The first source to be enabled empties the sink.
StartEtm(f) ==
  /\ Goto(f, "start", "notify")
  /\ source' = [source EXCEPT ![f] = child_pid[f]]
  /\ etr' = IF \A g \in Fuzzer : source[g] = 0 THEN {} ELSE etr
  /\ UNCHANGED <<call, flags, results, child_pid, alarm, status, server,
                 etm_mutex>>

\* write(fsrv_ctl_fd, &notify_running, 4), or write(pipe_fd[1], "s")
Notify(f) ==
  /\ Goto(f, "notify", IF no_forkserver[f] THEN "wait" ELSE "arm")
  /\ server[f] = "held"
  /\ server' = [server EXCEPT ![f] = "released"]
  /\ UNCHANGED <<call, flags, results, etm, child_pid, alarm, status,
                 etm_mutex>>

\* (Mutant) the timer is never started.
ArmNot(f) ==
  /\ Goto(f, "arm", "wait")
  /\ UNCHANGED <<call, flags, results, etm, child_pid, alarm, status, server,
                 etm_mutex>>

\* setitimer(ITIMER_REAL, timeout); only the fork server path has one.
Arm(f) ==
  /\ Goto(f, "arm", "wait")
  /\ alarm' = [alarm EXCEPT ![f] = TRUE]
  /\ UNCHANGED <<call, flags, results, etm, child_pid, status, server,
                 etm_mutex>>

\* read(fsrv_st_fd, &status, 4), or waitpid(child_pid, &status, 0).
\* SA_RESTART: SIGALRM does not interrupt either of them.
GetStatus(f) ==
  /\ Goto(f, "wait", IF no_forkserver[f] THEN "stop" ELSE "clear")
  /\ server[f] \in Ending
  /\ status' = [status EXCEPT ![f] = server[f]]
  /\ server' = [server EXCEPT ![f] = "idle"]
  /\ UNCHANGED <<call, flags, results, etm, child_pid, alarm, etm_mutex>>

\* if (!WIFSTOPPED(status)) child_pid = 0; the linker's server waits for the end of
\* its child, so a status that says "stopped" does not come.
ClearPid(f) ==
  /\ Goto(f, "clear", "disarm")
  /\ child_pid' = [child_pid EXCEPT ![f] = 0]
  /\ UNCHANGED <<call, flags, results, etm, alarm, status, server, etm_mutex>>

\* (Mutant) the timer keeps running when the call returns.
DisarmNot(f) ==
  /\ Goto(f, "disarm", "stop")
  /\ UNCHANGED <<call, flags, results, etm, child_pid, alarm, status, server,
                 etm_mutex>>

\* setitimer(ITIMER_REAL, 0)
Disarm(f) ==
  /\ Goto(f, "disarm", "stop")
  /\ alarm' = [alarm EXCEPT ![f] = FALSE]
  /\ UNCHANGED <<call, flags, results, etm, child_pid, status, server,
                 etm_mutex>>

\* stop_etm(): the source is disabled and the size of the trace is read.
StopEtm(f) ==
  /\ Goto(f, "stop", "unlock")
  /\ source' = [source EXCEPT ![f] = 0]
  /\ UNCHANGED <<call, flags, results, child_pid, alarm, status, server,
                 etm_mutex, etr>>

\* (Mutant) the mutex is not released.
UnlockNot(f) ==
  /\ Goto(f, "unlock", "decode")
  /\ UNCHANGED <<call, flags, results, etm, child_pid, alarm, status, server,
                 etm_mutex>>

\* if (multicore_mode) pthread_mutex_unlock(&etm_mutex->mutex)
Unlock(f) ==
  /\ Goto(f, "unlock", "decode")
  /\ IF Multicore THEN etm_mutex' = NoFuzzer ELSE UNCHANGED etm_mutex
  /\ UNCHANGED <<call, flags, results, etm, child_pid, alarm, status, server>>

\* (Mutant) a run that timed out is decoded like any other.
DecodeAlways(f) ==
  /\ Goto(f, "decode", "report")
  /\ trace_bits' = [trace_bits EXCEPT ![f] = etr]
  /\ counted' = [counted EXCEPT ![f] = run[f]]
  /\ UNCHANGED <<call, flags, etm, child_pid, alarm, status, fault, server,
                 etm_mutex>>

\* if (!skip_tracing) { reset the counters; etmv4_decode(trace_bits,
\* trace_result, trace_size) }, reading the ETR buffer in place.
Decode(f) ==
  /\ Goto(f, "decode", "report")
  /\ IF skip_tracing[f]
     THEN UNCHANGED <<trace_bits, counted>>
     ELSE /\ trace_bits' = [trace_bits EXCEPT ![f] = etr]
          /\ counted' = [counted EXCEPT ![f] = run[f]]
  /\ UNCHANGED <<call, flags, etm, child_pid, alarm, status, fault, server,
                 etm_mutex>>

\* What run_target() makes of a wait status.  tb4 is assigned in the child alone, so
\* without a fork server the parent compares an uninitialised word with EXEC_FAIL_SIG.
Faults(f) ==
  IF status[f] \in {"signal", "sigkill"} /\ ~stop_soon[f]
  THEN IF child_timed_out[f] /\ status[f] = "sigkill" THEN {"tmout"} ELSE {"crash"}
  ELSE IF status[f] = "msan" THEN {"crash"}
  ELSE IF no_forkserver[f] THEN {"none", "error"} ELSE {"none"}

\* The end of run_target(): the returned fault; its local status is gone.
Report(f) ==
  /\ Goto(f, "report", "idle")
  /\ \E outcome \in Faults(f) : fault' = [fault EXCEPT ![f] = outcome]
  /\ status' = [status EXCEPT ![f] = "exit"]
  /\ UNCHANGED <<call, flags, etm, child_pid, alarm, trace_bits, counted, server,
                 etm_mutex>>

\* A pipe operation fails: "if (stop_soon) return 0", else RPFATAL() exits.
\* Neither path releases etm_mutex, stops the ETM or disarms the timer.
PipeFails(f) ==
  /\ ~no_forkserver[f]
  /\ server[f] = "dead"
  /\ pc[f] \in {"ask", "getpid", "notify", "wait"}
  /\ IF stop_soon[f]
     THEN /\ pc' = [pc EXCEPT ![f] = "idle"]
          /\ fault' = [fault EXCEPT ![f] = "none"]
     ELSE /\ pc' = [pc EXCEPT ![f] = "exited"]
          /\ UNCHANGED fault
  /\ UNCHANGED <<call, flags, etm, child_pid, alarm, status, trace_bits,
                 counted, server, etm_mutex>>

\* show_stats(), between runs: the time limit of -l ends the program.
TimeLimit(f) ==
  /\ ~no_forkserver[f]
  /\ Goto(f, "idle", "exited")
  /\ UNCHANGED <<call, flags, results, etm, child_pid, alarm, status, server, etm_mutex>>

\* show_stats(): AFL_EXIT_WHEN_DONE or AFL_BENCH_UNTIL_CRASH set stop_soon = 2.
StopWhenDone(f) ==
  /\ pc[f] = "idle" /\ ~stop_soon[f] /\ ~no_forkserver[f]
  /\ stop_soon' = [stop_soon EXCEPT ![f] = TRUE]
  /\ UNCHANGED <<flags, results, etm, pc, run, no_forkserver, child_pid, alarm, status,
                 server, etm_mutex>>

-----------------------------------------------------------------------------
(* The world around run_target().                                          *)

\* handle_timeout(), wherever SIGALRM finds the process.  kill() reaches the
\* child only while it lives; a status already written stays as it is.
Timeout(f) ==
  /\ alarm[f]
  /\ alarm' = [alarm EXCEPT ![f] = FALSE]
  /\ IF child_pid[f] > 0
     THEN /\ child_timed_out' = [child_timed_out EXCEPT ![f] = TRUE]
          /\ skip_tracing' = [skip_tracing EXCEPT ![f] = TRUE]
          /\ server' = [server EXCEPT ![f] =
                          IF @ \in {"released", "running"} THEN "sigkill" ELSE @]
          /\ alarmed' = [alarmed EXCEPT ![f] = run[f]]
     ELSE IF child_pid[f] = -1 /\ server[f] = "starting"
     THEN /\ child_timed_out' = [child_timed_out EXCEPT ![f] = TRUE]
          /\ server' = [server EXCEPT ![f] = "dead"]
          /\ alarmed' = [alarmed EXCEPT ![f] = run[f]]
          /\ UNCHANGED skip_tracing
     ELSE UNCHANGED <<child_timed_out, skip_tracing, server, alarmed>>
  /\ UNCHANGED <<call, results, etm, pc, child_pid, status, etm_mutex>>

\* The hello of a server that has started, which nothing makes it send.
ServerSaysHello(f) ==
  /\ server[f] = "starting"
  /\ server' = [server EXCEPT ![f] = "idle"]
  /\ UNCHANGED <<fuzzerVars, etm_mutex, etm>>

ServerForks(f) ==
  /\ server[f] = "asked"
  /\ server' = [server EXCEPT ![f] = "held"]
  /\ UNCHANGED <<fuzzerVars, etm_mutex, etm>>

\* The child leaves the pipe read and executes; a core whose ETM filters on
\* this child's pid writes packets to the ETR.
ChildRuns(f) ==
  /\ server[f] = "released"
  /\ server' = [server EXCEPT ![f] = "running"]
  /\ etr' = IF source[f] = run[f] THEN etr \union {<<f, run[f]>>} ELSE etr
  /\ UNCHANGED <<fuzzerVars, etm_mutex, source>>

ChildEnds(f) ==
  /\ server[f] = "running"
  /\ \E e \in Ending :
       /\ e = "noexec" => no_forkserver[f]
       /\ e = "msan" => uses_asan
       /\ server' = [server EXCEPT ![f] = e]
  /\ UNCHANGED <<fuzzerVars, etm_mutex, etm>>

ServerDies(f) ==
  /\ ServerMayDie
  /\ ~no_forkserver[f]
  /\ server' = [server EXCEPT ![f] = "dead"]
  /\ UNCHANGED <<fuzzerVars, etm_mutex, etm>>

-----------------------------------------------------------------------------
RunTarget(f) ==
  \/ Hello(f) \/ Ask(f) \/ GetPid(f) \/ NoChild(f) \/ Fork(f) \/ Lock(f) \/ StartEtm(f)
  \/ Notify(f) \/ Arm(f) \/ GetStatus(f) \/ ClearPid(f) \/ Disarm(f) \/ StopEtm(f)
  \/ Unlock(f) \/ Decode(f) \/ Report(f) \/ PipeFails(f)

Target(f) ==
  ServerSaysHello(f) \/ ServerForks(f) \/ ChildRuns(f) \/ ChildEnds(f) \/ ServerDies(f)

\* Every process has used up its runs (or exited): the bound, not a deadlock.
Done ==
  /\ \A f \in Fuzzer : pc[f] = "exited" \/ (pc[f] = "idle" /\ run[f] = MaxRun)
  /\ UNCHANGED vars

Next ==
  \/ Done
  \/ \E f \in Fuzzer :
       \/ Begin(f) \/ StartServer(f) \/ RunTarget(f) \/ Timeout(f) \/ Target(f)
       \/ TimeLimit(f) \/ StopWhenDone(f)

Spec == Init /\ [][Next]_vars

\* A run_target() that can take a step takes it, an armed timer expires, the
\* fork server answers.  Nothing makes the target end or the next call begin.
Fairness ==
  \A f \in Fuzzer :
    /\ WF_vars(RunTarget(f))
    /\ WF_vars(Timeout(f))
    /\ WF_vars(ServerForks(f) \/ ChildRuns(f))

FairSpec == Spec /\ Fairness

-----------------------------------------------------------------------------
TypeOK ==
  /\ pc \in [Fuzzer -> PC]
  /\ run \in [Fuzzer -> Run0]
  /\ no_forkserver \in [Fuzzer -> BOOLEAN]
  /\ child_pid \in [Fuzzer -> {-1} \union Run0]
  /\ child_timed_out \in [Fuzzer -> BOOLEAN]
  /\ skip_tracing \in [Fuzzer -> BOOLEAN]
  /\ stop_soon \in [Fuzzer -> BOOLEAN]
  /\ alarm \in [Fuzzer -> BOOLEAN]
  /\ status \in [Fuzzer -> Ending]
  /\ fault \in [Fuzzer -> {"none", "tmout", "crash", "error"}]
  /\ trace_bits \in [Fuzzer -> SUBSET Child]
  /\ counted \in [Fuzzer -> Run0]
  /\ server \in [Fuzzer -> Server]
  /\ etm_mutex \in Fuzzer \union {NoFuzzer}
  /\ source \in [Fuzzer -> Run0]
  /\ etr \in SUBSET Child
  /\ alarmed \in [Fuzzer -> Run0]

\* The capture window of run_target() (start_etm ... stop_etm) belongs to one
\* process at a time: no two cores trace into the one ETR buffer.
EtrExclusive ==
  \A f, g \in Fuzzer : source[f] # 0 /\ source[g] # 0 => f = g

\* A child executes only while its own core's ETM is on and filters on its
\* pid: the two-word handshake holds it back until start_etm() has returned
\* and stop_etm() comes after its status, so no branch escapes the trace.
FullyTraced ==
  \A f \in Fuzzer : server[f] = "running" => source[f] = run[f]

\* FAULT_TMOUT is returned for a run whose own timer fired, and a child the
\* alarm killed is never reported as a crash: neither a flag left by an earlier
\* run nor an alarm that comes late changes the verdict.
TimeoutVerdict ==
  \A f \in Fuzzer : pc[f] = "report" /\ ~stop_soon[f] =>
    /\ "tmout" \in Faults(f) => alarmed[f] = run[f] /\ status[f] = "sigkill"
    /\ alarmed[f] = run[f] /\ status[f] = "sigkill" => Faults(f) = {"tmout"}

\* When run_target() evaluates a run, trace_bits[] counts that run's branches and
\* nothing of another run or process, and the counters the frequency controller
\* reads are that run's.  A run whose timer fired has an empty trace_bits[].
OwnTrace ==
  \A f \in Fuzzer : pc[f] = "report" =>
    IF alarmed[f] = run[f] THEN trace_bits[f] = {}
    ELSE trace_bits[f] = {<<f, run[f]>>} /\ counted[f] = run[f]

\* To its callers a run_target() is one run: it begins, is observed and is returned.
Phase(step) ==
  CASE step \in {"idle", "hello"} -> "idle"
    [] step = "report" -> "observed"
    [] step = "exited" -> "exited"
    [] OTHER -> "running"

Atomic == INSTANCE AtomicRun WITH phase <- [f \in Fuzzer |-> Phase(pc[f])]

\* One process alone: whatever order its steps, the fork server's, the alarm's and the
\* target's come in, callers see a run that is observed in one step, with its own map and
\* counters if its timer did not fire and none if it did, and only then a timeout.
ImplementsAtomicRun == Atomic!Spec

\* No SIGALRM outlives its run: at the next call the timer is disarmed, so a
\* late alarm of one run cannot kill the child of the next.
AlarmInOwnRun ==
  [][\A f \in Fuzzer : run'[f] # run[f] => ~alarm[f]]_vars

\* Every call with the fork server returns (or the process exits), however long
\* the target runs: "monitoring for timeouts".  Without one there is no timer.
RunCompletes ==
  \A f \in Fuzzer :
    (pc[f] = "ask" /\ ~no_forkserver[f]) ~> pc[f] \in {"idle", "exited"}
=============================================================================
