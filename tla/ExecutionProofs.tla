-------------------------- MODULE ExecutionProofs --------------------------
(***************************************************************************)
(* What run_target() guarantees for any number of processes and runs:      *)
(* typing; the capture window is exclusive under -X; a child only executes *)
(* while its ETM traces it; the timeout verdict belongs to its own run;    *)
(* no alarm outlives its run while fork servers live; and, for one process *)
(* alone, each map and counter is of the run it is returned with, and a    *)
(* call implements the run in one step that its callers take it for.       *)
(***************************************************************************)
EXTENDS Execution, TLAPS

Step(f) ==
  \/ Begin(f) \/ StartServer(f) \/ RunTarget(f) \/ Timeout(f) \/ Target(f)
  \/ TimeLimit(f) \/ StopWhenDone(f)

\* Whose pid goes into the filter is known when start_etm() is called.
PidInv == \A f \in Fuzzer : pc[f] \in {"lock", "start"} => child_pid[f] \in Run0
TypeInv == TypeOK /\ PidInv

\* Every variable keeps its type (the state of run_target() of every process).
THEOREM TypeCorrect == Spec => []TypeOK
<1> USE ExecutionAssumption DEF TypeInv, PidInv, TypeOK, PC, Ending, Server, Run0, Child
<1>1. Init => TypeInv
  BY DEF Init
<1>2. TypeInv /\ [Next]_vars => TypeInv'
  <2> SUFFICES ASSUME TypeInv, [Next]_vars PROVE TypeInv'
    OBVIOUS
  <2>1. CASE UNCHANGED vars
    BY <2>1 DEF vars, fuzzerVars, call, flags, results, etm
  <2>2. CASE Done
    BY <2>2 DEF Done, vars, fuzzerVars, call, flags, results, etm
  <2>3. ASSUME NEW f \in Fuzzer, Step(f) PROVE TypeInv'
    <3> USE DEF Goto, call, flags, results, etm, fuzzerVars
    <3>1. CASE Begin(f)
      BY <3>1 DEF Begin
    <3>2. CASE Ask(f)
      BY <3>2 DEF Ask
    <3>3. CASE GetPid(f)
      BY <3>3 DEF GetPid
    <3>4. CASE Fork(f)
      BY <3>4 DEF Fork
    <3>5. CASE Lock(f)
      BY <3>5 DEF Lock
    <3>6. CASE StartEtm(f)
      BY <3>6 DEF StartEtm
    <3>7. CASE Notify(f)
      BY <3>7 DEF Notify
    <3>8. CASE Arm(f)
      BY <3>8 DEF Arm
    <3>9. CASE GetStatus(f)
      BY <3>9 DEF GetStatus
    <3>10. CASE ClearPid(f)
      BY <3>10 DEF ClearPid
    <3>11. CASE Disarm(f)
      BY <3>11 DEF Disarm
    <3>12. CASE StopEtm(f)
      BY <3>12 DEF StopEtm
    <3>13. CASE Unlock(f)
      BY <3>13 DEF Unlock
    <3>14. CASE Decode(f)
      BY <3>14 DEF Decode
    <3>15. CASE Report(f)
      BY <3>15 DEF Report, Faults
    <3>16. CASE PipeFails(f)
      BY <3>16 DEF PipeFails
    <3>17. CASE Timeout(f)
      <4>1. server' \in [Fuzzer -> Server]
        BY <3>17 DEF Timeout
      <4>2. /\ child_timed_out' \in [Fuzzer -> BOOLEAN]
            /\ skip_tracing' \in [Fuzzer -> BOOLEAN]
        BY <3>17, Zenon DEF Timeout
      <4>3. alarm' \in [Fuzzer -> BOOLEAN] /\ alarmed' \in [Fuzzer -> Run0]
        BY <3>17 DEF Timeout
      <4> QED
        BY <3>17, <4>1, <4>2, <4>3 DEF Timeout
    <3>18. CASE ServerForks(f)
      BY <3>18 DEF ServerForks
    <3>19. CASE ChildRuns(f)
      BY <3>19 DEF ChildRuns
    <3>20. CASE ChildEnds(f)
      BY <3>20 DEF ChildEnds
    <3>21. CASE ServerDies(f)
      BY <3>21 DEF ServerDies
    <3>22. CASE TimeLimit(f)
      BY <3>22 DEF TimeLimit
    <3>23. CASE StartServer(f)
      BY <3>23 DEF StartServer
    <3>24. CASE Hello(f)
      BY <3>24 DEF Hello
    <3>25. CASE ServerSaysHello(f)
      BY <3>25 DEF ServerSaysHello
    <3>26. CASE NoChild(f)
      BY <3>26 DEF NoChild
    <3>27. CASE StopWhenDone(f)
      BY <3>27 DEF StopWhenDone
    <3> QED
      BY <2>3, <3>1, <3>2, <3>3, <3>4, <3>5, <3>6, <3>7, <3>8, <3>9, <3>10,
         <3>11, <3>12, <3>13, <3>14, <3>15, <3>16, <3>17, <3>18, <3>19, <3>20,
         <3>21, <3>22, <3>23, <3>24, <3>25, <3>26, <3>27
      DEF Step, RunTarget, Target
  <2> QED
    BY <2>1, <2>2, <2>3 DEF Next, Step
<1>3. TypeInv => TypeOK
  BY DEF TypeInv
<1> QED
  BY <1>1, <1>2, <1>3, PTL DEF Spec

-----------------------------------------------------------------------------
(* Under -X the mutex makes the capture window exclusive.  The invariant    *)
(* says who holds the mutex, also after a call that failed and kept it.     *)

Critical == {"start", "notify", "arm", "wait", "clear", "disarm", "stop",
             "unlock"}

MutexInv ==
  \A f \in Fuzzer :
    /\ pc[f] \in Critical => etm_mutex = f
    /\ source[f] # 0 => etm_mutex = f
    /\ pc[f] = "unlock" => source[f] = 0

\* No two cores trace into the ETR buffer at once, for any number of processes
\* that share etm_mutex: start_etm()/stop_etm() in run_target() under -X.
THEOREM EtrIsExclusive ==
  ASSUME Multicore PROVE Spec => []EtrExclusive
<1>1. Init => MutexInv
  BY DEF Init, MutexInv, Critical
<1>2. TypeOK /\ MutexInv /\ [Next]_vars => MutexInv'
  <2> SUFFICES ASSUME TypeOK, MutexInv, [Next]_vars PROVE MutexInv'
    OBVIOUS
  <2> USE DEF MutexInv, Critical
  <2>1. CASE UNCHANGED vars
    BY <2>1 DEF vars, fuzzerVars, call, flags, results, etm
  <2>2. CASE Done
    BY <2>2 DEF Done, vars, fuzzerVars, call, flags, results, etm
  <2>3. ASSUME NEW f \in Fuzzer, Step(f) PROVE MutexInv'
    <3> USE Multicore, ExecutionAssumption
        DEF TypeOK, Goto, call, flags, results, etm, fuzzerVars
    <3>1. CASE Begin(f) \/ Ask(f) \/ GetPid(f) \/ Fork(f)
      BY <3>1 DEF Begin, Ask, GetPid, Fork
    <3>2. CASE Lock(f)
      BY <3>2 DEF Lock
    <3>3. CASE StartEtm(f)
      BY <3>3 DEF StartEtm
    <3>4. CASE Notify(f) \/ Arm(f) \/ GetStatus(f) \/ ClearPid(f) \/ Disarm(f)
      BY <3>4 DEF Notify, Arm, GetStatus, ClearPid, Disarm
    <3>5. CASE StopEtm(f)
      BY <3>5 DEF StopEtm
    <3>6. CASE Unlock(f)
      BY <3>6 DEF Unlock
    <3>7. CASE \/ Decode(f) \/ Report(f) \/ PipeFails(f) \/ TimeLimit(f)
               \/ StopWhenDone(f) \/ NoChild(f) \/ StartServer(f) \/ Hello(f)
      BY <3>7
      DEF Decode, Report, PipeFails, TimeLimit, StopWhenDone, NoChild, StartServer, Hello
    <3>8. CASE Timeout(f)
      BY <3>8 DEF Timeout
    <3>9. CASE Target(f)
      BY <3>9 DEF Target, ServerSaysHello, ServerForks, ChildRuns, ChildEnds, ServerDies
    <3> QED
      BY <2>3, <3>1, <3>2, <3>3, <3>4, <3>5, <3>6, <3>7, <3>8, <3>9
      DEF Step, RunTarget
  <2> QED
    BY <2>1, <2>2, <2>3 DEF Next, Step
<1>3. MutexInv => EtrExclusive
  BY DEF MutexInv, EtrExclusive
<1> QED
  BY <1>1, <1>2, <1>3, TypeCorrect, PTL DEF Spec

-----------------------------------------------------------------------------
(* The handshake: the pid in the filter is the one of the call in progress. *)

HandshakeInv ==
  \A f \in Fuzzer :
    /\ pc[f] \in {"lock", "start"} => child_pid[f] = run[f]
    /\ pc[f] = "notify" => source[f] = run[f]
    /\ server[f] \in {"released", "running"}
          => pc[f] \in {"arm", "wait"} /\ source[f] = run[f]

\* The handshake is followed by every step.
LEMMA HandshakeKept == TypeOK /\ HandshakeInv /\ [Next]_vars => HandshakeInv'
<1> SUFFICES ASSUME TypeOK, HandshakeInv, [Next]_vars PROVE HandshakeInv'
  OBVIOUS
<1> USE DEF HandshakeInv
<1>1. CASE UNCHANGED vars
  BY <1>1 DEF vars, fuzzerVars, call, flags, results, etm
<1>2. CASE Done
  BY <1>2 DEF Done, vars, fuzzerVars, call, flags, results, etm
<1>3. ASSUME NEW f \in Fuzzer, Step(f) PROVE HandshakeInv'
  <2> USE ExecutionAssumption
      DEF TypeOK, Goto, call, flags, results, etm, fuzzerVars
  <2>1. CASE Begin(f) \/ Ask(f) \/ GetPid(f) \/ Fork(f) \/ Lock(f)
    BY <2>1 DEF Begin, Ask, GetPid, Fork, Lock
  <2>2. CASE StartEtm(f)
    BY <2>2 DEF StartEtm
  <2>3. CASE Notify(f)
    BY <2>3 DEF Notify
  <2>4. CASE Arm(f) \/ ClearPid(f) \/ Disarm(f) \/ StopEtm(f)
    BY <2>4 DEF Arm, ClearPid, Disarm, StopEtm
  <2>5. CASE GetStatus(f)
    BY <2>5 DEF GetStatus, Ending
  <2>6. CASE \/ Unlock(f) \/ Decode(f) \/ Report(f) \/ TimeLimit(f) \/ StopWhenDone(f)
    BY <2>6 DEF Unlock, Decode, Report, TimeLimit, StopWhenDone
  <2>7. CASE PipeFails(f) \/ NoChild(f) \/ StartServer(f) \/ Hello(f)
    BY <2>7 DEF PipeFails, NoChild, StartServer, Hello
  <2>8. CASE Timeout(f)
    BY <2>8 DEF Timeout
  <2>9. CASE Target(f)
    BY <2>9 DEF Target, ServerSaysHello, ServerForks, ChildRuns, ChildEnds, ServerDies, Ending
  <2> QED
    BY <1>3, <2>1, <2>2, <2>3, <2>4, <2>5, <2>6, <2>7, <2>8, <2>9
    DEF Step, RunTarget
<1> QED
  BY <1>1, <1>2, <1>3 DEF Next, Step

\* A child executes only under its own core's ETM, with its own pid in the
\* filter: the order start_etm(), second word, wait status, stop_etm().
THEOREM AlwaysFullyTraced == Spec => []FullyTraced
<1>1. Init => HandshakeInv
  BY DEF Init, HandshakeInv
<1>2. TypeOK /\ HandshakeInv /\ [Next]_vars => HandshakeInv'
  BY HandshakeKept
<1>3. HandshakeInv => FullyTraced
  BY DEF HandshakeInv, FullyTraced
<1> QED
  BY <1>1, <1>2, <1>3, TypeCorrect, PTL DEF Spec

-----------------------------------------------------------------------------
(* child_timed_out says exactly whether the alarm of this call has fired.   *)

AlarmInv ==
  \A f \in Fuzzer :
    /\ alarmed[f] <= run[f]
    /\ pc[f] \notin {"idle", "exited"} => run[f] > 0
    /\ run[f] > 0 => (child_timed_out[f] <=> alarmed[f] = run[f])

\* So it is after every step: the handler sets both, the entry of a call clears one.
LEMMA AlarmKept == TypeOK /\ AlarmInv /\ [Next]_vars => AlarmInv'
<1> SUFFICES ASSUME TypeOK, AlarmInv, [Next]_vars PROVE AlarmInv'
  OBVIOUS
<1> USE DEF AlarmInv
<1>1. CASE UNCHANGED vars
  BY <1>1 DEF vars, fuzzerVars, call, flags, results, etm
<1>2. CASE Done
  BY <1>2 DEF Done, vars, fuzzerVars, call, flags, results, etm
<1>3. ASSUME NEW f \in Fuzzer, Step(f) PROVE AlarmInv'
  <2> USE ExecutionAssumption
      DEF TypeOK, Run0, Goto, call, flags, results, etm, fuzzerVars
  <2>1. CASE Begin(f)
    BY <2>1 DEF Begin
  <2>2. CASE Ask(f) \/ GetPid(f) \/ Fork(f) \/ Lock(f) \/ StartEtm(f)
    BY <2>2 DEF Ask, GetPid, Fork, Lock, StartEtm
  <2>3. CASE Notify(f) \/ Arm(f) \/ GetStatus(f) \/ ClearPid(f) \/ Disarm(f)
    BY <2>3 DEF Notify, Arm, GetStatus, ClearPid, Disarm
  <2>4. CASE StopEtm(f) \/ Unlock(f) \/ Decode(f) \/ Report(f)
    BY <2>4 DEF StopEtm, Unlock, Decode, Report
  <2>5. CASE \/ PipeFails(f) \/ TimeLimit(f) \/ StopWhenDone(f)
            \/ NoChild(f) \/ StartServer(f) \/ Hello(f)
    BY <2>5 DEF PipeFails, TimeLimit, StopWhenDone, NoChild, StartServer, Hello
  <2>6. CASE Timeout(f)
    BY <2>6 DEF Timeout
  <2>7. CASE Target(f)
    BY <2>7 DEF Target, ServerSaysHello, ServerForks, ChildRuns, ChildEnds, ServerDies
  <2> QED
    BY <1>3, <2>1, <2>2, <2>3, <2>4, <2>5, <2>6, <2>7 DEF Step, RunTarget
<1> QED
  BY <1>1, <1>2, <1>3 DEF Next, Step

\* At first no call has been made and no alarm has fired.
LEMMA AlarmStarts == Init => AlarmInv
<1> SUFFICES ASSUME Init, NEW f \in Fuzzer
             PROVE alarmed[f] <= run[f] /\ pc[f] = "idle" /\ ~(run[f] > 0)
  BY Zenon DEF AlarmInv
<1> QED
  BY DEF Init

\* FAULT_TMOUT is returned exactly for the calls whose own alarm killed the
\* child: handle_timeout() and the flags run_target() clears at its entry.
THEOREM VerdictIsOfItsRun == Spec => []TimeoutVerdict
<1>1. Init => AlarmInv
  BY AlarmStarts
<1>2. TypeOK /\ AlarmInv /\ [Next]_vars => AlarmInv'
  BY AlarmKept
<1>3. TypeOK /\ AlarmInv => TimeoutVerdict
  <2> SUFFICES ASSUME TypeOK, AlarmInv, NEW f \in Fuzzer,
                      pc[f] = "report", ~stop_soon[f]
               PROVE /\ "tmout" \in Faults(f) => alarmed[f] = run[f] /\ status[f] = "sigkill"
                     /\ alarmed[f] = run[f] /\ status[f] = "sigkill" => Faults(f) = {"tmout"}
    BY Zenon DEF TimeoutVerdict
  <2>1. child_timed_out[f] <=> alarmed[f] = run[f]
    BY DEF AlarmInv
  <2>2. /\ "tmout" \in Faults(f) => child_timed_out[f] /\ status[f] = "sigkill"
        /\ child_timed_out[f] /\ status[f] = "sigkill" => Faults(f) = {"tmout"}
    BY DEF Faults, TypeOK, Ending
  <2> QED
    BY <2>1, <2>2, Zenon
<1> QED
  BY <1>1, <1>2, <1>3, TypeCorrect, PTL DEF Spec

-----------------------------------------------------------------------------
(* One process alone: the trace it decodes is the run's it has just made.   *)

\* The timer belongs to the fork server, and is off again when the trace is read.
TimerInv ==
  \A f \in Fuzzer :
    /\ no_forkserver[f] =>
         /\ ~alarm[f] /\ server[f] # "dead"
         /\ pc[f] \notin {"hello", "getpid", "arm", "clear", "disarm"}
    /\ pc[f] \in {"stop", "unlock", "decode", "report"} => ~alarm[f]
    /\ server[f] = "starting" => pc[f] = "hello"

\* The source is off outside the window, but for a call that a dead server ended:
\* no child runs after it.
WindowInv ==
  \A f \in Fuzzer :
    /\ pc[f] \in {"lock", "start", "unlock", "decode", "report"} => source[f] = 0
    /\ pc[f] \in {"idle", "hello", "ask", "getpid"} /\ server[f] # "dead" => source[f] = 0

Window == {"notify", "arm", "wait", "clear", "disarm", "stop", "unlock", "decode"}
Calling == Window \union {"ask", "getpid", "lock", "start"}

\* What the buffer holds follows the child; a run without its trace is marked.
TraceInv ==
  \A f \in Fuzzer :
    /\ pc[f] \in Calling \union {"report"} => (skip_tracing[f] <=> alarmed[f] = run[f])
    /\ pc[f] \in Calling => trace_bits[f] = {}
    /\ pc[f] = "notify" \/ (pc[f] \in {"arm", "wait"} /\ server[f] = "released") => etr = {}
    /\ pc[f] \in {"arm", "wait"} /\ server[f] = "running" => etr = {<<f, run[f]>>}
    /\ pc[f] \in {"arm", "wait"} /\ server[f] \in Ending
         => skip_tracing[f] \/ etr = {<<f, run[f]>>}
    /\ pc[f] \in {"clear", "disarm", "stop", "unlock", "decode"}
         => skip_tracing[f] \/ etr = {<<f, run[f]>>}
    /\ pc[f] = "report" =>
         IF skip_tracing[f] THEN trace_bits[f] = {}
         ELSE trace_bits[f] = {<<f, run[f]>>} /\ counted[f] = run[f]

\* TimerInv is inductive: Arm is on the path of the fork server only.
LEMMA TimerKept == TypeOK /\ TimerInv /\ [Next]_vars => TimerInv'
<1> SUFFICES ASSUME TypeOK, TimerInv, [Next]_vars PROVE TimerInv'
  OBVIOUS
<1> USE DEF TimerInv
<1>1. CASE UNCHANGED vars
  BY <1>1 DEF vars, fuzzerVars, call, flags, results, etm
<1>2. CASE Done
  BY <1>2 DEF Done, vars, fuzzerVars, call, flags, results, etm
<1>3. ASSUME NEW f \in Fuzzer, Step(f) PROVE TimerInv'
  <2> USE ExecutionAssumption DEF TypeOK, Goto, call, flags, results, etm, fuzzerVars
  <2>1. CASE Begin(f) \/ Ask(f) \/ GetPid(f) \/ Fork(f) \/ Lock(f) \/ StartEtm(f)
    BY <2>1 DEF Begin, Ask, GetPid, Fork, Lock, StartEtm
  <2>2. CASE Notify(f) \/ Arm(f) \/ ClearPid(f) \/ Disarm(f)
    BY <2>2 DEF Notify, Arm, ClearPid, Disarm
  <2>3. CASE GetStatus(f)
    BY <2>3 DEF GetStatus, Ending
  <2>4. CASE StopEtm(f) \/ Unlock(f) \/ Decode(f) \/ Report(f)
    BY <2>4 DEF StopEtm, Unlock, Decode, Report
  <2>5. CASE \/ PipeFails(f) \/ TimeLimit(f) \/ StopWhenDone(f)
            \/ NoChild(f) \/ StartServer(f) \/ Hello(f)
    BY <2>5 DEF PipeFails, TimeLimit, StopWhenDone, NoChild, StartServer, Hello
  <2>6. CASE Timeout(f)
    BY <2>6 DEF Timeout
  <2>7. CASE Target(f)
    BY <2>7 DEF Target, ServerSaysHello, ServerForks, ChildRuns, ChildEnds, ServerDies, Ending
  <2> QED
    BY <1>3, <2>1, <2>2, <2>3, <2>4, <2>5, <2>6, <2>7 DEF Step, RunTarget
<1> QED
  BY <1>1, <1>2, <1>3 DEF Next, Step

\* So is WindowInv: a dead server answers no later call.
LEMMA WindowKept == TypeOK /\ TimerInv /\ WindowInv /\ [Next]_vars => WindowInv'
<1> SUFFICES ASSUME TypeOK, TimerInv, WindowInv, [Next]_vars PROVE WindowInv'
  OBVIOUS
<1> USE DEF WindowInv
<1>1. CASE UNCHANGED vars
  BY <1>1 DEF vars, fuzzerVars, call, flags, results, etm
<1>2. CASE Done
  BY <1>2 DEF Done, vars, fuzzerVars, call, flags, results, etm
<1>3. ASSUME NEW f \in Fuzzer, Step(f) PROVE WindowInv'
  <2> USE ExecutionAssumption DEF TypeOK, TimerInv, Goto, call, flags, results, etm, fuzzerVars
  <2>1. CASE Begin(f) \/ Ask(f) \/ GetPid(f) \/ Fork(f) \/ Lock(f) \/ StartEtm(f)
    BY <2>1 DEF Begin, Ask, GetPid, Fork, Lock, StartEtm
  <2>2. CASE Notify(f) \/ Arm(f) \/ ClearPid(f) \/ Disarm(f)
    BY <2>2 DEF Notify, Arm, ClearPid, Disarm
  <2>3. CASE GetStatus(f)
    BY <2>3 DEF GetStatus, Ending
  <2>4. CASE StopEtm(f) \/ Unlock(f) \/ Decode(f) \/ Report(f)
    BY <2>4 DEF StopEtm, Unlock, Decode, Report
  <2>5. CASE \/ PipeFails(f) \/ TimeLimit(f) \/ StopWhenDone(f)
            \/ NoChild(f) \/ StartServer(f) \/ Hello(f)
    BY <2>5 DEF PipeFails, TimeLimit, StopWhenDone, NoChild, StartServer, Hello
  <2>6. CASE Timeout(f)
    BY <2>6 DEF Timeout
  <2>7. CASE Target(f)
    BY <2>7 DEF Target, ServerSaysHello, ServerForks, ChildRuns, ChildEnds, ServerDies, Ending
  <2> QED
    BY <1>3, <2>1, <2>2, <2>3, <2>4, <2>5, <2>6, <2>7 DEF Step, RunTarget
<1> QED
  BY <1>1, <1>2, <1>3 DEF Next, Step

Alone == \A f, g \in Fuzzer : f = g

\* The buffer is emptied at start_etm(), filled by the child that runs while the
\* source is on, and decoded before anything else can be traced.
LEMMA TraceKeptAlone ==
  ASSUME Alone, TypeOK, HandshakeInv, AlarmInv, TimerInv, WindowInv, TraceInv, [Next]_vars
  PROVE  TraceInv'
<1> USE DEF TraceInv, Calling, Window
<1>1. CASE UNCHANGED vars
  BY <1>1 DEF vars, fuzzerVars, call, flags, results, etm
<1>2. CASE Done
  BY <1>2 DEF Done, vars, fuzzerVars, call, flags, results, etm
<1>3. ASSUME NEW f \in Fuzzer, Step(f) PROVE TraceInv'
  <2>0. Fuzzer = {f}
    BY DEF Alone
  <2> USE <2>0, ExecutionAssumption DEF TypeOK, Goto, call, flags, results, etm, fuzzerVars
  <2>1. CASE Begin(f)
    BY <2>1 DEF Begin, AlarmInv, Run0
  <2>2. CASE Ask(f) \/ GetPid(f) \/ Fork(f) \/ Lock(f)
    BY <2>2 DEF Ask, GetPid, Fork, Lock
  <2>3. CASE StartEtm(f)
    BY <2>3 DEF StartEtm, WindowInv
  <2>4. CASE Notify(f)
    BY <2>4 DEF Notify, Ending
  <2>5. CASE Arm(f) \/ ClearPid(f) \/ Disarm(f)
    BY <2>5 DEF Arm, ClearPid, Disarm
  <2>6. CASE GetStatus(f)
    <3>1. skip_tracing[f] \/ etr = {<<f, run[f]>>}
      BY <2>6 DEF GetStatus
    <3>2. pc'[f] \in {"stop", "clear"} /\ pc[f] = "wait"
      BY <2>6 DEF GetStatus
    <3>3. UNCHANGED <<run, skip_tracing, alarmed, trace_bits, etr>>
      BY <2>6 DEF GetStatus
    <3> QED
      BY <3>1, <3>2, <3>3
  <2>7. CASE StopEtm(f) \/ Unlock(f) \/ Report(f)
    BY <2>7 DEF StopEtm, Unlock, Report
  <2>8. CASE Decode(f)
    BY <2>8 DEF Decode
  <2>9. CASE \/ PipeFails(f) \/ TimeLimit(f) \/ StopWhenDone(f)
            \/ NoChild(f) \/ StartServer(f) \/ Hello(f)
    BY <2>9 DEF PipeFails, TimeLimit, StopWhenDone, NoChild, StartServer, Hello
  <2>10. CASE Timeout(f)
    BY <2>10 DEF Timeout, TimerInv, Ending
  <2>11. CASE ChildRuns(f)
    BY <2>11 DEF ChildRuns, HandshakeInv, Ending
  <2>12. CASE ServerSaysHello(f) \/ ServerForks(f) \/ ServerDies(f) \/ ChildEnds(f)
    BY <2>12 DEF ServerSaysHello, ServerForks, ServerDies, ChildEnds, Ending
  <2> QED
    BY <1>3, <2>1, <2>2, <2>3, <2>4, <2>5, <2>6, <2>7, <2>8, <2>9, <2>10, <2>11, <2>12
    DEF Step, RunTarget, Target
<1> QED
  BY <1>1, <1>2, <1>3 DEF Next, Step

\* While one process traces on the board, run_target() evaluates the trace of its own
\* run, whole and alone (two need more than etm_mutex, which is released before
\* etmv4_decode() reads the buffer).
THEOREM OwnTraceAlone ==
  ASSUME Alone PROVE Spec => []OwnTrace
<1>1. Init => HandshakeInv /\ TimerInv /\ WindowInv /\ TraceInv
  BY DEF Init, HandshakeInv, TimerInv, WindowInv, TraceInv, Calling, Window, Ending
<1>2. Init => AlarmInv
  BY AlarmStarts
<1>3. TypeOK /\ HandshakeInv /\ [Next]_vars => HandshakeInv'
  BY HandshakeKept
<1>4. TypeOK /\ AlarmInv /\ [Next]_vars => AlarmInv'
  BY AlarmKept
<1>5. /\ TypeOK /\ TimerInv /\ [Next]_vars => TimerInv'
      /\ TypeOK /\ TimerInv /\ WindowInv /\ [Next]_vars => WindowInv'
  BY TimerKept, WindowKept
<1>6. TypeOK /\ HandshakeInv /\ AlarmInv /\ TimerInv /\ WindowInv /\ TraceInv /\ [Next]_vars
        => TraceInv'
  BY Alone, TraceKeptAlone
<1>7. TraceInv => OwnTrace
  BY DEF TraceInv, OwnTrace
<1> QED
  BY <1>1, <1>2, <1>3, <1>4, <1>5, <1>6, <1>7, TypeCorrect, PTL DEF Spec

-----------------------------------------------------------------------------
(* While the fork server lives, no call leaves its timer behind.            *)

IdleTimerInv ==
  \A f \in Fuzzer :
    /\ alarm[f] => pc[f] \in {"hello", "wait", "clear", "disarm", "exited"}
    /\ server[f] = "dead" => pc[f] \in {"hello", "exited"}

\* A SIGALRM is delivered in the run it was armed for, or not at all: setitimer() of zero
\* on the way of every call, or exit() of a process whose server did not start.
THEOREM AlarmsStayInTheirRun ==
  ASSUME ~ServerMayDie PROVE Spec => AlarmInOwnRun
<1>1. Init => TimerInv /\ IdleTimerInv
  BY DEF Init, TimerInv, IdleTimerInv
<1>2. TypeOK /\ TimerInv /\ IdleTimerInv /\ [Next]_vars => IdleTimerInv'
  <2> SUFFICES ASSUME TypeOK, TimerInv, IdleTimerInv, [Next]_vars PROVE IdleTimerInv'
    OBVIOUS
  <2> USE DEF IdleTimerInv
  <2>1. CASE UNCHANGED vars
    BY <2>1 DEF vars, fuzzerVars, call, flags, results, etm
  <2>2. CASE Done
    BY <2>2 DEF Done, vars, fuzzerVars, call, flags, results, etm
  <2>3. ASSUME NEW f \in Fuzzer, Step(f) PROVE IdleTimerInv'
    <3> USE ExecutionAssumption
        DEF TypeOK, TimerInv, Goto, call, flags, results, etm, fuzzerVars
    <3>1. CASE Begin(f) \/ Ask(f) \/ GetPid(f) \/ Fork(f) \/ Lock(f) \/ StartEtm(f)
      BY <3>1 DEF Begin, Ask, GetPid, Fork, Lock, StartEtm
    <3>2. CASE Notify(f) \/ Arm(f) \/ ClearPid(f) \/ Disarm(f)
      BY <3>2 DEF Notify, Arm, ClearPid, Disarm
    <3>3. CASE GetStatus(f)
      BY <3>3 DEF GetStatus, Ending
    <3>4. CASE StopEtm(f) \/ Unlock(f) \/ Decode(f) \/ Report(f)
      BY <3>4 DEF StopEtm, Unlock, Decode, Report
    <3>5. CASE \/ PipeFails(f) \/ TimeLimit(f) \/ StopWhenDone(f)
              \/ NoChild(f) \/ StartServer(f) \/ Hello(f)
      BY <3>5 DEF PipeFails, TimeLimit, StopWhenDone, NoChild, StartServer, Hello
    <3>6. CASE Timeout(f)
      BY <3>6 DEF Timeout
    <3>7. CASE Target(f)
      BY <3>7, ~ServerMayDie
      DEF Target, ServerSaysHello, ServerForks, ChildRuns, ChildEnds, ServerDies, Ending
    <3> QED
      BY <2>3, <3>1, <3>2, <3>3, <3>4, <3>5, <3>6, <3>7 DEF Step, RunTarget
  <2> QED
    BY <2>1, <2>2, <2>3 DEF Next, Step
<1>3. TypeOK /\ IdleTimerInv /\ [Next]_vars
        => [\A f \in Fuzzer : run'[f] # run[f] => ~alarm[f]]_vars
  <2> SUFFICES ASSUME TypeOK, IdleTimerInv, NEW f \in Fuzzer, Step(f),
                      NEW g \in Fuzzer, run'[g] # run[g]
               PROVE  ~alarm[g]
    BY DEF Next, Step, Done
  <2>1. Begin(f)
    BY DEF Step, RunTarget, Target, StartServer, Hello, Ask, GetPid, Fork, Lock, StartEtm,
           Notify, Arm, GetStatus, ClearPid, Disarm, StopEtm, Unlock, Decode, Report,
           PipeFails, NoChild, TimeLimit, StopWhenDone, Timeout, ServerSaysHello, ServerForks, ChildRuns,
           ChildEnds, ServerDies, call, fuzzerVars
  <2> QED
    BY <2>1 DEF Begin, Goto, TypeOK, IdleTimerInv
<1>4. TypeOK /\ TimerInv /\ [Next]_vars => TimerInv'
  BY TimerKept
<1> QED
  BY <1>1, <1>2, <1>3, <1>4, TypeCorrect, PTL DEF Spec, AlarmInOwnRun
-----------------------------------------------------------------------------
(* One process alone: run_target() implements AtomicRun.                    *)

Phases == [f \in Fuzzer |-> Phase(pc[f])]

\* A step of run_target() shows if it leads from one phase to another.
LEMMA PhaseMoves ==
  ASSUME TypeOK, NEW f \in Fuzzer, NEW from, NEW to, Goto(f, from, to)
  PROVE  /\ Phases[f] = Phase(from)
         /\ Phases' = [Phases EXCEPT ![f] = Phase(to)]
         /\ Phase(from) = Phase(to) => UNCHANGED Phases
<1>1. pc[f] = from /\ pc \in [Fuzzer -> PC] /\ pc' = [pc EXCEPT ![f] = to]
  BY DEF TypeOK, Goto
<1>2. \A g \in Fuzzer : Phase(pc'[g]) = IF g = f THEN Phase(to) ELSE Phase(pc[g])
  BY <1>1
<1>3. Phases' = [g \in Fuzzer |-> IF g = f THEN Phase(to) ELSE Phase(pc[g])]
  BY <1>2, Zenon DEF Phases
<1>4. Phases[f] = Phase(from)
  BY <1>1 DEF Phases
<1> HIDE DEF Phases
<1>5. \A g \in Fuzzer : Phases[g] = Phase(pc[g])
  BY DEF Phases
<1>6. Phases = [g \in Fuzzer |-> Phases[g]]
  BY DEF Phases
<1>7. Phases' = [g \in Fuzzer |-> IF g = f THEN Phase(to) ELSE Phases[g]]
  BY <1>3, <1>5
<1>8. Phases' = [Phases EXCEPT ![f] = Phase(to)]
  BY <1>6, <1>7
<1> QED BY <1>4, <1>6, <1>7, <1>8

\* What each phase is.
LEMMA PhaseOf ==
  /\ Phase("idle") = "idle" /\ Phase("hello") = "idle"
  /\ Phase("report") = "observed" /\ Phase("exited") = "exited"
  /\ \A step \in Calling : Phase(step) = "running"
BY DEF Phase, Calling, Window

Visible == <<run, no_forkserver, stop_soon, alarmed, trace_bits, counted, fault>>

AtomicInv == TypeOK /\ TimerInv /\ AlarmInv /\ TraceInv

\* Each step of the process is one of AtomicRun, or does not show.
LEMMA StepIsAtomic ==
  ASSUME AtomicInv, NEW f \in Fuzzer, Step(f)
  PROVE  Atomic!Next \/ UNCHANGED <<Phases, Visible>>
<1> USE DEF AtomicInv
<1>1. CASE Begin(f)
  <2>1. Atomic!Call(f)
    BY <1>1, PhaseMoves, PhaseOf DEF Begin, Atomic!Call, Atomic!Becomes, Phases, Calling
  <2> QED BY <2>1 DEF Atomic!Next
<1>2. CASE StartServer(f)
  <2>1. Phases[f] = "idle" /\ UNCHANGED Phases
    BY <1>2, PhaseMoves, PhaseOf DEF StartServer
  <2>2. Atomic!Serve(f)
    BY <1>2, <2>1 DEF StartServer, Atomic!Serve, Phases, flags, results
  <2> QED BY <2>2 DEF Atomic!Next
<1>3. CASE Hello(f)
  <2>1. CASE server[f] = "idle"
    BY <1>3, <2>1, PhaseMoves, PhaseOf DEF Hello, Visible, call, flags, results
  <2>2. CASE server[f] # "idle"
    <3>1. Goto(f, "hello", "exited") /\ UNCHANGED Visible
      BY <1>3, <2>2 DEF Hello, Visible, call, flags, results
    <3>3. Atomic!Exit(f)
      BY <3>1, PhaseMoves, PhaseOf DEF Atomic!Exit, Atomic!Becomes, Phases, Visible
    <3> QED BY <3>3 DEF Atomic!Next
  <2> QED BY <2>1, <2>2
<1>4. CASE Decode(f)
  <2>1. Goto(f, "decode", "report") /\ (skip_tracing[f] <=> alarmed[f] = run[f])
    BY <1>4 DEF Decode, Goto, TraceInv, Calling, Window
  <2>2. skip_tracing[f] \/ etr = {<<f, run[f]>>}
    BY <2>1 DEF Goto, TraceInv
  <2>3. Phases[f] = "running" /\ Phases' = [Phases EXCEPT ![f] = "observed"]
    BY <2>1, PhaseMoves, PhaseOf DEF Calling, Window
  <2>4. Atomic!Observe(f)
    BY <1>4, <2>1, <2>2, <2>3
    DEF Decode, Atomic!Observe, Atomic!Becomes, Phases, call, flags
  <2> QED BY <2>4 DEF Atomic!Next
<1>5. CASE Report(f)
  <2>1. PICK outcome \in Faults(f) :
          /\ Goto(f, "report", "idle") /\ fault' = [fault EXCEPT ![f] = outcome]
          /\ UNCHANGED <<run, no_forkserver, stop_soon, alarmed, trace_bits, counted>>
    BY <1>5 DEF Report, call, flags
  <2>2. child_timed_out[f] => alarmed[f] = run[f]
    BY <2>1 DEF Goto, AlarmInv, TypeOK, Run0
  <2>3. outcome \in Atomic!Outcomes(f)
    BY <2>2 DEF Faults, Atomic!Outcomes
  <2>4. Phases[f] = "observed" /\ Phases' = [Phases EXCEPT ![f] = "idle"]
    BY <2>1, PhaseMoves, PhaseOf
  <2>5. Atomic!Return(f)
    BY <2>1, <2>3, <2>4 DEF Atomic!Return, Atomic!Becomes, Phases
  <2> QED BY <2>5 DEF Atomic!Next
<1>6. CASE PipeFails(f)
  <2>1. pc[f] \in Calling
    BY <1>6 DEF PipeFails, Calling, Window
  <2>2. CASE stop_soon[f]
    <3>1. Goto(f, pc[f], "idle")
      BY <1>6, <2>2 DEF PipeFails, Goto
    <3>2. Phases[f] = "running" /\ Phases' = [Phases EXCEPT ![f] = "idle"]
      BY <2>1, <3>1, PhaseMoves, PhaseOf
    <3>3. Atomic!Cancel(f)
      BY <1>6, <2>2, <3>2 DEF PipeFails, Atomic!Cancel, Atomic!Becomes, Phases, call, flags
    <3> QED BY <3>3 DEF Atomic!Next
  <2>3. CASE ~stop_soon[f]
    <3>1. Goto(f, pc[f], "exited")
      BY <1>6, <2>3 DEF PipeFails, Goto
    <3>2. Phases[f] = "running" /\ Phases' = [Phases EXCEPT ![f] = "exited"]
      BY <2>1, <3>1, PhaseMoves, PhaseOf
    <3>3. Atomic!Exit(f)
      BY <1>6, <2>3, <3>2 DEF PipeFails, Atomic!Exit, Atomic!Becomes, Phases, call, flags
    <3> QED BY <3>3 DEF Atomic!Next
  <2> QED BY <2>2, <2>3
<1>7. CASE StopWhenDone(f)
  <2>1. Phases[f] = "idle" /\ UNCHANGED Phases
    BY <1>7, PhaseOf DEF StopWhenDone, Phases
  <2>2. Atomic!Stop(f)
    BY <1>7, <2>1 DEF StopWhenDone, Atomic!Stop, Phases, flags, results
  <2> QED BY <2>2 DEF Atomic!Next
<1>8. CASE Timeout(f)
  <2>1. /\ alarm[f] /\ UNCHANGED <<pc, run, no_forkserver, stop_soon, trace_bits, counted, fault>>
        /\ alarmed' \in {alarmed, [alarmed EXCEPT ![f] = run[f]]}
    BY <1>8 DEF Timeout, call, results
  <2>2. UNCHANGED Phases
    BY <2>1 DEF Phases
  <2>3. pc[f] # "report"
    BY <2>1 DEF TimerInv
  <2>4. Phases[f] # "observed"
    BY <2>3 DEF Phases, Phase
  <2>5. CASE alarmed' = alarmed
    BY <2>1, <2>2, <2>5 DEF Visible
  <2>6. CASE alarmed' = [alarmed EXCEPT ![f] = run[f]]
    <3>1. Atomic!Alarm(f)
      BY <2>1, <2>2, <2>4, <2>6 DEF Atomic!Alarm, Phases
    <3> QED BY <3>1 DEF Atomic!Next
  <2> QED BY <2>1, <2>5, <2>6
<1>9. CASE Target(f)
  BY <1>9 DEF Target, ServerSaysHello, ServerForks, ChildRuns, ChildEnds, ServerDies,
              Phases, Visible, fuzzerVars, call, flags, results
<1>10. CASE Ask(f) \/ GetPid(f) \/ Fork(f) \/ Lock(f) \/ StartEtm(f) \/ Notify(f) \/ Arm(f)
            \/ GetStatus(f) \/ ClearPid(f) \/ Disarm(f) \/ StopEtm(f) \/ Unlock(f)
  <2>1. UNCHANGED Visible
    BY <1>10 DEF Ask, GetPid, Fork, Lock, StartEtm, Notify, Arm, GetStatus, ClearPid, Disarm,
                 StopEtm, Unlock, Visible, call, flags, results
  <2>2. \E from, to \in Calling : Goto(f, from, to)
    BY <1>10 DEF Ask, GetPid, Fork, Lock, StartEtm, Notify, Arm, GetStatus, ClearPid, Disarm,
                 StopEtm, Unlock, Calling, Window
  <2>3. UNCHANGED Phases
    BY <2>2, PhaseMoves, PhaseOf
  <2> QED BY <2>1, <2>3
<1>11. CASE TimeLimit(f) \/ NoChild(f)
  <2>1. PICK from \in {"idle", "getpid"} : Goto(f, from, "exited")
    BY <1>11 DEF TimeLimit, NoChild
  <2>2. UNCHANGED Visible
    BY <1>11 DEF TimeLimit, NoChild, Visible, call, flags, results
  <2>3. Phases[f] \in {"idle", "running"} /\ Phases' = [Phases EXCEPT ![f] = "exited"]
    BY <2>1, PhaseMoves, PhaseOf DEF Calling
  <2>4. Atomic!Exit(f)
    BY <2>2, <2>3 DEF Atomic!Exit, Atomic!Becomes, Phases, Visible
  <2> QED BY <2>4 DEF Atomic!Next
<1> QED
  BY <1>1, <1>2, <1>3, <1>4, <1>5, <1>6, <1>7, <1>8, <1>9, <1>10, <1>11 DEF Step, RunTarget

\* Callers of a run_target() that is alone on the board may take it for one run: each
\* step is one of AtomicRun or does not show to them.
THEOREM RunIsAtomic ==
  ASSUME Alone PROVE Spec => ImplementsAtomicRun
<1>1. Init => Atomic!Init
  <2>1. Init => Phases = [f \in Fuzzer |-> "idle"]
    BY PhaseOf DEF Init, Phases
  <2> QED BY <2>1, ExecutionAssumption DEF Init, Atomic!Init, Phases
<1>2. AtomicInv /\ [Next]_vars => [Atomic!Next]_(Atomic!vars)
  <2> SUFFICES ASSUME AtomicInv, [Next]_vars
               PROVE  Atomic!Next \/ UNCHANGED <<Phases, Visible>>
    BY DEF Atomic!vars, Phases, Visible
  <2>1. CASE UNCHANGED vars
    BY <2>1 DEF vars, fuzzerVars, call, flags, results, Phases, Visible
  <2>2. CASE Done
    BY <2>2 DEF Done, vars, fuzzerVars, call, flags, results, Phases, Visible
  <2>3. ASSUME NEW f \in Fuzzer, Step(f) PROVE Atomic!Next \/ UNCHANGED <<Phases, Visible>>
    BY <2>3, StepIsAtomic
  <2> QED BY <2>1, <2>2, <2>3 DEF Next, Step
<1>3. Init => HandshakeInv /\ TimerInv /\ WindowInv /\ TraceInv
  BY DEF Init, HandshakeInv, TimerInv, WindowInv, TraceInv, Calling, Window, Ending
<1>4. Spec => []AtomicInv
  BY <1>3, TypeCorrect, AlarmStarts, HandshakeKept, AlarmKept, TimerKept, WindowKept,
     Alone, TraceKeptAlone, PTL DEF Spec, AtomicInv
<1> QED
  BY <1>1, <1>2, <1>4, PTL DEF Spec, ImplementsAtomicRun, Atomic!Spec
=============================================================================
