------------------------------ MODULE AtomicRun ------------------------------
(***************************************************************************)
(* What run_target() promises its callers - calibrate_case(), trim_case(), *)
(* common_fuzz_stuff() and cpu_frequency_analysis() - and what the models  *)
(* of these take for granted: a call is made, the run is observed at once, *)
(* and its outcome is returned.  Pipes, signals, the fork server, the      *)
(* mutex and the trace unit do not appear: Execution implements this for a *)
(* process that is alone on the board.                                     *)
(***************************************************************************)
EXTENDS Integers

CONSTANT Fuzzer

VARIABLES
  phase,       \* "idle", "running", "observed" or "exited"
  run,         \* calls so far
  no_forkserver, \* are these the runs of cpu_frequency_analysis()?
  stop_soon,
  alarmed,     \* the last call during or after which the timer fired
  trace_bits,  \* the runs whose branches the map counts
  counted,     \* the call that overflow_nums etc. describe
  fault        \* what the last call returned

vars == <<phase, run, no_forkserver, stop_soon, alarmed, trace_bits, counted, fault>>

Init ==
  /\ phase = [f \in Fuzzer |-> "idle"]
  /\ run = [f \in Fuzzer |-> 0]
  /\ no_forkserver \in [Fuzzer -> BOOLEAN]
  /\ stop_soon = [f \in Fuzzer |-> FALSE]
  /\ alarmed = [f \in Fuzzer |-> 0]
  /\ trace_bits = [f \in Fuzzer |-> {}]
  /\ counted = [f \in Fuzzer |-> 0]
  /\ fault = [f \in Fuzzer |-> "none"]

Becomes(f, from, to) == phase[f] = from /\ phase' = [phase EXCEPT ![f] = to]

\* The map is empty until the run is observed.
Call(f) ==
  /\ Becomes(f, "idle", "running")
  /\ run' = [run EXCEPT ![f] = @ + 1]
  /\ trace_bits' = [trace_bits EXCEPT ![f] = {}]
  /\ UNCHANGED <<no_forkserver, stop_soon, alarmed, counted, fault>>

\* The timer fires, but not between the observation and the return.
Alarm(f) ==
  /\ phase[f] # "observed"
  /\ alarmed' = [alarmed EXCEPT ![f] = run[f]]
  /\ UNCHANGED <<phase, run, no_forkserver, stop_soon, trace_bits, counted, fault>>

\* A run in time is observed whole, with its own counters; of one that was not the map
\* says nothing, and the counters are still those of an earlier run.
Observe(f) ==
  /\ Becomes(f, "running", "observed")
  /\ IF alarmed[f] = run[f]
     THEN UNCHANGED <<trace_bits, counted>>
     ELSE /\ trace_bits' = [trace_bits EXCEPT ![f] = {<<f, run[f]>>}]
          /\ counted' = [counted EXCEPT ![f] = run[f]]
  /\ UNCHANGED <<run, no_forkserver, stop_soon, alarmed, fault>>

\* A run in time is no timeout, and once the program is to stop none is.  Before there is
\* a fork server any run may be called an error, executed or not.
Outcomes(f) ==
  {"none", "crash"}
    \union (IF alarmed[f] = run[f] /\ ~stop_soon[f] THEN {"tmout"} ELSE {})
    \union (IF no_forkserver[f] THEN {"error"} ELSE {})

Return(f) ==
  /\ Becomes(f, "observed", "idle")
  /\ \E outcome \in Outcomes(f) : fault' = [fault EXCEPT ![f] = outcome]
  /\ UNCHANGED <<run, no_forkserver, stop_soon, alarmed, trace_bits, counted>>

\* A run that cannot be made is none, once the program is to stop.
Cancel(f) ==
  /\ Becomes(f, "running", "idle") /\ stop_soon[f]
  /\ fault' = [fault EXCEPT ![f] = "none"]
  /\ UNCHANGED <<run, no_forkserver, stop_soon, alarmed, trace_bits, counted>>

\* The program gives up, or its time is over.
Exit(f) ==
  /\ Becomes(f, phase[f], "exited") /\ phase[f] \in {"idle", "running"}
  /\ UNCHANGED <<run, no_forkserver, stop_soon, alarmed, trace_bits, counted, fault>>

Stop(f) ==
  /\ phase[f] = "idle"
  /\ stop_soon' = [stop_soon EXCEPT ![f] = TRUE]
  /\ UNCHANGED <<phase, run, no_forkserver, alarmed, trace_bits, counted, fault>>

\* From here on runs go through the fork server.
Serve(f) ==
  /\ phase[f] = "idle"
  /\ no_forkserver' = [no_forkserver EXCEPT ![f] = FALSE]
  /\ UNCHANGED <<phase, run, stop_soon, alarmed, trace_bits, counted, fault>>

Next == \E f \in Fuzzer :
  \/ Call(f) \/ Alarm(f) \/ Observe(f) \/ Return(f) \/ Cancel(f) \/ Exit(f)
  \/ Stop(f) \/ Serve(f)

Spec == Init /\ [][Next]_vars
=============================================================================
