-------------------------------- MODULE Sync --------------------------------
(***************************************************************************)
(* Instances of afl-fuzz under one sync_dir, a -X multicore pair or -M and *)
(* -S: each fuzzes, and now and then runs the cases of the others' queues  *)
(* (sync_fuzzers) that the files in its .synced say it has not seen.       *)
(***************************************************************************)
EXTENDS Naturals, Sequences, FiniteSetsExt

CONSTANTS Instances, Cases

Empty == "empty"

VARIABLES phase,      \* what an instance does
          queue,      \* its queue directory: the cases by id, Empty before written
          synced,     \* <out_dir>/.synced: the first id of each other not yet seen
          todo,       \* the directories of sync_dir still to be read
          scan        \* the one being read: whose, the ids to come, next_min_accept

vars == <<phase, queue, synced, todo, scan>>

NoScan == [party |-> "none", ids |-> {}, next_min_accept |-> 0, case |-> Empty]

Init ==
  /\ phase = [i \in Instances |-> "fuzz"]
  /\ queue = [i \in Instances |-> <<>>]
  /\ synced = [i \in Instances |-> [j \in Instances \ {i} |-> 0]]
  /\ todo = [i \in Instances |-> {}]
  /\ scan = [i \in Instances |-> NoScan]

Go(i, to) == phase' = [phase EXCEPT ![i] = to]

\* fuzz_one() keeps a case: save_if_interesting() creates its file and writes it.
Known(i, c) == c \in {queue[i][n] : n \in DOMAIN queue[i]}

Find(i) ==
  /\ phase[i] = "fuzz" /\ Go(i, "write")
  /\ \E c \in Cases : ~Known(i, c)
  /\ queue' = [queue EXCEPT ![i] = Append(@, Empty)]
  /\ UNCHANGED <<synced, todo, scan>>

Write(i) == \E c \in Cases :
  /\ phase[i] = "write" /\ ~Known(i, c) /\ Go(i, "fuzz")
  /\ queue' = [queue EXCEPT ![i][Len(queue[i])] = c]
  /\ UNCHANGED <<synced, todo, scan>>

-----------------------------------------------------------------------------
(* sync_fuzzers(). *)

Open(i) ==
  /\ phase[i] = "fuzz" /\ Go(i, "dirs")
  /\ todo' = [todo EXCEPT ![i] = Instances \ {i}]
  /\ UNCHANGED <<queue, synced, scan>>

OpenQueue(i) == \E j \in todo[i] :
  /\ phase[i] = "dirs" /\ Go(i, "files")
  /\ todo' = [todo EXCEPT ![i] = @ \ {j}]
  /\ LET min_accept == synced[i][j]
     IN scan' = [scan EXCEPT ![i] =
          [party |-> j, ids |-> {id \in 0..Len(queue[j]) - 1 : id >= min_accept},
           next_min_accept |-> min_accept, case |-> Empty]]
  /\ UNCHANGED <<queue, synced>>

\* The next file, in any order; an empty one is passed over, and counts as seen.
NextFile(i) == \E id \in scan[i].ids :
  LET found == queue[scan[i].party][id + 1]
  IN /\ phase[i] = "files"
     /\ scan' = [scan EXCEPT ![i].ids = @ \ {id},
                             ![i].next_min_accept = Max({@, id + 1}),
                             ![i].case = found]
     /\ Go(i, IF found = Empty THEN "files" ELSE "run")
     /\ UNCHANGED <<queue, synced, todo>>

Run(i) ==
  /\ phase[i] = "run" /\ Go(i, "ran")
  /\ UNCHANGED <<queue, synced, todo, scan>>

\* The condition is the function, not a call of it.
retry_to_fuzz == TRUE

RunAgain(i) ==
  /\ phase[i] = "ran" /\ retry_to_fuzz /\ Go(i, "run")
  /\ UNCHANGED <<queue, synced, todo, scan>>

\* save_if_interesting() keeps the case or finds nothing new in it.
Save(i) ==
  /\ phase[i] = "ran" /\ ~retry_to_fuzz /\ Go(i, "files")
  /\ \/ /\ ~Known(i, scan[i].case)
        /\ queue' = [queue EXCEPT ![i] = Append(@, scan[i].case)]
     \/ UNCHANGED queue
  /\ UNCHANGED <<synced, todo, scan>>

CloseQueue(i) ==
  /\ phase[i] = "files" /\ scan[i].ids = {} /\ Go(i, "dirs")
  /\ synced' = [synced EXCEPT ![i][scan[i].party] = scan[i].next_min_accept]
  /\ scan' = [scan EXCEPT ![i] = NoScan]
  /\ UNCHANGED <<queue, todo>>

Close(i) ==
  /\ phase[i] = "dirs" /\ todo[i] = {} /\ Go(i, "fuzz")
  /\ UNCHANGED <<queue, synced, todo, scan>>

Syncs(i) ==
  OpenQueue(i) \/ NextFile(i) \/ Run(i) \/ RunAgain(i) \/ Save(i) \/ CloseQueue(i) \/ Close(i)

Next == \E i \in Instances : Find(i) \/ Write(i) \/ Open(i) \/ Syncs(i)

Fairness == \A i \in Instances : WF_vars(Syncs(i)) /\ WF_vars(Write(i))

Spec == Init /\ [][Next]_vars /\ Fairness

-----------------------------------------------------------------------------
\* Each instance will also "periodically rescan the top-level sync directory for
\* any test cases found by other fuzzers - and will incorporate them into its own
\* fuzzing" (docs/parallel_fuzzing.txt): a scan that was begun ends, and the
\* instance goes back to its fuzzing.
BackToFuzzing == \A i \in Instances : phase[i] = "dirs" ~> phase[i] = "fuzz"
=============================================================================
