------------------------------ MODULE OutputDir ------------------------------
(***************************************************************************)
(* The output directory of one afl-fuzz from session to session: the start *)
(* (fresh, or in place with "-i -"), the import of the queue, the files a  *)
(* running session writes, and a kill between any two changes of the disk. *)
(* A stop by the user is such a kill: handle_stop_sig() kills its group.   *)
(***************************************************************************)
EXTENDS Naturals, Sequences, FiniteSets, Functions

CONSTANTS Seeds,      \* the cases of the input directory, in order
          Found,      \* the cases the fuzzer may find
          MaxShuffled \* bound: queues longer than this are not shuffled

\* A queue directory: the files by their ids, each with its case (Empty before it
\* is written), the ids whose deterministic stages are done, and whether .state
\* exists.
Empty == "empty"
NoDir == [files |-> <<>>, det |-> {}, state |-> FALSE]

ASSUME CasesAssumption ==
  Len(Seeds) \in Nat /\ Empty \notin {Seeds[n] : n \in 1..Len(Seeds)} \union Found

NoStats == [cur_path |-> "none"]
Torn == [cur_path |-> "torn"]

VARIABLES phase,      \* where the process is; "off" when there is none
          in_place,   \* in_place_resume
          queue,      \* <out_dir>/queue
          resume,     \* <out_dir>/_resume
          stats,      \* <out_dir>/fuzzer_stats
          mem,        \* the queue in memory: [case, id, passed_det]
          k,          \* the entry at work (import, seek, fuzzing)
          resuming_fuzz,
          saved,      \* history: the cases the session has written
          finished,   \* history: those whose deterministic stages are marked done
          debris,     \* history: a kill or a start left what a resumption mistakes
          trusted     \* history: stats are of this session's queue, in its order

disk == <<queue, resume, stats>>
history == <<saved, finished, debris, trusted>>
vars == <<phase, in_place, disk, mem, k, resuming_fuzz, history>>

Cases(dir) == {dir.files[i] : i \in DOMAIN dir.files} \ {Empty}
DetCases(dir) == {dir.files[i] : i \in dir.det \intersect DOMAIN dir.files}
Exists(dir) == dir # NoDir
Remove(files, i) == [j \in DOMAIN files \ {i} |-> files[j]]
Put(files, i, case) ==
  [j \in DOMAIN files \union {i} |-> IF j = i THEN case ELSE files[j]]

Init ==
  /\ phase = "off" /\ in_place = FALSE
  /\ queue = NoDir /\ resume = NoDir /\ stats = NoStats
  /\ mem = <<>> /\ k = 0 /\ resuming_fuzz = FALSE
  /\ saved = {} /\ finished = {} /\ debris = FALSE /\ trusted = FALSE

-----------------------------------------------------------------------------
(* maybe_delete_out_dir(). *)

\* A fuzzer_stats that does not parse ends every start.
StartFails ==
  /\ phase = "off" /\ stats = Torn
  /\ phase' = "fatal" /\ in_place' \in BOOLEAN
  /\ UNCHANGED <<disk, mem, k, resuming_fuzz, history>>

\* A fresh session discards the old one (if that is not older than OUTPUT_GRACE).
StartFresh ==
  /\ phase = "off" /\ stats # Torn
  /\ phase' = "clear" /\ in_place' = FALSE
  /\ mem' = <<>> /\ k' = 0 /\ resuming_fuzz' = FALSE
  /\ saved' = {} /\ finished' = {} /\ trusted' = FALSE
  /\ debris' = Exists(resume)
  /\ UNCHANGED disk

\* (Mutant) the old queue is deleted as in a fresh session.
StartInPlaceDeletes ==
  /\ phase = "off" /\ stats # Torn
  /\ phase' = "clear" /\ in_place' = TRUE
  /\ mem' = <<>> /\ k' = 0 /\ resuming_fuzz' = FALSE
  /\ UNCHANGED <<disk, history>>

\* The old queue becomes _resume, unless that exists from an earlier abort.
StartInPlace ==
  /\ phase = "off" /\ stats # Torn
  /\ phase' = "clear" /\ in_place' = TRUE
  /\ mem' = <<>> /\ k' = 0 /\ resuming_fuzz' = FALSE
  /\ IF Exists(resume) THEN UNCHANGED <<queue, resume>>
                       ELSE resume' = queue /\ queue' = NoDir
  /\ UNCHANGED <<stats, history>>

\* What is left of the queue is deleted: the marks one by one, .state, the cases.
ClearMark == \E i \in queue.det :
  /\ phase = "clear"
  /\ queue' = [queue EXCEPT !.det = @ \ {i}]
  /\ UNCHANGED <<phase, in_place, resume, stats, mem, k, resuming_fuzz, history>>

ClearState ==
  /\ phase = "clear" /\ queue.state /\ queue.det = {}
  /\ queue' = [queue EXCEPT !.state = FALSE]
  /\ UNCHANGED <<phase, in_place, resume, stats, mem, k, resuming_fuzz, history>>

ClearCase == \E i \in DOMAIN queue.files :
  /\ phase = "clear" /\ ~queue.state
  /\ queue' = [queue EXCEPT !.files = Remove(@, i)]
  /\ UNCHANGED <<phase, in_place, resume, stats, mem, k, resuming_fuzz, history>>

\* fuzzer_stats stays when the session is resumed.
ClearStats ==
  /\ phase = "clear" /\ queue = NoDir
  /\ stats' = IF in_place THEN stats ELSE NoStats
  /\ phase' = "setup"
  /\ UNCHANGED <<in_place, queue, resume, mem, k, resuming_fuzz, history>>

SetupDirs ==
  /\ phase = "setup" /\ phase' = "read"
  /\ queue' = [NoDir EXCEPT !.state = TRUE]
  /\ UNCHANGED <<in_place, resume, stats, mem, k, resuming_fuzz, history>>

-----------------------------------------------------------------------------
(* read_testcases() and pivot_inputs(). *)

\* The ids of a directory's cases, in order: an empty file is no test case.
Ids(dir) ==
  LET full == {i \in DOMAIN dir.files : dir.files[i] # Empty}
  IN [n \in 1..Cardinality(full) |->
        CHOOSE i \in full : Cardinality({j \in full : j < i}) = n - 1]

\* (Mutant) what is done is not read from the old queue.
OldQueueForgets ==
  [n \in 1..Len(Ids(resume)) |->
     [case |-> resume.files[Ids(resume)[n]], id |-> Ids(resume)[n], passed_det |-> FALSE]]

OldQueue == [n \in 1..Len(Ids(resume)) |->
               [case |-> resume.files[Ids(resume)[n]], id |-> Ids(resume)[n],
                passed_det |-> Ids(resume)[n] \in resume.det]]

\* A file of the input directory has no id of its own yet.
NoId == 1000
NewQueue == [n \in 1..Len(Seeds) |-> [case |-> Seeds[n], id |-> NoId, passed_det |-> FALSE]]

\* shuffle_ptrs(): with AFL_SHUFFLE_QUEUE any order may come of it.
Shuffled(q) ==
  IF Len(q) > MaxShuffled THEN {}
  ELSE {[n \in 1..Len(q) |-> q[p[n]]] : p \in Bijection(1..Len(q), 1..Len(q))}

ReadTestcases ==
  LET sorted == IF in_place THEN OldQueue ELSE NewQueue
  IN \E read \in {sorted} \union Shuffled(sorted) :
       /\ phase = "read"
       /\ mem' = read /\ k' = 0
       /\ phase' = IF read = <<>> THEN "fatal" ELSE "pivot"
       /\ trusted' = (trusted /\ read = sorted)
       /\ UNCHANGED <<in_place, disk, resuming_fuzz, saved, finished, debris>>

\* Entry k gets a file in the new queue, under the id that is its position, and its
\* mark a moment later.  An id that matches says that this is a resumption.
PivotCase ==
  /\ phase = "pivot" /\ k < Len(mem)
  /\ queue' = [queue EXCEPT !.files = Put(@, k, mem[k + 1].case)]
  /\ resuming_fuzz' = (resuming_fuzz \/ mem[k + 1].id = k)
  /\ mem' = [mem EXCEPT ![k + 1].id = k]
  /\ IF mem[k + 1].passed_det THEN phase' = "pivot_mark" /\ k' = k
                              ELSE phase' = "pivot" /\ k' = k + 1
  /\ saved' = saved \union {mem[k + 1].case}
  /\ UNCHANGED <<in_place, resume, stats, finished, debris, trusted>>

PivotMark ==
  /\ phase = "pivot_mark" /\ phase' = "pivot" /\ k' = k + 1
  /\ queue' = [queue EXCEPT !.det = @ \union {k}]
  /\ UNCHANGED <<in_place, resume, stats, mem, resuming_fuzz, history>>

PivotDone ==
  /\ phase = "pivot" /\ k = Len(mem)
  /\ phase' = IF in_place THEN "nuke" ELSE "dry_run"
  /\ UNCHANGED <<in_place, disk, mem, k, resuming_fuzz, history>>

\* nuke_resume_dir(): the marks and .state, the cases in any order, the directory.
NukeMark == \E i \in resume.det :
  /\ phase = "nuke"
  /\ resume' = [resume EXCEPT !.det = @ \ {i}]
  /\ UNCHANGED <<phase, in_place, queue, stats, mem, k, resuming_fuzz, history>>

NukeState ==
  /\ phase = "nuke" /\ resume.state /\ resume.det = {}
  /\ resume' = [resume EXCEPT !.state = FALSE]
  /\ UNCHANGED <<phase, in_place, queue, stats, mem, k, resuming_fuzz, history>>

NukeCase == \E i \in DOMAIN resume.files :
  /\ phase = "nuke" /\ ~resume.state
  /\ resume' = [resume EXCEPT !.files = Remove(@, i)]
  /\ UNCHANGED <<phase, in_place, queue, stats, mem, k, resuming_fuzz, history>>

\* From here on the session is what was imported.
NukeDone ==
  /\ phase = "nuke" /\ resume = NoDir
  /\ phase' = "dry_run"
  /\ IF debris THEN /\ saved' = Cases(queue) /\ finished' = DetCases(queue)
                    /\ debris' = FALSE /\ trusted' = FALSE
               ELSE UNCHANGED history
  /\ UNCHANGED <<in_place, disk, mem, k, resuming_fuzz>>

-----------------------------------------------------------------------------
(* The session. *)

\* find_start_position(), then the walk to it at the first cycle.
find_start_position ==
  IF ~resuming_fuzz \/ ~in_place \/ stats = NoStats THEN 0
  ELSE IF stats.cur_path >= Len(mem) THEN 0 ELSE stats.cur_path

Seek ==
  /\ phase = "dry_run" /\ phase' = "begin"
  /\ k' = find_start_position
  /\ UNCHANGED <<in_place, disk, mem, resuming_fuzz, history>>

\* The first fuzzer_stats is written before the walk: it says entry 0.
FirstStats ==
  /\ phase = "begin" /\ phase' = "first_stats"
  /\ stats' = Torn
  /\ UNCHANGED <<in_place, queue, resume, mem, k, resuming_fuzz, history>>

\* Later ones from fuzz_one(), or from the calibration of a find.
TruncateStats ==
  /\ \/ phase = "run" /\ phase' = "stats"
     \/ phase = "found" /\ phase' = "found_stats"
  /\ stats' = Torn
  /\ UNCHANGED <<in_place, queue, resume, mem, k, resuming_fuzz, history>>

\* (Mutant) the entry after the current one is recorded.
WriteStatsNext ==
  /\ phase \in {"stats", "first_stats", "found_stats"}
  /\ phase' = IF phase = "found_stats" THEN "found" ELSE "run"
  /\ LET current_entry == IF phase = "first_stats" THEN 0 ELSE k
     IN stats' = [cur_path |-> current_entry + 1, case |-> mem[current_entry + 1].case]
  /\ trusted' = TRUE
  /\ UNCHANGED <<in_place, queue, resume, mem, k, resuming_fuzz, saved, finished, debris>>

WriteStats ==
  /\ phase \in {"stats", "first_stats", "found_stats"}
  /\ phase' = IF phase = "found_stats" THEN "found" ELSE "run"
  /\ LET current_entry == IF phase = "first_stats" THEN 0 ELSE k
     IN stats' = [cur_path |-> current_entry, case |-> mem[current_entry + 1].case]
  /\ trusted' = TRUE
  /\ UNCHANGED <<in_place, queue, resume, mem, k, resuming_fuzz, saved, finished, debris>>

\* (Mutant) the new entry is counted before its file is named.
AddToQueueAfterCount == \E c \in Found :
  /\ phase = "run" /\ \A n \in 1..Len(mem) : mem[n].case # c
  /\ mem' = Append(mem, [case |-> c, id |-> Len(mem) + 1, passed_det |-> FALSE])
  /\ phase' = "found"
  /\ UNCHANGED <<in_place, disk, k, resuming_fuzz, history>>

\* save_if_interesting(): the find is in the queue while it is calibrated.
AddToQueue == \E c \in Found :
  /\ phase = "run" /\ \A n \in 1..Len(mem) : mem[n].case # c
  /\ mem' = Append(mem, [case |-> c, id |-> Len(mem), passed_det |-> FALSE])
  /\ phase' = "found"
  /\ UNCHANGED <<in_place, disk, k, resuming_fuzz, history>>

\* Then its file is created, and written.
CreateCase ==
  /\ phase = "found" /\ phase' = "write"
  /\ queue' = [queue EXCEPT !.files = Put(@, mem[Len(mem)].id, Empty)]
  /\ UNCHANGED <<in_place, resume, stats, mem, k, resuming_fuzz, history>>

WriteCase ==
  LET new == mem[Len(mem)]
  IN /\ phase = "write" /\ phase' = "run"
     /\ queue' = [queue EXCEPT !.files = Put(@, new.id, new.case)]
     /\ saved' = saved \union {new.case}
     /\ UNCHANGED <<in_place, resume, stats, mem, k, resuming_fuzz,
                    finished, debris, trusted>>

\* fuzz_one() has done the deterministic stages of the entry.
MarkAsDetDone ==
  /\ phase = "run" /\ ~mem[k + 1].passed_det
  /\ mem' = [mem EXCEPT ![k + 1].passed_det = TRUE]
  /\ queue' = [queue EXCEPT !.det = @ \union {mem[k + 1].id}]
  /\ finished' = finished \union {mem[k + 1].case}
  /\ UNCHANGED <<phase, in_place, resume, stats, k, resuming_fuzz, saved, debris, trusted>>

\* trim_case() replaces the file of the entry: unlinked, created, written.
TrimUnlink ==
  /\ phase = "run" /\ phase' = "trim"
  /\ queue' = [queue EXCEPT !.files = Remove(@, mem[k + 1].id)]
  /\ UNCHANGED <<in_place, resume, stats, mem, k, resuming_fuzz, history>>

TrimCreate ==
  /\ phase = "trim" /\ phase' = "trim_write"
  /\ queue' = [queue EXCEPT !.files = Put(@, mem[k + 1].id, Empty)]
  /\ UNCHANGED <<in_place, resume, stats, mem, k, resuming_fuzz, history>>

TrimWrite ==
  /\ phase = "trim_write" /\ phase' = "run"
  /\ queue' = [queue EXCEPT !.files = Put(@, mem[k + 1].id, mem[k + 1].case)]
  /\ UNCHANGED <<in_place, resume, stats, mem, k, resuming_fuzz, history>>

NextEntry ==
  /\ phase = "run"
  /\ k' = (k + 1) % Len(mem)
  /\ UNCHANGED <<phase, in_place, disk, mem, resuming_fuzz, history>>

\* The process ends: killed between any two steps, or after a fatal error.  A case
\* that is off the disk to be trimmed, or a half-deleted _resume, stays so.
Kill ==
  /\ phase # "off" /\ phase' = "off"
  /\ mem' = <<>> /\ k' = 0 /\ resuming_fuzz' = FALSE
  /\ debris' = \/ debris
               \/ phase \in {"trim", "trim_write"}
               \/ /\ phase = "nuke" /\ Exists(resume)
                  /\ ~resume.state \/ DetCases(resume) # DetCases(queue)
  /\ UNCHANGED <<in_place, disk, saved, finished, trusted>>

\* The user deletes a fuzzer_stats that stops every start.
RemoveStats ==
  /\ phase = "off" /\ stats = Torn /\ stats' = NoStats
  /\ UNCHANGED <<phase, in_place, queue, resume, mem, k, resuming_fuzz, history>>

Session ==
  \/ StartFails \/ StartFresh \/ StartInPlace
  \/ ClearMark \/ ClearState \/ ClearCase \/ ClearStats \/ SetupDirs
  \/ ReadTestcases \/ PivotCase \/ PivotMark \/ PivotDone
  \/ NukeMark \/ NukeState \/ NukeCase \/ NukeDone
  \/ Seek \/ FirstStats \/ TruncateStats \/ WriteStats
  \/ AddToQueue \/ CreateCase \/ WriteCase \/ MarkAsDetDone
  \/ TrimUnlink \/ TrimCreate \/ TrimWrite \/ NextEntry

Next == Session \/ Kill \/ RemoveStats

Spec == Init /\ [][Next]_vars

-----------------------------------------------------------------------------
\* What the next resumption takes for the old queue.
NextImport == IF Exists(resume) THEN resume ELSE queue

\* A kill at any moment of a session, or of its resumption, loses no case that was
\* written, unless it hit the deletion of _resume or the rewriting of a trimmed
\* case, or a fresh session was started over a _resume.  Nor does a start find no
\* case: only torn statistics stop it.
CasesSurvive ==
  /\ phase = "off" /\ ~debris => saved \subseteq Cases(NextImport)
  /\ phase = "fatal" => stats = Torn \/ saved = {} \/ debris

\* Nor is it forgotten which cases are done with the deterministic stages.
MarksSurvive == phase = "off" /\ ~debris => finished \subseteq DetCases(NextImport)

\* In a running session the files are the queue in memory, in its order: new ids
\* are free, the marks those of memory, and the current entry is one of the queue,
\* however old the statistics it was found by.  A find that is being calibrated is
\* the one entry without a file, and never the current one.
DiskIsMemory ==
  LET filed == IF phase \in {"found", "found_stats"} THEN Len(mem) - 1 ELSE Len(mem)
  IN phase \in {"run", "stats", "first_stats", "found", "found_stats"} =>
       /\ queue.files = [i \in 0..filed - 1 |-> mem[i + 1].case]
       /\ queue.det = {i \in 0..filed - 1 : mem[i + 1].passed_det}
       /\ k < filed
       /\ resume = NoDir \/ debris

\* The position found is that of the case the statistics were written at, if no
\* resumption has shuffled the queue since.
SeekSameCase == [][
  (phase = "dry_run" /\ phase' = "begin" /\ in_place /\ trusted /\ ~debris /\ stats # NoStats)
    => mem[k' + 1].case = stats.case]_vars
=============================================================================
