-------------------------- MODULE OutputDirProofs --------------------------
(***************************************************************************)
(* Proofs about OutputDir, for any cases: the disk of a running session is *)
(* its queue; a kill between any two steps, sessions and resumptions       *)
(* following each other, loses neither a case nor a mark, but for the      *)
(* moments that debris names; and a resumption goes on at the case the     *)
(* last session was at.                                                    *)
(***************************************************************************)
EXTENDS OutputDir, TLAPS, FiniteSetTheorems, SequenceTheorems

\* What the first n entries of a queue m are on disk.
Files(m, n) == [i \in 0..n - 1 |-> m[i + 1].case]
Det(m, n) == {i \in 0..n - 1 : m[i + 1].passed_det}
MemCases(m, n) == {m[i].case : i \in 1..n}
MemDone(m, n) == {m[i].case : i \in {l \in 1..n : m[l].passed_det}}

\* A directory holds finitely many cases.
Dir(dir) ==
  /\ DOMAIN dir = {"files", "det", "state"}
  /\ DOMAIN dir.files \in SUBSET Nat /\ IsFiniteSet(DOMAIN dir.files)

\* A queue in memory has no empty case.
Queue(m) ==
  /\ Len(m) \in Nat \ {0} /\ m = [n \in 1..Len(m) |-> m[n]]
  /\ \A n \in 1..Len(m) : /\ DOMAIN m[n] = {"case", "id", "passed_det"}
                          /\ m[n].case # Empty

Preparing == {"clear", "setup", "read"}
Pivoting == {"pivot", "pivot_mark"}
Imported == {"nuke", "dry_run"}
AtRest == {"begin", "first_stats", "run", "stats"}
Adding == {"found", "found_stats"}
Rewriting == Adding \union {"write", "trim", "trim_write"}
Running == {"dry_run"} \union AtRest \union Rewriting

\* The ids of the first n entries are their positions.
Named(n) == \A i \in 0..n - 1 : mem[i + 1].id = i

\* What each step of a start and of a session has on disk.
DiskInv ==
  /\ Dir(queue) /\ Dir(resume)
  /\ phase = "setup" => queue = NoDir
  /\ phase = "read" => queue = [NoDir EXCEPT !.state = TRUE]
  /\ phase \in Pivoting \union Imported \union AtRest \union Rewriting => Queue(mem)
  /\ phase = "pivot" => /\ k \in 0..Len(mem) /\ Named(k)
                        /\ queue.files = Files(mem, k) /\ queue.det = Det(mem, k)
  /\ phase = "pivot_mark" => /\ k \in 0..Len(mem) - 1 /\ Named(k + 1)
                             /\ mem[k + 1].passed_det
                             /\ queue.files = Files(mem, k + 1)
                             /\ queue.det = Det(mem, k)
  /\ phase \in Imported \union AtRest \union Rewriting =>
       Named(Len(mem)) /\ queue.det = Det(mem, Len(mem))
  /\ phase \in Imported \union AtRest => queue.files = Files(mem, Len(mem))
  /\ phase \in AtRest \union Rewriting => k \in 0..Len(mem) - 1
  /\ phase \in Adding \union {"write"} => k < Len(mem) - 1 /\ ~mem[Len(mem)].passed_det
  /\ phase \in Adding => queue.files = Files(mem, Len(mem) - 1)
  /\ phase = "write" =>
       queue.files = [i \in 0..Len(mem) - 1 |->
                        IF i = Len(mem) - 1 THEN Empty ELSE mem[i + 1].case]
  /\ phase = "trim" =>
       queue.files = [i \in (0..Len(mem) - 1) \ {k} |-> mem[i + 1].case]
  /\ phase = "trim_write" =>
       queue.files = [i \in 0..Len(mem) - 1 |->
                        IF i = k THEN Empty ELSE mem[i + 1].case]

\* Statistics are torn only while they are written; _resume is gone once it was read.
StartInv ==
  /\ stats \in {NoStats, Torn} \/ stats.cur_path \in Nat
  /\ phase \notin {"off", "fatal", "first_stats", "stats", "found_stats"} => stats # Torn
  /\ phase = "nuke" => in_place
  /\ phase \in Running \/ (~in_place /\ phase \in Preparing \union Pivoting) =>
       resume = NoDir \/ debris

\* Where the cases of the session are, step by step, and the marks.
Source == IF phase \in {"off", "fatal"} THEN NextImport ELSE resume

SavedInv ==
  ~debris =>
    /\ phase \in {"off", "fatal"} \/ (in_place /\ phase \in Preparing \union Pivoting)
         => saved \subseteq Cases(Source) /\ finished \subseteq DetCases(Source)
    /\ ~in_place /\ phase \in Preparing \union Pivoting => finished = {}
    /\ ~in_place /\ phase \in Preparing => saved = {}
    /\ ~in_place /\ phase = "pivot" => saved = MemCases(mem, k)
    /\ ~in_place /\ phase = "pivot_mark" => saved = MemCases(mem, k + 1)
    /\ in_place /\ phase \in Pivoting =>
         /\ MemCases(mem, Len(mem)) = Cases(resume)
         /\ MemDone(mem, Len(mem)) = DetCases(resume) \ {Empty}
    /\ phase = "nuke" /\ resume.state => saved \subseteq Cases(resume)
    /\ phase \in Imported \union AtRest \union Rewriting =>
         finished \subseteq MemDone(mem, Len(mem))
    /\ phase \in (Imported \union AtRest \union Rewriting) \ (Adding \union {"write"}) =>
         saved \subseteq MemCases(mem, Len(mem))
    /\ phase \in Adding \union {"write"} => saved \subseteq MemCases(mem, Len(mem) - 1)
    /\ phase = "fatal" => stats = Torn \/ saved = {}
    /\ Empty \notin saved \union finished

-----------------------------------------------------------------------------
(* Directories and queues.                                                  *)

LEMMA NoDirHolds ==
  /\ Dir(NoDir) /\ Dir([NoDir EXCEPT !.state = TRUE])
  /\ Cases(NoDir) = {} /\ DetCases(NoDir) = {}
<1>1. DOMAIN <<>> = {}
  OBVIOUS
<1>2. IsFiniteSet({})
  BY FS_EmptySet
<1> QED BY <1>1, <1>2 DEF Dir, NoDir, Cases, DetCases

LEMMA PutDir ==
  ASSUME NEW dir, Dir(dir), NEW i \in Nat, NEW case,
         NEW new, new = [dir EXCEPT !.files = Put(@, i, case)]
  PROVE  /\ Dir(new) /\ new.det = dir.det /\ new.state = dir.state
         /\ new.files = Put(dir.files, i, case)
<1>1. DOMAIN Put(dir.files, i, case) = DOMAIN dir.files \union {i}
  BY DEF Put
<1>2. IsFiniteSet(DOMAIN dir.files \union {i})
  BY FS_AddElement DEF Dir
<1> QED BY <1>1, <1>2 DEF Dir

LEMMA RemoveDir ==
  ASSUME NEW dir, Dir(dir), NEW i,
         NEW new, new = [dir EXCEPT !.files = Remove(@, i)]
  PROVE  /\ Dir(new) /\ new.det = dir.det /\ new.state = dir.state
         /\ new.files = Remove(dir.files, i)
<1>1. DOMAIN Remove(dir.files, i) = DOMAIN dir.files \ {i}
  BY DEF Remove
<1>2. IsFiniteSet(DOMAIN dir.files \ {i})
  BY FS_RemoveElement DEF Dir
<1> QED BY <1>1, <1>2 DEF Dir

LEMMA MarkDir ==
  ASSUME NEW dir, Dir(dir), NEW marks, NEW new, new = [dir EXCEPT !.det = marks]
  PROVE  /\ Dir(new) /\ new.det = marks /\ new.state = dir.state
         /\ new.files = dir.files
BY DEF Dir

LEMMA StateDir ==
  ASSUME NEW dir, Dir(dir), NEW new, new = [dir EXCEPT !.state = FALSE]
  PROVE  /\ Dir(new) /\ new.det = dir.det /\ new.files = dir.files /\ new.state = FALSE
BY DEF Dir

\* One file more is one entry more.
LEMMA FilesPut ==
  ASSUME NEW m, NEW n \in Nat
  PROVE  Put(Files(m, n), n, m[n + 1].case) = Files(m, n + 1)
<1>1. DOMAIN Files(m, n) = 0..n - 1
  BY DEF Files
<1>2. (0..n - 1) \union {n} = 0..n
  OBVIOUS
<1>3. \A i \in 0..n : (IF i = n THEN m[n + 1].case ELSE Files(m, n)[i]) = m[i + 1].case
  BY DEF Files
<1>4. Put(Files(m, n), n, m[n + 1].case)
        = [i \in 0..n |-> IF i = n THEN m[n + 1].case ELSE Files(m, n)[i]]
  BY <1>1, <1>2 DEF Put
<1>5. @ = [i \in 0..n |-> m[i + 1].case]
  BY <1>3
<1>6. Files(m, n + 1) = [i \in 0..n |-> m[i + 1].case]
  <2>1. n + 1 - 1 = n
    OBVIOUS
  <2> QED BY <2>1 DEF Files
<1> QED BY <1>4, <1>5, <1>6

LEMMA DetPut ==
  ASSUME NEW m, NEW n \in Nat
  PROVE  /\ m[n + 1].passed_det => Det(m, n + 1) = Det(m, n) \union {n}
         /\ ~m[n + 1].passed_det => Det(m, n + 1) = Det(m, n)
BY DEF Det

\* What an entry's other fields are does not show.
LEMMA FilesAgree ==
  ASSUME NEW m, NEW l, NEW n \in Nat,
         \A i \in 1..n : m[i].case = l[i].case /\ m[i].passed_det = l[i].passed_det
  PROVE  Files(m, n) = Files(l, n) /\ Det(m, n) = Det(l, n)
<1>1. \A i \in 0..n - 1 : i + 1 \in 1..n
  OBVIOUS
<1> QED BY <1>1 DEF Files, Det

\* Naming an entry, and marking it, changes nothing else of a queue.
LEMMA NameQueue ==
  ASSUME NEW m, Queue(m), NEW n \in 1..Len(m), NEW id,
         NEW l, l = [m EXCEPT ![n].id = id]
  PROVE  /\ Queue(l) /\ Len(l) = Len(m) /\ l[n].id = id
         /\ \A i \in 1..Len(m) : /\ l[i].case = m[i].case
                                 /\ l[i].passed_det = m[i].passed_det
                                 /\ i # n => l[i] = m[i]
<1>1. DOMAIN l = 1..Len(m) /\ Len(m) \in Nat
  BY DEF Queue
<1>2. Len(l) = Len(m)
  BY <1>1
<1>3. \A i \in 1..Len(m) : i # n => l[i] = m[i]
  BY DEF Queue
<1>4. l[n] = [m[n] EXCEPT !.id = id]
  BY DEF Queue
<1>5. /\ DOMAIN l[n] = {"case", "id", "passed_det"} /\ l[n].id = id
      /\ l[n].case = m[n].case /\ l[n].passed_det = m[n].passed_det
  BY <1>4 DEF Queue
<1>6. l = [i \in 1..Len(l) |-> l[i]]
  BY <1>1, <1>2
<1>7. Queue(l)
  BY <1>1, <1>2, <1>3, <1>5, <1>6 DEF Queue
<1> QED BY <1>2, <1>3, <1>5, <1>7

LEMMA MarkQueue ==
  ASSUME NEW m, Queue(m), NEW n \in 1..Len(m),
         NEW l, l = [m EXCEPT ![n].passed_det = TRUE]
  PROVE  /\ Queue(l) /\ Len(l) = Len(m) /\ l[n].passed_det = TRUE
         /\ \A i \in 1..Len(m) : /\ l[i].case = m[i].case /\ l[i].id = m[i].id
                                 /\ i # n => l[i] = m[i]
<1>1. DOMAIN l = 1..Len(m) /\ Len(m) \in Nat
  BY DEF Queue
<1>2. Len(l) = Len(m)
  BY <1>1
<1>3. \A i \in 1..Len(m) : i # n => l[i] = m[i]
  BY DEF Queue
<1>4. l[n] = [m[n] EXCEPT !.passed_det = TRUE]
  BY DEF Queue
<1>5. /\ DOMAIN l[n] = {"case", "id", "passed_det"} /\ l[n].id = m[n].id
      /\ l[n].case = m[n].case /\ l[n].passed_det = TRUE
  BY <1>4 DEF Queue
<1>6. l = [i \in 1..Len(l) |-> l[i]]
  BY <1>1, <1>2
<1>7. Queue(l)
  BY <1>1, <1>2, <1>3, <1>5, <1>6 DEF Queue
<1> QED BY <1>2, <1>3, <1>5, <1>7

LEMMA AppendQueue ==
  ASSUME NEW m, Queue(m), NEW case, case # Empty, NEW id
  PROVE  LET new == [case |-> case, id |-> id, passed_det |-> FALSE]
             l == Append(m, new)
         IN /\ Queue(l) /\ Len(l) = Len(m) + 1 /\ l[Len(m) + 1] = new
            /\ \A i \in 1..Len(m) : l[i] = m[i]
<1> DEFINE new == [case |-> case, id |-> id, passed_det |-> FALSE]
           S == {m[i] : i \in 1..Len(m)} \union {new}
           l == Append(m, new)
<1>1. m \in Seq(S) /\ new \in S
  <2>1. m \in [1..Len(m) -> S]
    BY DEF Queue
  <2> QED BY <2>1 DEF Queue
<1> HIDE DEF new, S
<1>2. /\ l \in Seq(S) /\ Len(l) = Len(m) + 1 /\ l[Len(m) + 1] = new
      /\ \A i \in 1..Len(m) : l[i] = m[i]
  BY <1>1, AppendProperties
<1> HIDE DEF l
<1>3. \A i \in 1..Len(l) : DOMAIN l[i] = {"case", "id", "passed_det"} /\ l[i].case # Empty
  BY <1>2 DEF Queue, new
<1>4. l = [i \in 1..Len(l) |-> l[i]]
  BY <1>2
<1>5. Queue(l)
  BY <1>2, <1>3, <1>4 DEF Queue
<1> QED BY <1>2, <1>5 DEF l, new

-----------------------------------------------------------------------------
(* Reading a directory in the order of its ids.                             *)

Below(S, i) == {j \in S : j < i}

LEMMA BelowGrows ==
  ASSUME NEW S \in SUBSET Nat, IsFiniteSet(S), NEW i \in S
  PROVE  /\ Cardinality(Below(S, i)) \in 0..Cardinality(S) - 1
         /\ \A l \in S : i < l => Cardinality(Below(S, i)) < Cardinality(Below(S, l))
<1>1. ASSUME NEW T \in SUBSET S
      PROVE  IsFiniteSet(T) /\ Cardinality(T) \in Nat
  BY FS_Subset, FS_CardinalityType
<1>2. Cardinality(Below(S, i) \union {i}) = Cardinality(Below(S, i)) + 1
  <2>1. i \notin Below(S, i) /\ Below(S, i) \in SUBSET S
    BY DEF Below
  <2> QED BY <1>1, <2>1, FS_AddElement
<1>3. Cardinality(Below(S, i)) + 1 <= Cardinality(S)
  <2>1. Below(S, i) \union {i} \in SUBSET S
    BY DEF Below
  <2> QED BY <1>2, <2>1, FS_Subset
<1>4. ASSUME NEW l \in S, i < l
      PROVE  Cardinality(Below(S, i)) < Cardinality(Below(S, l))
  <2>1. Below(S, i) \union {i} \in SUBSET Below(S, l) /\ Below(S, l) \in SUBSET S
        /\ Below(S, i) \in SUBSET S
    <3>1. \A j \in S : j < i => j < l
      BY <1>4
    <3> QED BY <1>4, <3>1 DEF Below
  <2>2. Cardinality(Below(S, i) \union {i}) <= Cardinality(Below(S, l))
    BY <1>1, <2>1, FS_Subset
  <2>3. Cardinality(Below(S, i)) \in Nat /\ Cardinality(Below(S, l)) \in Nat
    BY <1>1, <2>1
  <2> QED BY <1>2, <2>2, <2>3
<1>5. Cardinality(Below(S, i)) \in Nat /\ Cardinality(S) \in Nat
  <2>1. Below(S, i) \in SUBSET S
    BY DEF Below
  <2> QED BY <1>1, <2>1
<1> QED BY <1>3, <1>4, <1>5

\* Each number up to the size of the set has just one element with so many below it.
LEMMA Ranked ==
  ASSUME NEW S \in SUBSET Nat, IsFiniteSet(S), NEW n \in 1..Cardinality(S)
  PROVE  \E i \in S : Cardinality(Below(S, i)) = n - 1
<1> DEFINE T == 0..Cardinality(S) - 1
           rank == [i \in S |-> Cardinality(Below(S, i))]
<1>1. Cardinality(S) \in Nat
  BY FS_CardinalityType
<1>2. IsFiniteSet(T) /\ Cardinality(T) = Cardinality(S)
  <2>1. 0 \in Int /\ Cardinality(S) - 1 \in Int
    BY <1>1
  <2> QED BY <1>1, <2>1, FS_Interval
<1>3. rank \in [S -> T]
  BY BelowGrows
<1>4. ASSUME NEW i \in S, NEW l \in S, rank[i] = rank[l] PROVE i = l
  <2>1. /\ i < l => Cardinality(Below(S, i)) < Cardinality(Below(S, l))
        /\ l < i => Cardinality(Below(S, l)) < Cardinality(Below(S, i))
    BY BelowGrows
  <2>2. Cardinality(Below(S, i)) \in Int /\ Cardinality(Below(S, l)) \in Int
    BY BelowGrows, <1>1
  <2> QED BY <1>4, <2>1, <2>2
<1>5. rank \in Injection(S, T)
  BY <1>3, <1>4 DEF Injection, IsInjective
<1>6. rank \in Surjection(S, T)
  BY <1>2, <1>5, FS_Injection, Zenon
<1>7. n - 1 \in T
  BY <1>1
<1> QED BY <1>6, <1>7 DEF Surjection

LEMMA IdsEnumerate ==
  ASSUME NEW dir, Dir(dir)
  PROVE  LET Full == {i \in DOMAIN dir.files : dir.files[i] # Empty}
         IN /\ Len(Ids(dir)) \in Nat
            /\ \A n \in 1..Len(Ids(dir)) : Ids(dir)[n] \in Full
            /\ \A i \in Full : \E n \in 1..Len(Ids(dir)) : Ids(dir)[n] = i
<1> DEFINE Full == {i \in DOMAIN dir.files : dir.files[i] # Empty}
<1>1. Full \in SUBSET Nat /\ IsFiniteSet(Full)
  BY FS_Subset DEF Dir
<1>2. Cardinality(Full) \in Nat
  BY <1>1, FS_CardinalityType
<1>3. Ids(dir) = [n \in 1..Cardinality(Full) |->
                     CHOOSE i \in Full : Cardinality(Below(Full, i)) = n - 1]
  BY DEF Ids, Below
<1> HIDE DEF Full
<1>4. Len(Ids(dir)) = Cardinality(Full)
  BY <1>2, <1>3
<1>5. ASSUME NEW n \in 1..Cardinality(Full)
      PROVE  Ids(dir)[n] \in Full /\ Cardinality(Below(Full, Ids(dir)[n])) = n - 1
  <2>1. \E i \in Full : Cardinality(Below(Full, i)) = n - 1
    BY <1>1, Ranked
  <2> QED BY <1>3, <2>1
<1>6. ASSUME NEW i \in Full
      PROVE  \E n \in 1..Cardinality(Full) : Ids(dir)[n] = i
  <2>1. Cardinality(Below(Full, i)) \in 0..Cardinality(Full) - 1
    BY <1>1, BelowGrows
  <2>2. PICK n \in 1..Cardinality(Full) : n = Cardinality(Below(Full, i)) + 1
    BY <1>2, <2>1
  <2>3. PICK l \in Full : l = Ids(dir)[n] /\ Cardinality(Below(Full, l)) = n - 1
    BY <1>5
  <2>4. Cardinality(Below(Full, l)) = Cardinality(Below(Full, i))
    BY <2>1, <2>2, <2>3
  <2>5. /\ i < l => Cardinality(Below(Full, i)) < Cardinality(Below(Full, l))
        /\ l < i => Cardinality(Below(Full, l)) < Cardinality(Below(Full, i))
    BY <1>1, BelowGrows
  <2>6. i = l
    BY <1>1, <2>1, <2>4, <2>5
  <2> QED BY <2>3, <2>6
<1> QED BY <1>2, <1>4, <1>5, <1>6 DEF Full

-----------------------------------------------------------------------------
(* The disk, step by step.                                                  *)

LEMMA InitDisk == ASSUME Init PROVE DiskInv
BY NoDirHolds DEF Init, DiskInv, Pivoting, Imported, AtRest, Rewriting, Adding

LEMMA StartDisk ==
  ASSUME DiskInv, StartFails \/ StartFresh \/ StartInPlace PROVE DiskInv'
<1> USE DEF DiskInv, Pivoting, Imported, AtRest, Rewriting, Adding, Dir, disk
<1>1. CASE StartFails
  BY <1>1 DEF StartFails
<1>2. CASE StartFresh
  BY <1>2 DEF StartFresh
<1>3. CASE StartInPlace
  <2>1. Dir(queue)' /\ Dir(resume)'
    <3> HIDE DEF Dir
    <3> QED BY <1>3, NoDirHolds DEF StartInPlace
  <2> QED BY <1>3, <2>1 DEF StartInPlace
<1> QED BY <1>1, <1>2, <1>3

LEMMA ClearDisk ==
  ASSUME DiskInv, ClearMark \/ ClearState \/ ClearCase \/ ClearStats \/ SetupDirs
  PROVE  DiskInv'
<1> USE DEF DiskInv, Pivoting, Imported, AtRest, Rewriting, Adding
<1>1. CASE ClearMark
  BY <1>1, MarkDir DEF ClearMark
<1>2. CASE ClearState
  BY <1>2, StateDir DEF ClearState
<1>3. CASE ClearCase
  BY <1>3, RemoveDir DEF ClearCase
<1>4. CASE ClearStats
  BY <1>4 DEF ClearStats
<1>5. CASE SetupDirs
  BY <1>5, NoDirHolds DEF SetupDirs
<1> QED BY <1>1, <1>2, <1>3, <1>4, <1>5

\* A queue that is read has a case in each entry, and no file of its own yet.
LEMMA ReadQueue ==
  ASSUME DiskInv, phase = "read",
         NEW read \in {OldQueue, NewQueue}, read # <<>>
  PROVE  Queue(read)
<1>1. CASE read = OldQueue
  <2> DEFINE N == Len(Ids(resume))
  <2>1. N \in Nat /\ \A n \in 1..N : resume.files[Ids(resume)[n]] # Empty
    BY IdsEnumerate DEF DiskInv
  <2>2. /\ read = [n \in 1..N |->
                    [case |-> resume.files[Ids(resume)[n]], id |-> Ids(resume)[n],
                     passed_det |-> Ids(resume)[n] \in resume.det]]
    BY <1>1 DEF OldQueue
  <2> HIDE DEF N
  <2>3. Len(read) = N /\ read = [n \in 1..N |-> read[n]]
    BY <2>1, <2>2
  <2>4. \A n \in 1..N : /\ DOMAIN read[n] = {"case", "id", "passed_det"}
                        /\ read[n].case = resume.files[Ids(resume)[n]]
    BY <2>2
  <2>5. N # 0
    BY <2>2
  <2> QED BY <2>1, <2>3, <2>4, <2>5 DEF Queue
<1>2. CASE read = NewQueue
  <2> DEFINE N == Len(Seeds)
  <2>1. N \in Nat /\ \A n \in 1..N : Seeds[n] # Empty
    BY CasesAssumption
  <2>2. read = [n \in 1..N |-> [case |-> Seeds[n], id |-> NoId, passed_det |-> FALSE]]
    BY <1>2 DEF NewQueue
  <2> HIDE DEF N
  <2>3. Len(read) = N /\ read = [n \in 1..N |-> read[n]]
    BY <2>1, <2>2
  <2>4. \A n \in 1..N : /\ DOMAIN read[n] = {"case", "id", "passed_det"}
                        /\ read[n].case = Seeds[n]
    BY <2>2
  <2>5. N # 0
    BY <2>2
  <2> QED BY <2>1, <2>3, <2>4, <2>5 DEF Queue
<1> QED BY <1>1, <1>2

\* Shuffling a queue changes neither its length nor what is in it.
LEMMA ShuffledSame ==
  ASSUME NEW q, NEW read \in {q} \union Shuffled(q),
         Len(q) \in Nat, q = [n \in 1..Len(q) |-> q[n]]
  PROVE  /\ Len(read) = Len(q) /\ read = [n \in 1..Len(read) |-> read[n]]
         /\ \A n \in 1..Len(q) : \E i \in 1..Len(q) : read[n] = q[i]
         /\ \A i \in 1..Len(q) : \E n \in 1..Len(q) : read[n] = q[i]
<1>1. CASE read = q
  BY <1>1
<1>2. CASE read \in Shuffled(q)
  <2> DEFINE N == Len(q)
  <2>1. PICK p \in Bijection(1..N, 1..N) : read = [n \in 1..N |-> q[p[n]]]
    BY <1>2 DEF Shuffled
  <2>2. /\ \A n \in 1..N : p[n] \in 1..N
        /\ \A i \in 1..N : \E n \in 1..N : p[n] = i
    BY <2>1 DEF Bijection, Injection, Surjection
  <2> HIDE DEF N
  <2>3. Len(read) = N
    BY <2>1 DEF N
  <2> QED BY <2>1, <2>2, <2>3 DEF N
<1> QED BY <1>1, <1>2

LEMMA ShuffledQueue ==
  ASSUME NEW q, Queue(q), NEW read \in {q} \union Shuffled(q) PROVE Queue(read)
<1>1. Len(q) \in Nat \ {0} /\ q = [n \in 1..Len(q) |-> q[n]]
  BY DEF Queue
<1>2. Len(read) = Len(q) /\ read = [n \in 1..Len(read) |-> read[n]]
  BY <1>1, ShuffledSame
<1>3. \A n \in 1..Len(q) : \E i \in 1..Len(q) : read[n] = q[i]
  BY <1>1, ShuffledSame
<1> QED BY <1>1, <1>2, <1>3 DEF Queue

\* An empty queue stays empty, and one that is not does not become so.
LEMMA ShuffledEmpty ==
  ASSUME NEW q, Len(q) \in Nat, q = [n \in 1..Len(q) |-> q[n]],
         NEW read \in {q} \union Shuffled(q)
  PROVE  read = <<>> <=> q = <<>>
<1>1. Len(read) = Len(q) /\ read = [n \in 1..Len(read) |-> read[n]]
  BY ShuffledSame
<1> QED BY <1>1

\* What is read before any shuffling is a sequence.
LEMMA SortedQueue ==
  ASSUME DiskInv, NEW q \in {OldQueue, NewQueue}
  PROVE  Len(q) \in Nat /\ q = [n \in 1..Len(q) |-> q[n]]
<1>1. CASE q = OldQueue
  <2> DEFINE N == Len(Ids(resume))
  <2>1. N \in Nat
    BY IdsEnumerate DEF DiskInv
  <2>2. q = [n \in 1..N |->
               [case |-> resume.files[Ids(resume)[n]], id |-> Ids(resume)[n],
                passed_det |-> Ids(resume)[n] \in resume.det]]
    BY <1>1 DEF OldQueue
  <2> HIDE DEF N
  <2> QED BY <2>1, <2>2
<1>2. CASE q = NewQueue
  BY <1>2, CasesAssumption DEF NewQueue
<1> QED BY <1>1, <1>2

LEMMA ReadDisk == ASSUME DiskInv, ReadTestcases PROVE DiskInv'
<1> DEFINE sorted == IF in_place THEN OldQueue ELSE NewQueue
<1>0. PICK read \in {sorted} \union Shuffled(sorted) :
        /\ phase = "read" /\ mem' = read /\ k' = 0
        /\ phase' = IF read = <<>> THEN "fatal" ELSE "pivot"
  BY DEF ReadTestcases
<1>1. /\ phase = "read" /\ mem' = read /\ k' = 0
      /\ phase' = IF read = <<>> THEN "fatal" ELSE "pivot"
      /\ UNCHANGED <<queue, resume>>
  BY <1>0 DEF ReadTestcases, disk
<1>2. sorted \in {OldQueue, NewQueue}
  OBVIOUS
<1> HIDE DEF sorted
<1>3. Dir(queue)' /\ Dir(resume)'
  BY <1>1 DEF DiskInv, Dir
<1>4. CASE read = <<>>
  BY <1>1, <1>3, <1>4 DEF DiskInv, Pivoting, Imported, AtRest, Rewriting, Adding
<1>5. CASE read # <<>>
  <2>1. Queue(read)
    <3>1. sorted # <<>>
      BY <1>2, <1>5, SortedQueue, ShuffledEmpty
    <3> QED BY <1>1, <1>2, <3>1, ReadQueue, ShuffledQueue
  <2>2. queue.files = <<>> /\ queue.det = {}
    BY <1>1 DEF DiskInv, NoDir
  <2>3. Files(read, 0) = <<>> /\ Det(read, 0) = {}
    <3>1. 0..0 - 1 = {}
      OBVIOUS
    <3> QED BY <3>1 DEF Files, Det
  <2>4. Queue(mem)' /\ phase' = "pivot" /\ k' = 0 /\ Len(mem') \in Nat
    BY <1>1, <1>5, <2>1 DEF Queue
  <2>5. queue'.files = Files(mem', k') /\ queue'.det = Det(mem', k') /\ Named(k)'
    BY <1>1, <2>2, <2>3, <2>4 DEF Named
  <2> QED BY <1>3, <2>4, <2>5 DEF DiskInv, Pivoting, Imported, AtRest, Rewriting, Adding
<1> QED BY <1>4, <1>5

LEMMA PivotNames ==
  ASSUME DiskInv, PivotCase
  PROVE  /\ Queue(mem') /\ Len(mem') = Len(mem) /\ mem'[k + 1].id = k
         /\ \A i \in 1..Len(mem) : /\ mem'[i].case = mem[i].case
                                   /\ mem'[i].passed_det = mem[i].passed_det
                                   /\ i # k + 1 => mem'[i] = mem[i]
<1>1. mem' = [mem EXCEPT ![k + 1].id = k]
  BY DEF PivotCase
<1>2. Queue(mem) /\ k + 1 \in 1..Len(mem)
  BY DEF PivotCase, DiskInv, Pivoting, Queue
<1>3. Queue(mem')
  BY <1>1, <1>2, NameQueue
<1>4. Len(mem') = Len(mem)
  BY <1>1, <1>2, NameQueue
<1>5. mem'[k + 1].id = k
  BY <1>1, <1>2, NameQueue
<1>6. \A i \in 1..Len(mem) : mem'[i].case = mem[i].case
  BY <1>1, <1>2, NameQueue
<1>7. \A i \in 1..Len(mem) : mem'[i].passed_det = mem[i].passed_det
  BY <1>1, <1>2, NameQueue
<1>8. \A i \in 1..Len(mem) : i # k + 1 => mem'[i] = mem[i]
  BY <1>1, <1>2, NameQueue
<1> QED BY <1>3, <1>4, <1>5, <1>6, <1>7, <1>8

LEMMA PivotDisk ==
  ASSUME DiskInv, PivotCase \/ PivotMark \/ PivotDone PROVE DiskInv'
<1> USE DEF Pivoting, Imported, AtRest, Rewriting, Adding
<1>1. CASE PivotCase
  <2>1. /\ phase = "pivot" /\ k < Len(mem)
        /\ IF mem[k + 1].passed_det THEN phase' = "pivot_mark" /\ k' = k
                                    ELSE phase' = "pivot" /\ k' = k + 1
    BY <1>1 DEF PivotCase
  <2>2. /\ queue' = [queue EXCEPT !.files = Put(@, k, mem[k + 1].case)]
        /\ resume' = resume
    BY <1>1 DEF PivotCase
  <2>4. Queue(mem) /\ k \in 0..Len(mem) /\ Named(k)
    BY <2>1 DEF DiskInv
  <2>5. /\ queue.files = Files(mem, k) /\ queue.det = Det(mem, k)
        /\ Dir(queue) /\ Dir(resume)
    BY <2>1 DEF DiskInv
  <2>6. k \in Nat /\ k + 1 \in 1..Len(mem) /\ Len(mem) \in Nat
    BY <2>1, <2>4 DEF Queue
  <2>7. /\ Queue(mem') /\ Len(mem') = Len(mem) /\ mem'[k + 1].id = k
        /\ \A i \in 1..Len(mem) : /\ mem'[i].case = mem[i].case
                                  /\ mem'[i].passed_det = mem[i].passed_det
                                  /\ i # k + 1 => mem'[i] = mem[i]
    BY <1>1, PivotNames
  <2>8. Dir(queue') /\ queue'.det = Det(mem, k) /\ queue'.files = Files(mem, k + 1)
    <3>1. /\ Dir(queue') /\ queue'.det = queue.det
          /\ queue'.files = Put(queue.files, k, mem[k + 1].case)
      BY <2>2, <2>5, <2>6, PutDir
    <3>2. Put(Files(mem, k), k, mem[k + 1].case) = Files(mem, k + 1)
      BY <2>6, FilesPut
    <3> QED BY <2>5, <3>1, <3>2
  <2>9. /\ Files(mem', k + 1) = Files(mem, k + 1)
        /\ Det(mem', k) = Det(mem, k) /\ Det(mem', k + 1) = Det(mem, k + 1)
    <3>1. \A i \in 1..k + 1 : /\ mem'[i].case = mem[i].case
                              /\ mem'[i].passed_det = mem[i].passed_det
      BY <2>6, <2>7
    <3>2. \A i \in 1..k : /\ mem'[i].case = mem[i].case
                          /\ mem'[i].passed_det = mem[i].passed_det
      BY <2>6, <3>1
    <3> QED BY <2>6, <3>1, <3>2, FilesAgree
  <2>10. ASSUME NEW i \in 0..k PROVE mem'[i + 1].id = i
    <3>1. i + 1 \in 1..Len(mem)
      BY <2>6
    <3>2. i # k => mem[i + 1].id = i
      BY <2>4, <2>6 DEF Named
    <3> QED BY <2>6, <2>7, <3>1, <3>2
  <2>11. CASE mem[k + 1].passed_det
    <3>1. phase' = "pivot_mark" /\ k' = k /\ mem'[k + 1].passed_det
      BY <2>1, <2>6, <2>7, <2>11
    <3>2. Named(k + 1)'
      BY <2>6, <2>10, <3>1 DEF Named
    <3>3. k' \in 0..Len(mem') - 1 /\ Dir(resume')
      BY <2>2, <2>5, <2>6, <2>7, <3>1
    <3> QED BY <2>7, <2>8, <2>9, <3>1, <3>2, <3>3 DEF DiskInv
  <2>12. CASE ~mem[k + 1].passed_det
    <3>1. phase' = "pivot" /\ k' = k + 1
      BY <2>1, <2>12
    <3>2. Named(k)'
      BY <2>6, <2>10, <3>1 DEF Named
    <3>3. Det(mem, k + 1) = Det(mem, k)
      BY <2>6, <2>12, DetPut
    <3>4. k' \in 0..Len(mem') /\ Dir(resume')
      BY <2>2, <2>5, <2>6, <2>7, <3>1
    <3> QED BY <2>7, <2>8, <2>9, <3>1, <3>2, <3>3, <3>4 DEF DiskInv
  <2> QED BY <2>11, <2>12
<1>2. CASE PivotMark
  <2>1. /\ phase = "pivot_mark" /\ phase' = "pivot" /\ k' = k + 1
        /\ mem' = mem /\ resume' = resume
    BY <1>2 DEF PivotMark
  <2>2. queue' = [queue EXCEPT !.det = @ \union {k}]
    BY <1>2 DEF PivotMark
  <2>3. Queue(mem) /\ k \in 0..Len(mem) - 1 /\ Named(k + 1) /\ mem[k + 1].passed_det
    BY <2>1 DEF DiskInv
  <2>4. /\ queue.files = Files(mem, k + 1) /\ queue.det = Det(mem, k)
        /\ Dir(queue) /\ Dir(resume)
    BY <2>1 DEF DiskInv
  <2>5. Dir(queue') /\ queue'.files = queue.files /\ queue'.det = queue.det \union {k}
    BY <2>2, <2>4, MarkDir
  <2>6. Det(mem, k + 1) = Det(mem, k) \union {k}
    BY <2>3, DetPut
  <2>7. Named(k)' /\ k' \in 0..Len(mem')
    BY <2>1, <2>3 DEF Named, Queue
  <2> QED BY <2>1, <2>3, <2>4, <2>5, <2>6, <2>7 DEF DiskInv
<1>3. CASE PivotDone
  BY <1>3 DEF PivotDone, DiskInv, disk, Named, Dir
<1> QED BY <1>1, <1>2, <1>3

LEMMA NukeDisk ==
  ASSUME DiskInv, NukeMark \/ NukeState \/ NukeCase \/ NukeDone PROVE DiskInv'
<1>1. phase = "nuke" /\ phase' \in Imported /\ UNCHANGED <<queue, mem, k>>
  BY DEF NukeMark, NukeState, NukeCase, NukeDone, disk, Imported
<1>2. Dir(resume)'
  <2>1. Dir(resume)
    BY DEF DiskInv
  <2>2. CASE NukeMark
    BY <2>1, <2>2, MarkDir DEF NukeMark
  <2>3. CASE NukeState
    BY <2>1, <2>3, StateDir DEF NukeState
  <2>4. CASE NukeCase
    BY <2>1, <2>4, RemoveDir DEF NukeCase
  <2>5. CASE NukeDone
    BY <2>1, <2>5 DEF NukeDone, disk
  <2> QED BY <2>2, <2>3, <2>4, <2>5
<1> QED BY <1>1, <1>2 DEF DiskInv, Dir, Named, Pivoting, Imported, AtRest, Rewriting, Adding

LEMMA SessionDisk ==
  ASSUME DiskInv, StartInv,
         Seek \/ FirstStats \/ TruncateStats \/ WriteStats \/ NextEntry
  PROVE  DiskInv'
<1> USE DEF Pivoting, Imported, AtRest, Rewriting, Adding
<1>1. /\ \/ phase \in {"dry_run"} \union AtRest /\ phase' \in AtRest
         \/ phase \in Adding /\ phase' \in Adding
      /\ UNCHANGED <<queue, resume, mem>>
  BY DEF Seek, FirstStats, TruncateStats, WriteStats, NextEntry, disk
<1>2. Queue(mem) /\ Len(mem) \in Nat \ {0}
  BY <1>1 DEF DiskInv, Queue
<1>3. k' \in 0..Len(mem) - 1
  <2>1. CASE Seek
    <3>1. phase = "dry_run" /\ k' = find_start_position
      BY <2>1 DEF Seek
    <3>2. stats = NoStats \/ stats.cur_path \in Nat
      BY <3>1 DEF StartInv
    <3> QED BY <1>2, <3>1, <3>2 DEF find_start_position
  <2>2. CASE NextEntry
    <3>1. phase = "run" /\ k' = (k + 1) % Len(mem)
      BY <2>2 DEF NextEntry
    <3>2. k + 1 \in Nat
      BY <3>1 DEF DiskInv
    <3> QED BY <1>2, <3>1, <3>2
  <2>3. CASE FirstStats \/ TruncateStats \/ WriteStats
    BY <2>3 DEF FirstStats, TruncateStats, WriteStats, DiskInv
  <2> QED BY <2>1, <2>2, <2>3
<1>4. phase \in Adding => k' = k
  BY DEF Seek, FirstStats, TruncateStats, WriteStats, NextEntry
<1> QED BY <1>1, <1>2, <1>3, <1>4 DEF DiskInv, Dir, Named

LEMMA AddAppends ==
  ASSUME DiskInv, AddToQueue
  PROVE  \E c \in Found :
           /\ Queue(mem') /\ Len(mem') = Len(mem) + 1
           /\ mem'[Len(mem) + 1] = [case |-> c, id |-> Len(mem), passed_det |-> FALSE]
           /\ \A i \in 1..Len(mem) : mem'[i] = mem[i]
<1>1. PICK c \in Found :
        mem' = Append(mem, [case |-> c, id |-> Len(mem), passed_det |-> FALSE])
  BY DEF AddToQueue
<1>2. Queue(mem) /\ c # Empty
  BY CasesAssumption DEF AddToQueue, DiskInv, AtRest
<1>3. Queue(mem') /\ Len(mem') = Len(mem) + 1
  BY <1>1, <1>2, AppendQueue
<1>4. mem'[Len(mem) + 1] = [case |-> c, id |-> Len(mem), passed_det |-> FALSE]
  BY <1>1, <1>2, AppendQueue
<1>5. \A i \in 1..Len(mem) : mem'[i] = mem[i]
  BY <1>1, <1>2, AppendQueue
<1> QED BY <1>3, <1>4, <1>5

\* A find is queued, created empty and written; the file of a trimmed case goes and
\* comes back.
LEMMA AddDisk == ASSUME DiskInv, AddToQueue PROVE DiskInv'
<1> USE DEF Pivoting, Imported, AtRest, Rewriting, Adding
<1> DEFINE N == Len(mem)
<1>1. /\ phase = "run" /\ phase' = "found" /\ k' = k
      /\ resume' = resume /\ queue' = queue
  BY DEF AddToQueue, disk
<1>2. /\ Queue(mem) /\ Named(N) /\ k \in 0..N - 1
      /\ queue.files = Files(mem, N) /\ queue.det = Det(mem, N)
      /\ Dir(queue) /\ Dir(resume)
  BY <1>1 DEF DiskInv
<1>3. N \in Nat \ {0}
  BY <1>2 DEF Queue
<1>4. PICK c \in Found :
        /\ Queue(mem') /\ Len(mem') = N + 1
        /\ mem'[N + 1] = [case |-> c, id |-> N, passed_det |-> FALSE]
        /\ \A i \in 1..N : mem'[i] = mem[i]
  BY AddAppends
<1>5. Queue(mem') /\ Len(mem') = N + 1
  BY <1>4
<1>6. mem'[N + 1].id = N /\ ~mem'[N + 1].passed_det
  BY <1>4
<1>7. \A i \in 1..N : mem'[i] = mem[i]
  BY <1>4
<1>8. Dir(queue') /\ Dir(resume')
  BY <1>1, <1>2 DEF Dir
<1>9. Files(mem', N) = Files(mem, N) /\ Det(mem', N) = Det(mem, N)
  BY <1>3, <1>7, FilesAgree
<1>10. Det(mem', N + 1) = Det(mem, N)
  <2> HIDE DEF N
  <2> QED BY <1>3, <1>6, <1>9, DetPut
<1> HIDE DEF N
<1>11. ASSUME NEW i \in 0..N PROVE mem'[i + 1].id = i
  <2>1. CASE i = N
    BY <1>6, <2>1
  <2>2. CASE i # N
    BY <1>2, <1>3, <1>7, <2>2 DEF Named
  <2> QED BY <2>1, <2>2
<1>12. Named(Len(mem))'
  BY <1>3, <1>5, <1>11 DEF Named
<1>13. k' \in 0..Len(mem') - 1 /\ k' < Len(mem') - 1 /\ ~mem'[Len(mem')].passed_det
  BY <1>1, <1>2, <1>3, <1>5, <1>6
<1>14. /\ queue'.files = Files(mem', Len(mem') - 1)
       /\ queue'.det = Det(mem', Len(mem'))
  <2>1. Len(mem') - 1 = N
    BY <1>3, <1>5
  <2> QED BY <1>1, <1>2, <1>5, <1>9, <1>10, <2>1
<1> QED BY <1>1, <1>5, <1>8, <1>12, <1>13, <1>14 DEF DiskInv

LEMMA SaveDisk == ASSUME DiskInv, CreateCase \/ WriteCase PROVE DiskInv'
<1> USE DEF Pivoting, Imported, AtRest, Rewriting, Adding
<1>1. CASE CreateCase
  <2> DEFINE N == Len(mem)
  <2>1. /\ phase = "found" /\ phase' = "write" /\ UNCHANGED <<mem, k, resume>>
        /\ queue' = [queue EXCEPT !.files = Put(@, mem[N].id, Empty)]
    BY <1>1 DEF CreateCase
  <2>2. /\ Queue(mem) /\ Named(N) /\ k \in 0..N - 1
        /\ queue.files = Files(mem, N - 1) /\ queue.det = Det(mem, N)
        /\ Dir(queue) /\ Dir(resume) /\ k < N - 1 /\ ~mem[N].passed_det
    BY <2>1 DEF DiskInv
  <2>3. N \in Nat \ {0} /\ mem[N].id = N - 1
    <3>1. N \in Nat \ {0}
      BY <2>2 DEF Queue
    <3> HIDE DEF N
    <3>2. N - 1 \in 0..N - 1 /\ N - 1 + 1 = N
      BY <3>1
    <3> QED BY <2>2, <3>1, <3>2 DEF Named
  <2>4. /\ Dir(queue') /\ queue'.det = queue.det
        /\ queue'.files = Put(queue.files, N - 1, Empty)
    <3>1. queue' = [queue EXCEPT !.files = Put(@, N - 1, Empty)]
      BY <2>1, <2>3
    <3>2. Dir(queue) /\ N - 1 \in Nat
      BY <2>2, <2>3
    <3> HIDE DEF N
    <3> QED BY <3>1, <3>2, PutDir
  <2> HIDE DEF N
  <2>5. queue'.files = [i \in 0..N - 1 |-> IF i = N - 1 THEN Empty ELSE mem[i + 1].case]
    <3>1. /\ DOMAIN Files(mem, N - 1) = 0..N - 1 - 1
          /\ (0..N - 1 - 1) \union {N - 1} = 0..N - 1
      BY <2>3 DEF Files
    <3>2. \A i \in 0..N - 1 : i # N - 1 => Files(mem, N - 1)[i] = mem[i + 1].case
      BY <2>3 DEF Files
    <3>3. Put(Files(mem, N - 1), N - 1, Empty)
            = [i \in 0..N - 1 |-> IF i = N - 1 THEN Empty ELSE Files(mem, N - 1)[i]]
      BY <3>1 DEF Put
    <3>4. @ = [i \in 0..N - 1 |-> IF i = N - 1 THEN Empty ELSE mem[i + 1].case]
      BY <3>2
    <3> QED BY <2>2, <2>4, <3>3, <3>4
  <2> QED BY <2>1, <2>2, <2>4, <2>5 DEF DiskInv, Named, Dir, N
<1>2. CASE WriteCase
  <2> DEFINE N == Len(mem)
  <2>1. /\ phase = "write" /\ phase' = "run"
        /\ queue' = [queue EXCEPT !.files = Put(@, mem[N].id, mem[N].case)]
        /\ UNCHANGED <<mem, k, resume>>
    BY <1>2 DEF WriteCase
  <2>2. /\ Queue(mem) /\ Named(N) /\ queue.det = Det(mem, N) /\ k \in 0..N - 1
        /\ queue.files = [i \in 0..N - 1 |-> IF i = N - 1 THEN Empty ELSE mem[i + 1].case]
        /\ Dir(queue) /\ Dir(resume)
    BY <2>1 DEF DiskInv
  <2>3. N \in Nat \ {0} /\ mem[N].id = N - 1
    BY <2>2 DEF Queue, Named
  <2>4. /\ Dir(queue') /\ queue'.det = queue.det
        /\ queue'.files = Put(queue.files, N - 1, mem[N].case)
    <3>1. queue' = [queue EXCEPT !.files = Put(@, N - 1, mem[N].case)]
      BY <2>1, <2>3
    <3>2. Dir(queue) /\ N - 1 \in Nat
      BY <2>2, <2>3
    <3> HIDE DEF N
    <3> QED BY <3>1, <3>2, PutDir
  <2> HIDE DEF N
  <2>5. Put(queue.files, N - 1, mem[N].case) = Files(mem, N)
    <3>1. DOMAIN queue.files \union {N - 1} = 0..N - 1
      BY <2>2, <2>3
    <3>2. \A i \in 0..N - 1 : (IF i = N - 1 THEN mem[N].case ELSE queue.files[i])
                              = mem[i + 1].case
      BY <2>2, <2>3
    <3>3. Put(queue.files, N - 1, mem[N].case)
            = [i \in 0..N - 1 |-> IF i = N - 1 THEN mem[N].case ELSE queue.files[i]]
      BY <3>1 DEF Put
    <3>4. @ = [i \in 0..N - 1 |-> mem[i + 1].case]
      BY <3>2
    <3> QED BY <3>3, <3>4 DEF Files
  <2> QED BY <2>1, <2>2, <2>4, <2>5 DEF DiskInv, Named, Dir, N
<1> QED BY <1>1, <1>2

LEMMA TrimDisk == ASSUME DiskInv, TrimUnlink \/ TrimCreate \/ TrimWrite PROVE DiskInv'
<1> USE DEF Pivoting, Imported, AtRest, Rewriting, Adding
<1> DEFINE N == Len(mem)
<1>1. /\ phase \in {"run", "trim", "trim_write"} /\ phase' \in {"run", "trim", "trim_write"}
      /\ UNCHANGED <<mem, k, resume>>
  BY DEF TrimUnlink, TrimCreate, TrimWrite
<1>2. /\ Queue(mem) /\ Named(N) /\ queue.det = Det(mem, N) /\ k \in 0..N - 1
      /\ Dir(queue) /\ Dir(resume)
  BY <1>1 DEF DiskInv
<1>3. N \in Nat \ {0} /\ mem[k + 1].id = k /\ k \in Nat
  BY <1>2 DEF Queue, Named
<1>4. Queue(mem)' /\ Named(Len(mem))' /\ k' \in 0..Len(mem') - 1 /\ Dir(resume')
  BY <1>1, <1>2 DEF Named
<1>5. CASE TrimUnlink
  <2>1. queue' = [queue EXCEPT !.files = Remove(@, k)] /\ phase' = "trim"
        /\ queue.files = Files(mem, N)
    BY <1>3, <1>5 DEF TrimUnlink, DiskInv
  <2>2. /\ Dir(queue') /\ queue'.det = queue.det
        /\ queue'.files = Remove(Files(mem, N), k)
    BY <1>2, <2>1, RemoveDir
  <2>3. Remove(Files(mem, N), k) = [i \in (0..N - 1) \ {k} |-> mem[i + 1].case]
    BY <1>3 DEF Remove, Files
  <2> QED BY <1>1, <1>2, <1>4, <2>1, <2>2, <2>3 DEF DiskInv
<1>6. CASE TrimCreate
  <2>1. queue' = [queue EXCEPT !.files = Put(@, k, Empty)] /\ phase' = "trim_write"
        /\ queue.files = [i \in (0..N - 1) \ {k} |-> mem[i + 1].case]
    BY <1>3, <1>6 DEF TrimCreate, DiskInv
  <2>2. /\ Dir(queue') /\ queue'.det = queue.det
        /\ queue'.files = Put(queue.files, k, Empty)
    <3>1. queue' = [queue EXCEPT !.files = Put(@, k, Empty)]
      BY <2>1
    <3>2. Dir(queue) /\ k \in Nat
      BY <1>2, <1>3
    <3> QED BY <3>1, <3>2, PutDir
  <2>3. Put(queue.files, k, Empty)
          = [i \in 0..N - 1 |-> IF i = k THEN Empty ELSE mem[i + 1].case]
    <3>1. DOMAIN queue.files \union {k} = 0..N - 1
      BY <1>2, <2>1
    <3>2. Put(queue.files, k, Empty)
            = [i \in 0..N - 1 |-> IF i = k THEN Empty ELSE queue.files[i]]
      BY <3>1 DEF Put
    <3> QED BY <2>1, <3>2
  <2> QED BY <1>1, <1>2, <1>4, <2>1, <2>2, <2>3 DEF DiskInv
<1>7. CASE TrimWrite
  <2>1. queue' = [queue EXCEPT !.files = Put(@, k, mem[k + 1].case)] /\ phase' = "run"
        /\ queue.files = [i \in 0..N - 1 |-> IF i = k THEN Empty ELSE mem[i + 1].case]
    BY <1>3, <1>7 DEF TrimWrite, DiskInv
  <2>2. /\ Dir(queue') /\ queue'.det = queue.det
        /\ queue'.files = Put(queue.files, k, mem[k + 1].case)
    BY <1>2, <1>3, <2>1, PutDir
  <2>3. Put(queue.files, k, mem[k + 1].case) = Files(mem, N)
    <3>1. DOMAIN queue.files \union {k} = 0..N - 1
      BY <1>2, <2>1
    <3>2. Put(queue.files, k, mem[k + 1].case)
            = [i \in 0..N - 1 |-> IF i = k THEN mem[k + 1].case ELSE queue.files[i]]
      BY <3>1 DEF Put
    <3>3. @ = [i \in 0..N - 1 |-> mem[i + 1].case]
      BY <2>1
    <3> QED BY <3>2, <3>3 DEF Files
  <2> QED BY <1>1, <1>2, <1>4, <2>1, <2>2, <2>3 DEF DiskInv
<1> QED BY <1>5, <1>6, <1>7 DEF TrimUnlink, TrimCreate, TrimWrite

LEMMA MarkMarks ==
  ASSUME DiskInv, MarkAsDetDone
  PROVE  /\ Queue(mem') /\ Len(mem') = Len(mem) /\ mem'[k + 1].passed_det = TRUE
         /\ \A i \in 1..Len(mem) : /\ mem'[i].case = mem[i].case /\ mem'[i].id = mem[i].id
                                   /\ i # k + 1 => mem'[i] = mem[i]
         /\ k + 1 \in 1..Len(mem)
<1>1. mem' = [mem EXCEPT ![k + 1].passed_det = TRUE]
  BY DEF MarkAsDetDone
<1>2. Queue(mem) /\ k + 1 \in 1..Len(mem)
  BY DEF MarkAsDetDone, DiskInv, AtRest, Queue
<1>3. Queue(mem')
  BY <1>1, <1>2, MarkQueue
<1>4. Len(mem') = Len(mem)
  BY <1>1, <1>2, MarkQueue
<1>5. mem'[k + 1].passed_det = TRUE
  BY <1>1, <1>2, MarkQueue
<1>6. \A i \in 1..Len(mem) : mem'[i].case = mem[i].case /\ mem'[i].id = mem[i].id
  BY <1>1, <1>2, MarkQueue
<1>7. \A i \in 1..Len(mem) : i # k + 1 => mem'[i] = mem[i]
  BY <1>1, <1>2, MarkQueue
<1> QED BY <1>2, <1>3, <1>4, <1>5, <1>6, <1>7

LEMMA MarkDisk == ASSUME DiskInv, MarkAsDetDone PROVE DiskInv'
<1> USE DEF Pivoting, Imported, AtRest, Rewriting, Adding
<1> DEFINE N == Len(mem)
<1>1. /\ phase = "run" /\ UNCHANGED <<phase, k, resume>>
      /\ queue' = [queue EXCEPT !.det = @ \union {mem[k + 1].id}]
  BY DEF MarkAsDetDone
<1>3. /\ Queue(mem) /\ Named(N) /\ k \in 0..N - 1
      /\ queue.det = Det(mem, N) /\ queue.files = Files(mem, N)
      /\ Dir(queue) /\ Dir(resume)
  BY <1>1 DEF DiskInv
<1>4. N \in Nat /\ k + 1 \in 1..N /\ mem[k + 1].id = k
  BY <1>3 DEF Queue, Named
<1>5. Queue(mem') /\ Len(mem') = N
  BY MarkMarks
<1>6. mem'[k + 1].passed_det = TRUE
  BY MarkMarks
<1>7. \A i \in 1..N : mem'[i].case = mem[i].case /\ mem'[i].id = mem[i].id
  BY MarkMarks
<1>8. \A i \in 1..N : i # k + 1 => mem'[i] = mem[i]
  BY MarkMarks
<1>9. Dir(queue') /\ queue'.files = queue.files /\ queue'.det = queue.det \union {k}
  <2>1. queue' = [queue EXCEPT !.det = queue.det \union {k}] /\ Dir(queue)
    BY <1>1, <1>3, <1>4
  <2> QED BY <2>1, MarkDir
<1> HIDE DEF N
<1>10. Files(mem', N) = Files(mem, N)
  BY <1>4, <1>7 DEF Files
<1>11. Det(mem', N) = Det(mem, N) \union {k}
  <2>1. ASSUME NEW i \in 0..N - 1, i # k PROVE mem'[i + 1] = mem[i + 1]
    BY <1>3, <1>4, <1>8, <2>1
  <2> QED BY <1>3, <1>6, <2>1 DEF Det
<1>12. Named(N)'
  BY <1>3, <1>4, <1>5, <1>7 DEF Named, N
<1> QED BY <1>1, <1>3, <1>5, <1>9, <1>10, <1>11, <1>12 DEF DiskInv, Dir, N

LEMMA EndDisk == ASSUME DiskInv, Kill \/ RemoveStats PROVE DiskInv'
BY DEF DiskInv, Kill, RemoveStats, disk, Pivoting, Imported, AtRest, Rewriting, Adding, Dir

LEMMA StepDisk == ASSUME DiskInv, StartInv, [Next]_vars PROVE DiskInv'
<1>1. CASE Session
  BY <1>1, StartDisk, ClearDisk, ReadDisk, PivotDisk, NukeDisk, SessionDisk, AddDisk, SaveDisk,
     MarkDisk, TrimDisk DEF Session
<1>2. CASE Kill \/ RemoveStats
  BY <1>2, EndDisk
<1>3. CASE UNCHANGED vars
  BY <1>3 DEF vars, disk, DiskInv, Pivoting, Imported, AtRest, Rewriting, Adding, Dir, Named
<1> QED BY <1>1, <1>2, <1>3 DEF Next

-----------------------------------------------------------------------------
(* The start: the statistics and _resume.                                   *)

LEMMA StepStart == ASSUME DiskInv, StartInv, [Next]_vars PROVE StartInv'
<1> USE DEF Preparing, Pivoting, Running, AtRest, Rewriting, Adding
<1>1. CASE StartFails \/ StartFresh \/ StartInPlace
  BY <1>1 DEF StartInv, StartFails, StartFresh, StartInPlace, disk, history, Exists
<1>2. CASE ClearMark \/ ClearState \/ ClearCase \/ SetupDirs
  <2>1. /\ UNCHANGED <<in_place, resume, stats, debris>>
        /\ phase \in Preparing /\ phase' \in Preparing
    BY <1>2 DEF ClearMark, ClearState, ClearCase, SetupDirs, history
  <2> QED BY <2>1 DEF StartInv
<1>3. CASE ClearStats
  BY <1>3 DEF StartInv, ClearStats, history, NoStats, Torn
<1>4. CASE ReadTestcases \/ PivotCase \/ PivotMark \/ PivotDone
  <2>1. /\ UNCHANGED <<in_place, resume, stats, debris>>
        /\ phase \in Preparing \union Pivoting
        /\ \/ phase' \in Pivoting \union {"fatal"}
           \/ phase' = IF in_place THEN "nuke" ELSE "dry_run"
    BY <1>4 DEF ReadTestcases, PivotCase, PivotMark, PivotDone, disk, history
  <2> QED BY <2>1 DEF StartInv
<1>5. CASE NukeMark \/ NukeState \/ NukeCase
  <2>1. phase = "nuke" /\ phase' = "nuke" /\ UNCHANGED <<in_place, stats>>
    BY <1>5 DEF NukeMark, NukeState, NukeCase
  <2> QED BY <2>1 DEF StartInv
<1>6. CASE NukeDone
  <2>1. phase = "nuke" /\ phase' = "dry_run" /\ UNCHANGED <<in_place, stats>>
        /\ resume' = NoDir
    BY <1>6 DEF NukeDone, disk
  <2> QED BY <2>1 DEF StartInv
<1>7. CASE Seek \/ AddToQueue \/ CreateCase \/ WriteCase \/ MarkAsDetDone \/ TrimUnlink
           \/ TrimCreate \/ TrimWrite \/ NextEntry
  <2>1. /\ UNCHANGED <<in_place, resume, stats, debris>>
        /\ phase \in Running \ {"first_stats", "stats", "found_stats"}
        /\ phase' \in Running \ {"first_stats", "stats", "found_stats"}
    BY <1>7 DEF Seek, AddToQueue, CreateCase, WriteCase, MarkAsDetDone, TrimUnlink,
                TrimCreate, TrimWrite, NextEntry, disk, history
  <2> QED BY <2>1 DEF StartInv
<1>8. CASE FirstStats \/ TruncateStats
  <2>1. /\ UNCHANGED <<in_place, resume, debris>> /\ stats' = Torn
        /\ phase \in Running /\ phase' \in {"first_stats", "stats", "found_stats"}
    BY <1>8 DEF FirstStats, TruncateStats, history
  <2> QED BY <2>1 DEF StartInv
<1>9. CASE WriteStats
  <2>1. /\ UNCHANGED <<in_place, resume, debris>> /\ phase' \in {"run", "found"}
        /\ phase \in {"stats", "first_stats", "found_stats"}
    BY <1>9 DEF WriteStats
  <2>2. PICK n \in {0, k} : stats' = [cur_path |-> n, case |-> mem[n + 1].case]
    BY <1>9, <2>1 DEF WriteStats
  <2>3. n \in Nat
    BY <2>1 DEF DiskInv
  <2>4. stats'.cur_path = n /\ DOMAIN stats' = {"cur_path", "case"}
    BY <2>2
  <2>5. stats' # Torn
    BY <2>4 DEF Torn
  <2> QED BY <2>1, <2>3, <2>4, <2>5 DEF StartInv
<1>10. CASE Kill \/ RemoveStats
  BY <1>10 DEF Kill, RemoveStats, disk, StartInv
<1>11. CASE UNCHANGED vars
  BY <1>11 DEF vars, disk, history, StartInv
<1> QED BY <1>1, <1>2, <1>3, <1>4, <1>5, <1>6, <1>7, <1>8, <1>9, <1>10, <1>11
        DEF Next, Session

\* save_if_interesting(), trim_case(), mark_as_det_done(): in a running session, after
\* any starts and kills, the files and marks are those of the queue in memory.
THEOREM DiskHoldsTheQueue == Spec => []DiskIsMemory
<1>1. Init => DiskInv /\ StartInv
  BY InitDisk DEF Init, StartInv, Preparing, Pivoting, Running, AtRest, Rewriting, Adding
<1>2. DiskInv /\ StartInv /\ [Next]_vars => DiskInv' /\ StartInv'
  BY StepDisk, StepStart
<1>3. DiskInv /\ StartInv => DiskIsMemory
  <2> SUFFICES ASSUME DiskInv, StartInv PROVE DiskIsMemory
    OBVIOUS
  <2> USE DEF AtRest, Running, Rewriting, Adding
  <2>1. CASE phase \in AtRest
    <3>1. Len(mem) \in Nat /\ k < Len(mem)
      BY <2>1 DEF DiskInv, Queue
    <3> QED BY <2>1, <3>1 DEF DiskInv, StartInv, DiskIsMemory, Files, Det
  <2>2. CASE phase \in Adding
    <3> DEFINE N == Len(mem)
    <3>1. /\ N \in Nat \ {0} /\ k < N - 1 /\ ~mem[N].passed_det
          /\ queue.files = Files(mem, N - 1) /\ queue.det = Det(mem, N)
      BY <2>2 DEF DiskInv, Queue
    <3>2. resume = NoDir \/ debris
      BY <2>2 DEF StartInv
    <3>3. Det(mem, N) = Det(mem, N - 1)
      <4> HIDE DEF N
      <4>1. N - 1 \in Nat /\ N - 1 + 1 = N
        BY <3>1
      <4> QED BY <3>1, <4>1, DetPut
    <3> QED BY <2>2, <3>1, <3>2, <3>3 DEF DiskIsMemory, Files, Det
  <2> QED BY <2>1, <2>2 DEF DiskIsMemory
<1> QED BY <1>1, <1>2, <1>3, PTL DEF Spec

-----------------------------------------------------------------------------
(* What a directory holds of a queue.                                       *)

LEMMA CasesOfFiles ==
  ASSUME NEW m, Queue(m), NEW n \in 0..Len(m), NEW dir, dir.files = Files(m, n)
  PROVE  Cases(dir) = MemCases(m, n)
<1>1. Len(m) \in Nat /\ \A i \in 1..n : m[i].case # Empty
  BY DEF Queue
<1>2. \A c : (\E i \in 0..n - 1 : m[i + 1].case = c) <=> (\E i \in 1..n : m[i].case = c)
  <2>1. \A i \in 0..n - 1 : i + 1 \in 1..n
    BY <1>1
  <2>2. \A i \in 1..n : i - 1 \in 0..n - 1 /\ i - 1 + 1 = i
    BY <1>1
  <2>3. ASSUME NEW c, NEW i \in 1..n, m[i].case = c
        PROVE  \E l \in 0..n - 1 : m[l + 1].case = c
    <3>1. i - 1 \in 0..n - 1 /\ m[i - 1 + 1].case = c
      BY <2>2, <2>3
    <3> QED BY <3>1
  <2> QED BY <2>1, <2>3
<1>3. Cases(dir) = {m[i + 1].case : i \in 0..n - 1} \ {Empty}
  BY DEF Cases, Files
<1>4. @ = {m[i].case : i \in 1..n} \ {Empty}
  BY <1>2
<1>5. @ = MemCases(m, n)
  BY <1>1 DEF MemCases
<1> QED BY <1>3, <1>4, <1>5

\* The marks of a queue's first l entries, when n of them have files.
LEMMA DoneOfMarks ==
  ASSUME NEW m, Queue(m), NEW n \in 0..Len(m), NEW l \in 0..n,
         NEW dir, dir.files = Files(m, n), dir.det = Det(m, l)
  PROVE  DetCases(dir) = MemDone(m, l)
<1>1. Len(m) \in Nat
  BY DEF Queue
<1>2. dir.det \intersect DOMAIN dir.files = {i \in 0..l - 1 : m[i + 1].passed_det}
  BY <1>1 DEF Files, Det
<1>3. \A i \in 0..l - 1 : dir.files[i] = m[i + 1].case
  BY <1>1 DEF Files
<1>4. ASSUME NEW c \in DetCases(dir) PROVE c \in MemDone(m, l)
  <2>1. PICK i \in 0..l - 1 : m[i + 1].passed_det /\ dir.files[i] = c
    BY <1>2 DEF DetCases
  <2>2. i + 1 \in 1..l /\ m[i + 1].case = c
    BY <1>1, <1>3, <2>1
  <2> QED BY <2>1, <2>2 DEF MemDone
<1>5. ASSUME NEW c \in MemDone(m, l) PROVE c \in DetCases(dir)
  <2>1. PICK i \in 1..l : m[i].passed_det /\ m[i].case = c
    BY DEF MemDone
  <2>2. i - 1 \in 0..l - 1 /\ i - 1 + 1 = i
    BY <1>1
  <2>3. i - 1 \in dir.det \intersect DOMAIN dir.files /\ dir.files[i - 1] = c
    BY <1>2, <1>3, <2>1, <2>2
  <2> QED BY <2>3 DEF DetCases
<1> QED BY <1>4, <1>5

\* The queue that is read has the cases and the marks of its directory.
LEMMA OldQueueIsResume ==
  ASSUME Dir(resume)
  PROVE  /\ MemCases(OldQueue, Len(OldQueue)) = Cases(resume)
         /\ MemDone(OldQueue, Len(OldQueue)) = DetCases(resume) \ {Empty}
         /\ OldQueue = <<>> => Cases(resume) = {}
<1> DEFINE N == Len(Ids(resume))
           Full == {i \in DOMAIN resume.files : resume.files[i] # Empty}
<1>1. /\ N \in Nat
      /\ \A n \in 1..N : Ids(resume)[n] \in Full
      /\ \A i \in Full : \E n \in 1..N : Ids(resume)[n] = i
  BY IdsEnumerate
<1>2. OldQueue = [n \in 1..N |->
                    [case |-> resume.files[Ids(resume)[n]], id |-> Ids(resume)[n],
                     passed_det |-> Ids(resume)[n] \in resume.det]]
  BY DEF OldQueue
<1> HIDE DEF N
<1>3. Len(OldQueue) = N
  BY <1>1, <1>2
<1>4. \A n \in 1..N : /\ OldQueue[n].case = resume.files[Ids(resume)[n]]
                      /\ OldQueue[n].passed_det <=> Ids(resume)[n] \in resume.det
  BY <1>2
<1>5. MemCases(OldQueue, N) = Cases(resume)
  <2>1. ASSUME NEW c \in MemCases(OldQueue, N) PROVE c \in Cases(resume)
    BY <1>1, <1>4 DEF MemCases, Cases
  <2>2. ASSUME NEW c \in Cases(resume) PROVE c \in MemCases(OldQueue, N)
    <3>1. PICK i \in Full : resume.files[i] = c
      BY DEF Cases
    <3>2. PICK n \in 1..N : Ids(resume)[n] = i
      BY <1>1
    <3> QED BY <1>4, <3>1, <3>2 DEF MemCases
  <2> QED BY <2>1, <2>2
<1>6. MemDone(OldQueue, N) = DetCases(resume) \ {Empty}
  <2>1. ASSUME NEW c \in MemDone(OldQueue, N) PROVE c \in DetCases(resume) \ {Empty}
    <3>1. PICK n \in 1..N : OldQueue[n].passed_det /\ OldQueue[n].case = c
      BY DEF MemDone
    <3>2. Ids(resume)[n] \in Full /\ Ids(resume)[n] \in resume.det
          /\ resume.files[Ids(resume)[n]] = c
      BY <1>1, <1>4, <3>1
    <3> QED BY <3>2 DEF DetCases
  <2>2. ASSUME NEW c \in DetCases(resume) \ {Empty} PROVE c \in MemDone(OldQueue, N)
    <3>1. PICK i \in Full : i \in resume.det /\ resume.files[i] = c
      BY DEF DetCases
    <3>2. PICK n \in 1..N : Ids(resume)[n] = i
      BY <1>1
    <3> QED BY <1>4, <3>1, <3>2 DEF MemDone
  <2> QED BY <2>1, <2>2
<1>7. OldQueue = <<>> => MemCases(OldQueue, N) = {}
  <2>1. OldQueue = <<>> => N = 0
    BY <1>3
  <2> QED BY <2>1 DEF MemCases
<1> QED BY <1>3, <1>5, <1>6, <1>7

-----------------------------------------------------------------------------
(* The cases and marks of the session, step by step.                        *)

\* What is in _resume is in the next import; a _resume that does not exist holds
\* nothing.
LEMMA ResumeIsImported ==
  /\ \A S : S \subseteq Cases(resume) => S \subseteq Cases(NextImport)
  /\ \A S : S \subseteq DetCases(resume) => S \subseteq DetCases(NextImport)
BY NoDirHolds DEF NextImport, Exists

LEMMA StartSaved ==
  ASSUME SavedInv, StartFails \/ StartFresh \/ StartInPlace PROVE SavedInv'
<1> USE DEF Preparing, Pivoting, Imported, AtRest, Rewriting, Adding, history
<1>1. CASE StartFails
  BY <1>1 DEF StartFails, SavedInv, Source, NextImport, Exists, disk, Cases, DetCases
<1>2. CASE StartFresh
  BY <1>2 DEF StartFresh, SavedInv
<1>3. CASE StartInPlace
  <2>1. /\ phase = "off" /\ phase' = "clear" /\ in_place' = TRUE
        /\ UNCHANGED <<saved, finished, debris>> /\ resume' = NextImport
    BY <1>3 DEF StartInPlace, NextImport
  <2>2. Cases(resume)' = Cases(NextImport) /\ DetCases(resume)' = DetCases(NextImport)
    BY <2>1 DEF Cases, DetCases
  <2> QED BY <2>1, <2>2 DEF SavedInv, Source
<1> QED BY <1>1, <1>2, <1>3

LEMMA ClearSaved ==
  ASSUME SavedInv, ClearMark \/ ClearState \/ ClearCase \/ ClearStats \/ SetupDirs
  PROVE  SavedInv'
<1>1. /\ phase \in Preparing /\ phase' \in Preparing
      /\ UNCHANGED <<in_place, resume, saved, finished, debris>>
  BY DEF ClearMark, ClearState, ClearCase, ClearStats, SetupDirs, history, Preparing
<1> QED BY <1>1 DEF SavedInv, Source, Cases, DetCases, Preparing, Pivoting, Imported,
                    AtRest, Rewriting, Adding

\* Shuffling loses no entry and makes none up.
LEMMA ShuffledCases ==
  ASSUME NEW q, NEW read \in {q} \union Shuffled(q),
         Len(q) \in Nat, q = [n \in 1..Len(q) |-> q[n]]
  PROVE  /\ MemCases(read, Len(read)) = MemCases(q, Len(q))
         /\ MemDone(read, Len(read)) = MemDone(q, Len(q))
<1> DEFINE N == Len(q)
<1>1. Len(read) = N
  BY ShuffledSame
<1>2. \A n \in 1..N : \E i \in 1..N : read[n] = q[i]
  BY ShuffledSame
<1>3. \A i \in 1..N : \E n \in 1..N : read[n] = q[i]
  BY ShuffledSame
<1> HIDE DEF N
<1>4. MemCases(read, N) \subseteq MemCases(q, N) /\ MemDone(read, N) \subseteq MemDone(q, N)
  <2> SUFFICES ASSUME NEW n \in 1..N
               PROVE  /\ read[n].case \in MemCases(q, N)
                      /\ read[n].passed_det => read[n].case \in MemDone(q, N)
    BY DEF MemCases, MemDone
  <2>1. PICK i \in 1..N : read[n] = q[i]
    BY <1>2
  <2> QED BY <2>1 DEF MemCases, MemDone
<1>5. MemCases(q, N) \subseteq MemCases(read, N) /\ MemDone(q, N) \subseteq MemDone(read, N)
  <2> SUFFICES ASSUME NEW i \in 1..N
               PROVE  /\ q[i].case \in MemCases(read, N)
                      /\ q[i].passed_det => q[i].case \in MemDone(read, N)
    BY DEF MemCases, MemDone
  <2>1. PICK n \in 1..N : read[n] = q[i]
    BY <1>3
  <2> QED BY <2>1 DEF MemCases, MemDone
<1> QED BY <1>1, <1>4, <1>5 DEF N

LEMMA ReadSaved ==
  ASSUME DiskInv, SavedInv, ReadTestcases PROVE SavedInv'
<1> USE DEF Preparing, Pivoting, Imported, AtRest, Rewriting, Adding
<1> DEFINE sorted == IF in_place THEN OldQueue ELSE NewQueue
<1>0. PICK read \in {sorted} \union Shuffled(sorted) :
        /\ phase = "read" /\ mem' = read /\ k' = 0
        /\ phase' = IF read = <<>> THEN "fatal" ELSE "pivot"
  BY DEF ReadTestcases
<1>1. /\ phase = "read" /\ mem' = read /\ k' = 0
      /\ phase' = IF read = <<>> THEN "fatal" ELSE "pivot"
      /\ UNCHANGED <<in_place, queue, resume, stats, saved, finished, debris>>
  BY <1>0 DEF ReadTestcases, disk
<1> SUFFICES ASSUME ~debris PROVE SavedInv'
  BY <1>1 DEF SavedInv
<1>2. Empty \notin saved \union finished
  BY DEF SavedInv
<1>3. CASE in_place
  <2>1. /\ MemCases(OldQueue, Len(OldQueue)) = Cases(resume)
        /\ MemDone(OldQueue, Len(OldQueue)) = DetCases(resume) \ {Empty}
        /\ OldQueue = <<>> => Cases(resume) = {}
    BY OldQueueIsResume DEF DiskInv
  <2>2. saved \subseteq Cases(resume) /\ finished \subseteq DetCases(resume)
    BY <1>1, <1>3 DEF SavedInv, Source
  <2>3. saved \subseteq Cases(NextImport) /\ finished \subseteq DetCases(NextImport)
    BY <2>2, ResumeIsImported
  <2>4. sorted = OldQueue
    BY <1>3
  <2> HIDE DEF sorted
  <2>5. /\ Cases(resume)' = Cases(resume) /\ DetCases(resume)' = DetCases(resume)
        /\ Cases(NextImport)' = Cases(NextImport) /\ DetCases(NextImport)' = DetCases(NextImport)
    BY <1>1 DEF Cases, DetCases, NextImport, Exists
  <2>6. /\ MemCases(mem', Len(mem')) = Cases(resume)
        /\ MemDone(mem', Len(mem')) = DetCases(resume) \ {Empty}
    BY <1>1, <2>1, <2>4, SortedQueue, ShuffledCases
  <2>7. CASE read = <<>>
    <3>1. OldQueue = <<>>
      BY <2>4, <2>7, SortedQueue, ShuffledEmpty
    <3>2. saved = {}
      BY <2>1, <2>2, <3>1
    <3> QED BY <1>1, <1>2, <1>3, <2>3, <2>5, <2>7, <3>2 DEF SavedInv, Source
  <2>8. CASE read # <<>>
    BY <1>1, <1>2, <1>3, <2>2, <2>5, <2>6, <2>8 DEF SavedInv, Source
  <2> QED BY <2>7, <2>8
<1>4. CASE ~in_place
  <2>1. saved = {} /\ finished = {}
    BY <1>1, <1>4 DEF SavedInv
  <2>2. MemCases(mem', 0) = {}
    BY DEF MemCases
  <2> HIDE DEF sorted
  <2> QED BY <1>1, <1>4, <2>1, <2>2 DEF SavedInv
<1> QED BY <1>3, <1>4

\* Naming an entry leaves the cases and marks of the queue as they are.
LEMMA CasesAgree ==
  ASSUME NEW m, NEW l, NEW n,
         \A i \in 1..n : m[i].case = l[i].case /\ m[i].passed_det = l[i].passed_det
  PROVE  MemCases(m, n) = MemCases(l, n) /\ MemDone(m, n) = MemDone(l, n)
<1>1. MemCases(m, n) = MemCases(l, n)
  BY DEF MemCases
<1>2. ASSUME NEW c \in MemDone(m, n) PROVE c \in MemDone(l, n)
  BY DEF MemDone
<1>3. ASSUME NEW c \in MemDone(l, n) PROVE c \in MemDone(m, n)
  BY DEF MemDone
<1> QED BY <1>1, <1>2, <1>3

LEMMA MoreCases ==
  ASSUME NEW m, NEW n \in Nat
  PROVE  MemCases(m, n + 1) = MemCases(m, n) \union {m[n + 1].case}
<1>1. 1..n + 1 = (1..n) \union {n + 1}
  OBVIOUS
<1> QED BY <1>1 DEF MemCases

LEMMA PivotSaved ==
  ASSUME DiskInv, SavedInv, PivotCase \/ PivotMark \/ PivotDone PROVE SavedInv'
<1> USE DEF Preparing, Pivoting, Imported, AtRest, Rewriting, Adding
<1>1. CASE PivotCase
  <2>1. /\ phase = "pivot" /\ k < Len(mem) /\ saved' = saved \union {mem[k + 1].case}
        /\ UNCHANGED <<in_place, resume, finished, debris>>
    BY <1>1 DEF PivotCase
  <2>2. \/ phase' = "pivot_mark" /\ k' = k
        \/ phase' = "pivot" /\ k' = k + 1
    BY <1>1 DEF PivotCase
  <2>3. Queue(mem) /\ k \in Nat /\ k + 1 \in 1..Len(mem) /\ Len(mem) \in Nat
    BY <2>1 DEF DiskInv, Queue
  <2>4. Len(mem') = Len(mem)
    BY <1>1, PivotNames
  <2>5. \A i \in 1..Len(mem) : /\ mem'[i].case = mem[i].case
                               /\ mem'[i].passed_det = mem[i].passed_det
    BY <1>1, PivotNames
  <2>6. /\ MemCases(mem', Len(mem)) = MemCases(mem, Len(mem))
        /\ MemDone(mem', Len(mem)) = MemDone(mem, Len(mem))
    BY <2>5, CasesAgree
  <2>7. MemCases(mem', k + 1) = MemCases(mem, k + 1)
    <3>1. \A i \in 1..k + 1 : /\ mem'[i].case = mem[i].case
                              /\ mem'[i].passed_det = mem[i].passed_det
      BY <2>3, <2>5
    <3> QED BY <3>1, CasesAgree
  <2>8. mem[k + 1].case \in MemCases(mem, Len(mem)) /\ mem[k + 1].case # Empty
    BY <2>3 DEF MemCases, Queue
  <2>9. ~debris => /\ Empty \notin saved' \union finished'
                   /\ ~in_place => finished' = {}
    BY <2>1, <2>8 DEF SavedInv
  <2>10. ASSUME ~debris, in_place
         PROVE  /\ saved' \subseteq Cases(resume') /\ finished' \subseteq DetCases(resume')
                /\ MemCases(mem', Len(mem')) = Cases(resume')
                /\ MemDone(mem', Len(mem')) = DetCases(resume') \ {Empty}
    BY <2>1, <2>4, <2>6, <2>8, <2>10 DEF SavedInv, Source
  <2>11. ASSUME ~debris, ~in_place PROVE saved' = MemCases(mem', k + 1)
    BY <2>1, <2>3, <2>7, <2>11, MoreCases DEF SavedInv
  <2>12. phase' \in {"pivot", "pivot_mark"} /\ in_place' = in_place /\ debris' = debris
    BY <2>1, <2>2
  <2> QED BY <2>2, <2>9, <2>10, <2>11, <2>12 DEF SavedInv, Source
<1>2. CASE PivotMark
  <2>1. /\ phase = "pivot_mark" /\ phase' = "pivot" /\ k' = k + 1
        /\ UNCHANGED <<in_place, resume, mem, saved, finished, debris>>
    BY <1>2 DEF PivotMark, history
  <2> QED BY <2>1 DEF SavedInv, Source, Cases, DetCases
<1>3. CASE PivotDone
  <2>1. /\ phase = "pivot" /\ k = Len(mem) /\ phase' = IF in_place THEN "nuke" ELSE "dry_run"
        /\ UNCHANGED <<in_place, resume, mem, saved, finished, debris>>
    BY <1>3 DEF PivotDone, disk, history
  <2> SUFFICES ASSUME ~debris PROVE SavedInv'
    BY <2>1 DEF SavedInv
  <2>2. Empty \notin saved \union finished
    BY DEF SavedInv
  <2>3. CASE in_place
    <3>1. /\ saved \subseteq Cases(resume) /\ finished \subseteq DetCases(resume)
          /\ MemCases(mem, Len(mem)) = Cases(resume)
          /\ MemDone(mem, Len(mem)) = DetCases(resume) \ {Empty}
      BY <2>1, <2>3 DEF SavedInv, Source
    <3>2. Cases(resume') = Cases(resume)
      BY <2>1
    <3> QED BY <2>1, <2>2, <2>3, <3>1, <3>2 DEF SavedInv
  <2>4. CASE ~in_place
    <3>1. saved = MemCases(mem, Len(mem)) /\ finished = {}
      BY <2>1, <2>4 DEF SavedInv
    <3> QED BY <2>1, <2>2, <2>4, <3>1 DEF SavedInv
  <2> QED BY <2>3, <2>4
<1> QED BY <1>1, <1>2, <1>3

LEMMA NukeSaved ==
  ASSUME DiskInv, SavedInv, NukeMark \/ NukeState \/ NukeCase \/ NukeDone PROVE SavedInv'
<1> USE DEF Preparing, Pivoting, Imported, AtRest, Rewriting, Adding
<1>1. CASE NukeMark
  <2>1. /\ phase = "nuke" /\ phase' = "nuke"
        /\ UNCHANGED <<in_place, mem, saved, finished, debris>>
    BY <1>1 DEF NukeMark, history
  <2>2. resume'.files = resume.files /\ resume'.state = resume.state
    BY <1>1, MarkDir DEF NukeMark, DiskInv
  <2> QED BY <2>1, <2>2 DEF SavedInv, Cases
<1>2. CASE NukeState
  <2>1. /\ phase = "nuke" /\ phase' = "nuke"
        /\ UNCHANGED <<in_place, mem, saved, finished, debris>>
    BY <1>2 DEF NukeState, history
  <2>2. resume'.state = FALSE
    BY <1>2, StateDir DEF NukeState, DiskInv
  <2> QED BY <2>1, <2>2 DEF SavedInv
<1>3. CASE NukeCase
  <2>1. /\ phase = "nuke" /\ phase' = "nuke" /\ ~resume.state
        /\ UNCHANGED <<in_place, mem, saved, finished, debris>>
    BY <1>3 DEF NukeCase, history
  <2>2. resume'.state = resume.state
    BY <1>3, RemoveDir DEF NukeCase, DiskInv
  <2> QED BY <2>1, <2>2 DEF SavedInv
<1>4. CASE NukeDone
  <2>1. /\ phase = "nuke" /\ phase' = "dry_run" /\ UNCHANGED <<in_place, mem>>
    BY <1>4 DEF NukeDone
  <2>2. CASE debris
    <3>1. saved' = Cases(queue) /\ finished' = DetCases(queue)
      BY <1>4, <2>2 DEF NukeDone
    <3>2. /\ Queue(mem) /\ queue.files = Files(mem, Len(mem))
          /\ queue.det = Det(mem, Len(mem)) /\ Len(mem) \in 0..Len(mem)
      BY <2>1 DEF DiskInv, Queue
    <3>3. Cases(queue) = MemCases(mem, Len(mem))
      BY <3>2, CasesOfFiles
    <3>4. DetCases(queue) = MemDone(mem, Len(mem))
      BY <3>2, DoneOfMarks
    <3>5. Empty \notin MemCases(mem, Len(mem)) \union MemDone(mem, Len(mem))
      BY <3>2 DEF MemCases, MemDone, Queue
    <3> QED BY <2>1, <3>1, <3>3, <3>4, <3>5 DEF SavedInv
  <2>3. CASE ~debris
    BY <1>4, <2>1, <2>3 DEF NukeDone, history, SavedInv
  <2> QED BY <2>2, <2>3
<1> QED BY <1>1, <1>2, <1>3, <1>4

LEMMA SessionSaved ==
  ASSUME SavedInv,
         \/ Seek \/ FirstStats \/ TruncateStats \/ WriteStats
         \/ TrimUnlink \/ TrimCreate \/ TrimWrite \/ NextEntry
  PROVE  SavedInv'
<1>1. /\ \/ /\ phase \in Running \ (Adding \union {"write"})
            /\ phase' \in Running \ (Adding \union {"write"})
         \/ phase \in Adding /\ phase' \in Adding
      /\ UNCHANGED <<mem, saved, finished, debris>>
  BY DEF Seek, FirstStats, TruncateStats, WriteStats, TrimUnlink, TrimCreate, TrimWrite,
         NextEntry, history, Running, AtRest, Rewriting, Adding
<1> QED BY <1>1 DEF SavedInv, Preparing, Pivoting, Imported, Running, AtRest, Rewriting, Adding

LEMMA SaveSaved ==
  ASSUME DiskInv, SavedInv, AddToQueue \/ CreateCase \/ WriteCase PROVE SavedInv'
<1> USE DEF Preparing, Pivoting, Imported, AtRest, Rewriting, Adding
<1> DEFINE N == Len(mem)
<1>1. CASE AddToQueue
  <2>1. /\ phase = "run" /\ phase' = "found" /\ UNCHANGED <<saved, finished, debris>>
    BY <1>1 DEF AddToQueue, history
  <2>2. N \in Nat
    BY <2>1 DEF DiskInv, Queue
  <2>3. Len(mem') = N + 1 /\ \A i \in 1..N : mem'[i] = mem[i]
    BY <1>1, AddAppends
  <2> HIDE DEF N
  <2>4. MemCases(mem', N) = MemCases(mem, N) /\ MemDone(mem', N) = MemDone(mem, N)
    BY <2>3, CasesAgree
  <2>5. MemDone(mem', N) \subseteq MemDone(mem', N + 1)
    <3>1. 1..N \subseteq 1..N + 1
      BY <2>2
    <3> QED BY <3>1 DEF MemDone
  <2>6. Len(mem') - 1 = N
    BY <2>2, <2>3
  <2> QED BY <2>1, <2>3, <2>4, <2>5, <2>6 DEF SavedInv, N
<1>2. CASE WriteCase
  <2>1. /\ phase = "write" /\ phase' = "run" /\ UNCHANGED <<mem, finished, debris>>
        /\ saved' = saved \union {mem[N].case}
    BY <1>2 DEF WriteCase
  <2>2. Queue(mem) /\ N \in Nat \ {0}
    BY <2>1 DEF DiskInv, Queue
  <2> HIDE DEF N
  <2>3. N - 1 \in Nat /\ N - 1 + 1 = N
    BY <2>2
  <2>4. MemCases(mem, N) = MemCases(mem, N - 1) \union {mem[N].case}
    BY <2>3, MoreCases
  <2>5. mem[N].case # Empty
    BY <2>2 DEF Queue, N
  <2> QED BY <2>1, <2>4, <2>5 DEF SavedInv, N
<1>3. CASE CreateCase
  <2>1. phase = "found" /\ phase' = "write" /\ UNCHANGED <<mem, saved, finished, debris>>
    BY <1>3 DEF CreateCase, history
  <2> QED BY <2>1 DEF SavedInv
<1> QED BY <1>1, <1>2, <1>3

LEMMA MarkSaved == ASSUME DiskInv, SavedInv, MarkAsDetDone PROVE SavedInv'
<1> DEFINE N == Len(mem)
<1>1. /\ phase = "run" /\ phase' = "run" /\ UNCHANGED <<saved, debris>>
      /\ finished' = finished \union {mem[k + 1].case}
  BY DEF MarkAsDetDone
<1>2. Len(mem') = N /\ mem'[k + 1].passed_det = TRUE /\ k + 1 \in 1..N
  BY MarkMarks
<1>3. \A i \in 1..N : mem'[i].case = mem[i].case
  BY MarkMarks
<1>4. \A i \in 1..N : i # k + 1 => mem'[i] = mem[i]
  BY MarkMarks
<1>5. mem[k + 1].case # Empty
  BY <1>1, <1>2 DEF DiskInv, AtRest, Queue
<1> HIDE DEF N
<1>6. MemCases(mem', N) = MemCases(mem, N)
  BY <1>3 DEF MemCases
<1>7. MemDone(mem, N) \union {mem[k + 1].case} \subseteq MemDone(mem', N)
  <2>1. mem'[k + 1].case = mem[k + 1].case
    BY <1>2, <1>3
  <2>2. mem[k + 1].case \in MemDone(mem', N)
    BY <1>2, <2>1 DEF MemDone
  <2>3. ASSUME NEW i \in 1..N, mem[i].passed_det
        PROVE  mem[i].case \in MemDone(mem', N)
    <3>1. CASE i = k + 1
      BY <2>2, <3>1
    <3>2. CASE i # k + 1
      <4>1. mem'[i] = mem[i]
        BY <1>4, <3>2
      <4> QED BY <2>3, <4>1 DEF MemDone
    <3> QED BY <3>1, <3>2
  <2> QED BY <2>2, <2>3 DEF MemDone
<1> QED BY <1>1, <1>2, <1>5, <1>6, <1>7
        DEF SavedInv, Preparing, Pivoting, Imported, AtRest, Rewriting, Adding, N

\* A case that is being saved has no file, or an empty one: the others have theirs.
LEMMA WriteHolds ==
  ASSUME DiskInv, phase \in Adding \union {"write"}
  PROVE  /\ MemCases(mem, Len(mem) - 1) \subseteq Cases(queue)
         /\ MemDone(mem, Len(mem)) \subseteq DetCases(queue)
<1> DEFINE N == Len(mem)
<1>1. Queue(mem) /\ N \in Nat /\ ~mem[N].passed_det
  BY DEF DiskInv, Rewriting, Adding, Queue
<1>2. /\ queue.det = Det(mem, N)
      /\ \/ queue.files = [i \in 0..N - 1 |-> IF i = N - 1 THEN Empty ELSE mem[i + 1].case]
         \/ queue.files = Files(mem, N - 1)
  BY DEF DiskInv, Rewriting, Adding
<1>3. \A i \in 1..N : mem[i].case # Empty
  BY <1>1 DEF Queue
<1> HIDE DEF N
<1>4. ASSUME NEW i \in 1..N, i # N
      PROVE  i - 1 \in DOMAIN queue.files /\ queue.files[i - 1] = mem[i].case
  BY <1>1, <1>2, <1>4 DEF Files
<1>5. ASSUME NEW i \in 1..N - 1 PROVE mem[i].case \in Cases(queue)
  <2>1. i \in 1..N /\ i # N
    BY <1>1
  <2> QED BY <1>3, <1>4, <2>1 DEF Cases
<1>6. ASSUME NEW i \in 1..N, mem[i].passed_det PROVE mem[i].case \in DetCases(queue)
  <2>1. i # N
    BY <1>1, <1>6
  <2>2. i - 1 \in queue.det
    <3>1. i - 1 \in 0..N - 1 /\ i - 1 + 1 = i
      BY <1>1
    <3> QED BY <1>2, <1>6, <3>1 DEF Det
  <2> QED BY <1>4, <2>1, <2>2 DEF DetCases
<1> QED BY <1>5, <1>6 DEF MemCases, MemDone, N

\* A queue that is complete on disk holds what the session has done.
LEMMA RestHolds ==
  ASSUME DiskInv, SavedInv, ~debris, phase \in Imported \union AtRest
  PROVE  saved \subseteq Cases(queue) /\ finished \subseteq DetCases(queue)
<1>1. /\ Queue(mem) /\ queue.files = Files(mem, Len(mem))
      /\ queue.det = Det(mem, Len(mem))
  BY DEF DiskInv
<1>2. Len(mem) \in 0..Len(mem)
  BY <1>1 DEF Queue
<1>3. Cases(queue) = MemCases(mem, Len(mem))
  BY <1>1, <1>2, CasesOfFiles
<1>4. DetCases(queue) = MemDone(mem, Len(mem))
  BY <1>1, <1>2, DoneOfMarks
<1>5. phase \notin Adding \union {"write"}
  BY DEF Imported, AtRest, Adding
<1> QED BY <1>3, <1>4, <1>5 DEF SavedInv

\* In a fresh session the new files are all there is.
LEMMA FreshHolds ==
  ASSUME DiskInv, SavedInv, ~debris, ~in_place, phase \in Preparing \union Pivoting
  PROVE  saved \subseteq Cases(queue) /\ finished = {}
<1>1. finished = {}
  BY DEF SavedInv
<1>2. CASE phase \in Preparing
  BY <1>1, <1>2 DEF SavedInv
<1>3. CASE phase = "pivot"
  <2>1. Queue(mem) /\ k \in 0..Len(mem) /\ queue.files = Files(mem, k)
    BY <1>3 DEF DiskInv, Pivoting
  <2>2. saved = MemCases(mem, k)
    BY <1>3 DEF SavedInv, Pivoting
  <2> QED BY <1>1, <2>1, <2>2, CasesOfFiles
<1>4. CASE phase = "pivot_mark"
  <2>1. Queue(mem) /\ k \in 0..Len(mem) - 1 /\ queue.files = Files(mem, k + 1)
    BY <1>4 DEF DiskInv, Pivoting
  <2>2. saved = MemCases(mem, k + 1)
    BY <1>4 DEF SavedInv, Pivoting
  <2>3. k + 1 \in 0..Len(mem)
    BY <2>1 DEF Queue
  <2> QED BY <1>1, <2>1, <2>2, <2>3, CasesOfFiles
<1> QED BY <1>2, <1>3, <1>4 DEF Pivoting

Phases ==
  {"off", "fatal"} \union Preparing \union Pivoting \union Imported \union AtRest
    \union Rewriting

LEMMA StepPhase == ASSUME phase \in Phases, [Next]_vars PROVE phase' \in Phases
<1> USE DEF Phases, Preparing, Pivoting, Imported, AtRest, Rewriting, Adding
<1>1. CASE StartFails \/ StartFresh \/ StartInPlace \/ ClearMark \/ ClearState
           \/ ClearCase \/ ClearStats \/ SetupDirs
  BY <1>1 DEF StartFails, StartFresh, StartInPlace, ClearMark, ClearState, ClearCase,
              ClearStats, SetupDirs
<1>2. CASE ReadTestcases \/ PivotCase \/ PivotMark \/ PivotDone
  BY <1>2 DEF ReadTestcases, PivotCase, PivotMark, PivotDone
<1>3. CASE NukeMark \/ NukeState \/ NukeCase \/ NukeDone
  BY <1>3 DEF NukeMark, NukeState, NukeCase, NukeDone
<1>4. CASE Seek \/ FirstStats \/ TruncateStats \/ WriteStats \/ NextEntry
  BY <1>4 DEF Seek, FirstStats, TruncateStats, WriteStats, NextEntry
<1>5. CASE AddToQueue \/ CreateCase \/ WriteCase \/ MarkAsDetDone \/ TrimUnlink
           \/ TrimCreate \/ TrimWrite
  BY <1>5 DEF AddToQueue, CreateCase, WriteCase, MarkAsDetDone, TrimUnlink, TrimCreate,
              TrimWrite
<1>6. CASE Kill \/ RemoveStats
  BY <1>6 DEF Kill, RemoveStats
<1>7. CASE UNCHANGED vars
  BY <1>7 DEF vars
<1> QED BY <1>1, <1>2, <1>3, <1>4, <1>5, <1>6, <1>7 DEF Next, Session

\* Wherever the process is killed, the next import holds what the session has done.
LEMMA KillSaved ==
  ASSUME phase \in Phases, DiskInv, StartInv, SavedInv, Kill PROVE SavedInv'
<1> USE DEF Preparing, Pivoting, Imported, AtRest, Rewriting, Adding
<1>1. phase' = "off" /\ UNCHANGED <<queue, resume, saved, finished>>
  BY DEF Kill, disk
<1> SUFFICES ASSUME ~debris' PROVE SavedInv'
  BY DEF SavedInv
<1>2. /\ ~debris /\ phase \notin {"trim", "trim_write"}
      /\ phase = "nuke" /\ Exists(resume) =>
           resume.state /\ DetCases(resume) = DetCases(queue)
  BY DEF Kill
<1>3. Cases(NextImport)' = Cases(NextImport) /\ DetCases(NextImport)' = DetCases(NextImport)
  BY <1>1 DEF NextImport, Exists, Cases, DetCases
<1>4. resume = NoDir => NextImport = queue
  BY DEF NextImport, Exists
<1>5. saved \subseteq Cases(NextImport) /\ finished \subseteq DetCases(NextImport)
  <2>1. CASE phase \in {"off", "fatal"}
    BY <1>2, <2>1 DEF SavedInv, Source
  <2>2. CASE in_place /\ phase \in Preparing \union Pivoting
    <3>1. saved \subseteq Cases(resume) /\ finished \subseteq DetCases(resume)
      BY <1>2, <2>2 DEF SavedInv, Source
    <3> QED BY <3>1, ResumeIsImported
  <2>3. CASE ~in_place /\ phase \in Preparing \union Pivoting
    <3>1. saved \subseteq Cases(queue) /\ finished = {}
      BY <1>2, <2>3, FreshHolds
    <3>2. resume = NoDir
      BY <1>2, <2>3 DEF StartInv
    <3> QED BY <1>4, <3>1, <3>2
  <2>4. CASE phase = "nuke"
    <3>1. saved \subseteq Cases(queue) /\ finished \subseteq DetCases(queue)
      BY <1>2, <2>4, RestHolds
    <3>2. CASE Exists(resume)
      <4>1. NextImport = resume /\ saved \subseteq Cases(resume)
        BY <1>2, <2>4, <3>2 DEF SavedInv, NextImport
      <4> QED BY <1>2, <2>4, <3>1, <3>2, <4>1
    <3>3. CASE ~Exists(resume)
      BY <1>4, <3>1, <3>3 DEF Exists
    <3> QED BY <3>2, <3>3
  <2>5. CASE phase \in {"dry_run"} \union AtRest
    <3>1. saved \subseteq Cases(queue) /\ finished \subseteq DetCases(queue)
      BY <1>2, <2>5, RestHolds
    <3>2. resume = NoDir
      BY <1>2, <2>5 DEF StartInv, Running
    <3> QED BY <1>4, <3>1, <3>2
  <2>6. CASE phase \in Adding \union {"write"}
    <3>1. /\ saved \subseteq MemCases(mem, Len(mem) - 1)
          /\ finished \subseteq MemDone(mem, Len(mem))
      BY <1>2, <2>6 DEF SavedInv
    <3>2. resume = NoDir
      BY <1>2, <2>6 DEF StartInv, Running
    <3> QED BY <1>4, <2>6, <3>1, <3>2, WriteHolds
  <2> QED BY <1>2, <2>1, <2>2, <2>3, <2>4, <2>5, <2>6 DEF Phases
<1>6. Empty \notin saved \union finished
  BY <1>2 DEF SavedInv
<1> QED BY <1>1, <1>3, <1>5, <1>6 DEF SavedInv, Source

LEMMA RestSaved ==
  ASSUME SavedInv, RemoveStats \/ UNCHANGED vars PROVE SavedInv'
<1>1. CASE RemoveStats
  <2>1. phase = "off" /\ UNCHANGED <<phase, in_place, queue, resume, mem, saved, finished, debris>>
    BY <1>1 DEF RemoveStats, history
  <2> QED BY <2>1 DEF SavedInv, Source, NextImport, Exists, Cases, DetCases,
                      Preparing, Pivoting, Imported, AtRest, Rewriting, Adding
<1>2. CASE UNCHANGED vars
  BY <1>2 DEF vars, disk, history, SavedInv, Source, NextImport, Exists, Cases, DetCases
<1> QED BY <1>1, <1>2

\* What is true of every state of a history of sessions.
SurvivalInv == phase \in Phases /\ DiskInv /\ StartInv /\ SavedInv

LEMMA SurvivalHolds == Spec => []SurvivalInv
<1>1. Init => SurvivalInv
  <2>1. Init => DiskInv
    BY InitDisk
  <2>2. Init => StartInv /\ phase \in Phases
    BY DEF Init, StartInv, Phases, Preparing, Pivoting, Imported, Running, AtRest,
           Rewriting, Adding
  <2>3. Init => SavedInv
    BY DEF Init, SavedInv, Source, Preparing, Pivoting, Imported, AtRest, Rewriting, Adding
  <2> QED BY <2>1, <2>2, <2>3 DEF SurvivalInv
<1>2. SurvivalInv /\ [Next]_vars => SurvivalInv'
  <2> SUFFICES ASSUME SurvivalInv, [Next]_vars PROVE SurvivalInv'
    OBVIOUS
  <2>1. phase \in Phases /\ DiskInv /\ StartInv /\ SavedInv
    BY DEF SurvivalInv
  <2>2. SavedInv'
    <3>1. CASE Session
      BY <2>1, <3>1, StartSaved, ClearSaved, ReadSaved, PivotSaved, NukeSaved,
         SessionSaved, SaveSaved, MarkSaved DEF Session
    <3>2. CASE Kill
      BY <2>1, <3>2, KillSaved
    <3>3. CASE RemoveStats \/ UNCHANGED vars
      BY <2>1, <3>3, RestSaved
    <3> QED BY <3>1, <3>2, <3>3 DEF Next
  <2> QED BY <2>1, <2>2, StepPhase, StepDisk, StepStart DEF SurvivalInv
<1> QED BY <1>1, <1>2, PTL DEF Spec

\* maybe_delete_out_dir(), pivot_inputs(), nuke_resume_dir(): however sessions, kills
\* and resumptions follow each other, the next import has every case that was written,
\* but for the moments that debris names.
THEOREM CasesAreNotLost == Spec => []CasesSurvive
<1>1. SurvivalInv => CasesSurvive
  BY DEF SurvivalInv, SavedInv, Source, CasesSurvive
<1> QED BY <1>1, SurvivalHolds, PTL

\* Neither is a mark of a case whose deterministic stages are done.
THEOREM MarksAreNotLost == Spec => []MarksSurvive
<1>1. SurvivalInv => MarksSurvive
  BY DEF SurvivalInv, SavedInv, Source, MarksSurvive
<1> QED BY <1>1, SurvivalHolds, PTL


-----------------------------------------------------------------------------
(* The position that a resumption takes up.                                 *)

\* The statistics are those of the session, or of one it resumes.
Trusted == trusted /\ ~debris /\ stats \notin {NoStats, Torn}

\* A directory whose n cases have their positions as ids, with the case at the
\* recorded position; likewise a queue in memory.
Full(dir) == {i \in DOMAIN dir.files : dir.files[i] # Empty}
Listed(dir) == \E n \in Nat :
  /\ Full(dir) = 0..n - 1
  /\ stats.cur_path \in 0..n - 1 /\ dir.files[stats.cur_path] = stats.case
Known(n) == stats.cur_path \in 0..n - 1 /\ mem[stats.cur_path + 1].case = stats.case

\* From the kill to the walk the case stays at the position that was recorded.
SeekInv ==
  Trusted =>
    /\ phase \in {"off", "fatal"} \union Preparing \union Pivoting => Listed(Source)
    /\ phase \in Preparing \union Pivoting => in_place
    /\ phase \in Pivoting => Named(Len(mem))
    /\ phase = "pivot_mark" \/ (phase = "pivot" /\ k > 0) => resuming_fuzz
    /\ phase = "nuke" /\ resume.state => Listed(resume)
    /\ phase \in Imported => in_place /\ resuming_fuzz
    /\ phase \in (Pivoting \union Imported \union AtRest \union Rewriting)
                  \ (Adding \union {"write"}) => Known(Len(mem))
    /\ phase \in Adding \union {"write"} => Known(Len(mem) - 1)

\* An initial segment of the numbers is its own enumeration.
LEMMA PositionsAreIds ==
  ASSUME NEW dir, NEW n \in Nat, Full(dir) = 0..n - 1
  PROVE  Ids(dir) = [l \in 1..n |-> l - 1]
<1> DEFINE full == Full(dir)
<1>1. ASSUME NEW i \in 0..n PROVE Cardinality(0..i - 1) = i
  <2>1. 0 \in Int /\ i - 1 \in Int
    OBVIOUS
  <2>2. Cardinality(0..i - 1) = IF 0 > i - 1 THEN 0 ELSE i - 1 - 0 + 1
    BY <2>1, FS_Interval
  <2> QED BY <2>2
<1>2. Ids(dir) = [l \in 1..Cardinality(full) |->
                    CHOOSE i \in full : Cardinality({j \in full : j < i}) = l - 1]
  BY DEF Ids, Full
<1>3. full = 0..n - 1
  OBVIOUS
<1> HIDE DEF full
<1>4. ASSUME NEW i \in full PROVE Cardinality({j \in full : j < i}) = i
  <2>1. i \in 0..n /\ {j \in full : j < i} = 0..i - 1
    BY <1>3
  <2> QED BY <1>1, <2>1
<1>5. ASSUME NEW l \in 1..n
      PROVE  (CHOOSE i \in full : Cardinality({j \in full : j < i}) = l - 1) = l - 1
  <2>1. l - 1 \in full
    BY <1>3
  <2> QED BY <1>4, <2>1
<1>6. Cardinality(full) = n
  <2>1. n \in 0..n
    OBVIOUS
  <2> QED BY <1>1, <1>3, <2>1
<1> QED BY <1>2, <1>5, <1>6

LEMMA StartSeek ==
  ASSUME SeekInv, StartFails \/ StartFresh \/ StartInPlace PROVE SeekInv'
<1>1. CASE StartFails \/ StartFresh
  <2>1. ~Trusted'
    BY <1>1 DEF StartFails, StartFresh, disk, history, Trusted
  <2> QED BY <2>1 DEF SeekInv
<1>2. CASE StartInPlace
  <2>1. /\ phase = "off" /\ phase' = "clear" /\ in_place' = TRUE
        /\ UNCHANGED <<stats, trusted, debris>>
    BY <1>2 DEF StartInPlace, history
  <2>2. resume' = NextImport
    BY <1>2 DEF StartInPlace, NextImport
  <2>3. Trusted => Listed(NextImport)
    BY <2>1 DEF SeekInv, Source
  <2> QED BY <2>1, <2>2, <2>3 DEF SeekInv, Source, Listed, Full, Trusted, Preparing, Pivoting,
                                  Imported, AtRest, Rewriting, Adding
<1> QED BY <1>1, <1>2

LEMMA ClearSeek ==
  ASSUME SeekInv, ClearMark \/ ClearState \/ ClearCase \/ ClearStats \/ SetupDirs
  PROVE  SeekInv'
<1> USE DEF Preparing, Pivoting, Imported, AtRest, Rewriting, Adding
<1>1. /\ phase \in Preparing /\ phase' \in Preparing
      /\ UNCHANGED <<in_place, resume, trusted, debris>>
  BY DEF ClearMark, ClearState, ClearCase, ClearStats, SetupDirs, history
<1>2. stats' \in {stats, NoStats}
  BY DEF ClearMark, ClearState, ClearCase, ClearStats, SetupDirs
<1> SUFFICES ASSUME Trusted' PROVE SeekInv'
  BY DEF SeekInv
<1>3. stats' = stats /\ Trusted
  BY <1>1, <1>2 DEF Trusted
<1> QED BY <1>1, <1>3 DEF SeekInv, Source, Listed, Full

LEMMA ReadSeek == ASSUME SeekInv, ReadTestcases PROVE SeekInv'
<1> USE DEF Preparing, Pivoting, Imported, AtRest, Rewriting, Adding
<1> SUFFICES ASSUME Trusted' PROVE SeekInv'
  BY DEF SeekInv
<1> DEFINE read == IF in_place THEN OldQueue ELSE NewQueue
<1>1. /\ phase = "read" /\ mem' = read /\ k' = 0
      /\ phase' = IF read = <<>> THEN "fatal" ELSE "pivot"
      /\ UNCHANGED <<in_place, queue, resume, stats, trusted, debris>>
  <2>1. PICK order :
          /\ phase = "read" /\ mem' = order /\ k' = 0
          /\ phase' = IF order = <<>> THEN "fatal" ELSE "pivot"
          /\ trusted' = (trusted /\ order = read)
          /\ UNCHANGED <<in_place, queue, resume, stats, debris>>
    BY DEF ReadTestcases, disk
  <2> HIDE DEF read
  <2>2. trusted' = TRUE
    BY <2>1 DEF Trusted
  <2>3. order = read /\ trusted
    BY <2>1, <2>2
  <2>4. trusted' = trusted
    BY <2>1, <2>3
  <2> QED BY <2>1, <2>3, <2>4
<1>2. Trusted /\ in_place /\ Listed(resume)
  BY <1>1 DEF SeekInv, Source, Trusted
<1>3. PICK n \in Nat :
        /\ Full(resume) = 0..n - 1
        /\ stats.cur_path \in 0..n - 1 /\ resume.files[stats.cur_path] = stats.case
  BY <1>2 DEF Listed
<1>4. Ids(resume) = [l \in 1..n |-> l - 1]
  BY <1>3, PositionsAreIds
<1>5. Len(Ids(resume)) = n
  BY <1>4
<1>6. mem' = [l \in 1..n |-> [case |-> resume.files[l - 1], id |-> l - 1,
                              passed_det |-> l - 1 \in resume.det]]
  BY <1>1, <1>2, <1>4, <1>5 DEF OldQueue
<1>7. Len(mem') = n /\ n > 0
  BY <1>3, <1>6
<1>8. phase' = "pivot"
  <2>1. mem' # <<>>
    BY <1>7
  <2> QED BY <1>1, <2>1
<1>9. Named(n)'
  BY <1>6 DEF Named
<1>10. Known(n)'
  <2>1. PICK l \in 1..n : l = stats.cur_path + 1 /\ l - 1 = stats.cur_path
    <3>1. PICK c \in 0..n - 1 : c = stats.cur_path
      BY <1>3
    <3>2. c + 1 \in 1..n /\ c + 1 - 1 = c
      OBVIOUS
    <3> QED BY <3>1, <3>2
  <2>2. mem'[l].case = resume.files[l - 1]
    BY <1>6
  <2> QED BY <1>1, <1>3, <2>1, <2>2 DEF Known
<1>11. Listed(resume)'
  BY <1>1, <1>2 DEF Listed, Full
<1> QED BY <1>1, <1>2, <1>7, <1>8, <1>9, <1>10, <1>11 DEF SeekInv, Source

LEMMA PivotSeek ==
  ASSUME DiskInv, SeekInv, PivotCase \/ PivotMark \/ PivotDone PROVE SeekInv'
<1> USE DEF Preparing, Pivoting, Imported, AtRest, Rewriting, Adding
<1>1. phase \in Pivoting /\ UNCHANGED <<in_place, resume, stats, trusted, debris>>
  BY DEF PivotCase, PivotMark, PivotDone, disk, history
<1> SUFFICES ASSUME Trusted' PROVE SeekInv'
  BY DEF SeekInv
<1>2. /\ Trusted /\ in_place /\ Listed(resume) /\ Named(Len(mem)) /\ Known(Len(mem))
      /\ phase = "pivot_mark" \/ (phase = "pivot" /\ k > 0) => resuming_fuzz
  BY <1>1 DEF SeekInv, Source, Trusted
<1>3. Listed(resume)'
  BY <1>1, <1>2 DEF Listed, Full
<1>4. Queue(mem) /\ Len(mem) \in Nat \ {0} /\ k \in Nat
  BY <1>1 DEF DiskInv, Queue
<1>5. CASE PivotCase
  <2>1. phase = "pivot" /\ phase' \in Pivoting /\ k < Len(mem)
    BY <1>5 DEF PivotCase
  <2>2. resuming_fuzz'
    <3>1. k \in 0..Len(mem) - 1
      BY <1>4, <2>1
    <3>2. mem[k + 1].id = k
      BY <1>2, <3>1 DEF Named
    <3> QED BY <1>5, <3>2 DEF PivotCase
  <2>3. Len(mem') = Len(mem) /\ mem'[k + 1].id = k
    BY <1>5, PivotNames
  <2>4. \A i \in 1..Len(mem) : mem'[i].case = mem[i].case
    BY <1>5, PivotNames
  <2>5. \A i \in 1..Len(mem) : i # k + 1 => mem'[i] = mem[i]
    BY <1>5, PivotNames
  <2>6. Named(Len(mem))'
    <3>1. ASSUME NEW i \in 0..Len(mem) - 1 PROVE mem'[i + 1].id = i
      <4>1. i + 1 \in 1..Len(mem)
        BY <1>4
      <4>2. CASE i = k
        BY <2>3, <4>2
      <4>3. CASE i # k
        <5>1. i + 1 # k + 1
          BY <1>4, <4>3
        <5>2. mem'[i + 1] = mem[i + 1]
          BY <2>5, <4>1, <5>1
        <5> QED BY <1>2, <5>2 DEF Named
      <4> QED BY <4>2, <4>3
    <3> QED BY <2>3, <3>1 DEF Named
  <2>7. Known(Len(mem))'
    <3>1. stats.cur_path + 1 \in 1..Len(mem)
      BY <1>2, <1>4 DEF Known
    <3> QED BY <1>1, <1>2, <2>3, <2>4, <3>1 DEF Known
  <2> QED BY <1>1, <1>2, <1>3, <2>1, <2>2, <2>3, <2>6, <2>7 DEF SeekInv, Source
<1>6. CASE PivotMark
  <2>1. phase = "pivot_mark" /\ phase' = "pivot" /\ UNCHANGED <<mem, resuming_fuzz>>
    BY <1>6 DEF PivotMark
  <2>2. Named(Len(mem))' /\ Known(Len(mem))'
    BY <1>1, <1>2, <2>1 DEF Named, Known
  <2> QED BY <1>1, <1>2, <1>3, <2>1, <2>2 DEF SeekInv, Source
<1>7. CASE PivotDone
  <2>1. /\ phase = "pivot" /\ k = Len(mem) /\ phase' = "nuke"
        /\ UNCHANGED <<mem, resuming_fuzz>>
    BY <1>2, <1>7 DEF PivotDone
  <2>2. Known(Len(mem))'
    BY <1>1, <1>2, <2>1 DEF Known
  <2>3. resuming_fuzz
    BY <1>2, <1>4, <2>1
  <2> QED BY <1>1, <1>2, <1>3, <2>1, <2>2, <2>3 DEF SeekInv
<1> QED BY <1>5, <1>6, <1>7

LEMMA NukeSeek ==
  ASSUME DiskInv, SeekInv, NukeMark \/ NukeState \/ NukeCase \/ NukeDone PROVE SeekInv'
<1> USE DEF Preparing, Pivoting, Imported, AtRest, Rewriting, Adding
<1>1. /\ phase = "nuke" /\ phase' \in Imported
      /\ UNCHANGED <<in_place, queue, stats, mem, resuming_fuzz>>
  BY DEF NukeMark, NukeState, NukeCase, NukeDone, disk
<1> SUFFICES ASSUME Trusted' PROVE SeekInv'
  BY DEF SeekInv
<1>2. Trusted
  <2>1. trusted' => UNCHANGED <<trusted, debris>>
    BY DEF NukeMark, NukeState, NukeCase, NukeDone, history
  <2>2. trusted'
    BY DEF Trusted
  <2>3. trusted' = trusted /\ debris' = debris /\ stats' = stats
    BY <1>1, <2>1, <2>2
  <2> QED BY <2>3 DEF Trusted
<1>3. Known(Len(mem)) /\ in_place /\ resuming_fuzz /\ (resume.state => Listed(resume))
  BY <1>1, <1>2 DEF SeekInv
<1>4. Known(Len(mem))'
  BY <1>1, <1>3 DEF Known
<1>5. phase' = "nuke" /\ resume'.state => resume.state /\ resume'.files = resume.files
  <2>1. CASE NukeMark
    BY <2>1, MarkDir DEF NukeMark, DiskInv
  <2>2. CASE NukeState
    BY <2>2, StateDir DEF NukeState, DiskInv
  <2>3. CASE NukeCase
    <3>1. resume'.state = resume.state /\ ~resume.state
      BY <2>3, RemoveDir DEF NukeCase, DiskInv
    <3> QED BY <3>1
  <2>4. CASE NukeDone
    BY <2>4 DEF NukeDone
  <2> QED BY <2>1, <2>2, <2>3, <2>4
<1>6. phase' = "nuke" /\ resume'.state => Listed(resume)'
  BY <1>1, <1>3, <1>5 DEF Listed, Full
<1> QED BY <1>1, <1>3, <1>4, <1>6 DEF SeekInv

LEMMA SessionSeek ==
  ASSUME SeekInv,
         Seek \/ FirstStats \/ TruncateStats \/ TrimUnlink \/ TrimCreate \/ TrimWrite
           \/ NextEntry
  PROVE  SeekInv'
<1> USE DEF Preparing, Pivoting, Imported, AtRest, Rewriting, Adding
<1>1. /\ \/ /\ phase \in Running \ (Adding \union {"write"})
            /\ phase' \in (AtRest \union Rewriting) \ (Adding \union {"write"})
         \/ phase \in Adding /\ phase' \in Adding
      /\ UNCHANGED <<mem, trusted, debris>>
      /\ stats' \in {stats, Torn}
  BY DEF Seek, FirstStats, TruncateStats, TrimUnlink, TrimCreate, TrimWrite, NextEntry,
         disk, history, Running
<1> SUFFICES ASSUME Trusted' PROVE SeekInv'
  BY DEF SeekInv
<1>2. stats' = stats /\ Trusted
  BY <1>1 DEF Trusted
<1>3. IF phase \in Adding THEN Known(Len(mem) - 1) ELSE Known(Len(mem))
  BY <1>1, <1>2 DEF SeekInv, Running
<1>4. IF phase \in Adding THEN Known(Len(mem) - 1)' ELSE Known(Len(mem))'
  BY <1>1, <1>2, <1>3 DEF Known
<1> QED BY <1>1, <1>4 DEF SeekInv

\* What is written names the case at the position.
LEMMA WriteSeek == ASSUME DiskInv, WriteStats PROVE SeekInv'
<1> USE DEF Preparing, Pivoting, Imported, AtRest, Rewriting, Adding
<1> DEFINE current_entry == IF phase = "first_stats" THEN 0 ELSE k
<1>1. /\ phase \in {"stats", "first_stats", "found_stats"} /\ mem' = mem
      /\ phase' = IF phase = "found_stats" THEN "found" ELSE "run"
      /\ stats' = [cur_path |-> current_entry, case |-> mem[current_entry + 1].case]
  BY DEF WriteStats
<1>2. CASE phase \in {"stats", "first_stats"}
  <2>1. current_entry \in 0..Len(mem) - 1
    BY <1>1, <1>2 DEF DiskInv, Queue
  <2>2. Known(Len(mem))'
    BY <1>1, <2>1 DEF Known
  <2> QED BY <1>1, <1>2, <2>2 DEF SeekInv
<1>3. CASE phase = "found_stats"
  <2>1. current_entry \in 0..Len(mem) - 1 - 1
    BY <1>3 DEF DiskInv, Queue
  <2>2. Known(Len(mem) - 1)'
    BY <1>1, <2>1 DEF Known
  <2> QED BY <1>1, <1>3, <2>2 DEF SeekInv
<1> QED BY <1>1, <1>2, <1>3

LEMMA SaveSeek ==
  ASSUME DiskInv, SeekInv,
         AddToQueue \/ CreateCase \/ WriteCase \/ MarkAsDetDone
  PROVE  SeekInv'
<1> USE DEF Preparing, Pivoting, Imported, AtRest, Rewriting, Adding
<1>1. UNCHANGED <<stats, trusted, debris>>
  BY DEF AddToQueue, CreateCase, WriteCase, MarkAsDetDone, disk, history
<1> SUFFICES ASSUME Trusted' PROVE SeekInv'
  BY DEF SeekInv
<1>2. Trusted
  BY <1>1 DEF Trusted
<1> DEFINE N == Len(mem)
<1>3. phase \in {"run", "found", "write"} /\ N \in Nat
  BY DEF AddToQueue, CreateCase, WriteCase, MarkAsDetDone, DiskInv, Queue
<1>4. CASE AddToQueue
  <2>1. phase = "run" /\ phase' = "found" /\ Known(N)
    BY <1>2, <1>4 DEF AddToQueue, SeekInv
  <2>2. Len(mem') = N + 1 /\ \A i \in 1..N : mem'[i] = mem[i]
    BY <1>4, AddAppends
  <2>3. stats.cur_path \in 0..N - 1 /\ stats.cur_path + 1 \in 1..N
    BY <1>3, <2>1 DEF Known
  <2>4. Len(mem') - 1 = N
    BY <1>3, <2>2
  <2>5. Known(Len(mem) - 1)'
    BY <1>1, <2>1, <2>2, <2>3, <2>4 DEF Known
  <2> QED BY <2>1, <2>5 DEF SeekInv
<1>5. CASE WriteCase
  <2>1. phase = "write" /\ phase' = "run" /\ mem' = mem /\ Known(N - 1)
    BY <1>2, <1>5 DEF WriteCase, SeekInv
  <2>2. Known(N)'
    BY <1>1, <1>3, <2>1 DEF Known
  <2> QED BY <2>1, <2>2 DEF SeekInv
<1>6. CASE MarkAsDetDone
  <2>1. phase = "run" /\ phase' = "run" /\ Known(N)
    BY <1>2, <1>6 DEF MarkAsDetDone, SeekInv
  <2>2. Len(mem') = N /\ \A i \in 1..N : mem'[i].case = mem[i].case
    BY <1>6, MarkMarks
  <2>3. stats.cur_path + 1 \in 1..N
    BY <1>3, <2>1 DEF Known
  <2>4. Known(N)'
    BY <1>1, <2>1, <2>2, <2>3 DEF Known
  <2> QED BY <2>1, <2>2, <2>4 DEF SeekInv
<1>7. CASE CreateCase
  <2>1. phase = "found" /\ phase' = "write" /\ mem' = mem /\ Known(N - 1)
    BY <1>2, <1>7 DEF CreateCase, SeekInv
  <2>2. Known(N - 1)'
    BY <1>1, <2>1 DEF Known
  <2> QED BY <2>1, <2>2 DEF SeekInv
<1> QED BY <1>4, <1>5, <1>6, <1>7

\* The files of the first n entries of a queue are a list of cases.
LEMMA FilesAreListed ==
  ASSUME NEW dir, NEW n \in Nat, 0..n - 1 \subseteq DOMAIN dir.files, Known(n),
         \A i \in DOMAIN dir.files : dir.files[i] # Empty <=> i \in 0..n - 1,
         \A i \in 0..n - 1 : dir.files[i] = mem[i + 1].case
  PROVE  Listed(dir)
<1>1. Full(dir) = 0..n - 1
  BY DEF Full
<1> QED BY <1>1 DEF Listed, Known

LEMMA KillSeek ==
  ASSUME phase \in Phases, DiskInv, StartInv, SeekInv, Kill PROVE SeekInv'
<1> USE DEF Preparing, Pivoting, Imported, AtRest, Rewriting, Adding
<1>1. phase' = "off" /\ UNCHANGED <<queue, resume, stats, trusted>>
  BY DEF Kill, disk
<1> SUFFICES ASSUME Trusted' PROVE SeekInv'
  BY DEF SeekInv
<1>2. /\ ~debris /\ Trusted /\ phase \notin {"trim", "trim_write"}
      /\ phase = "nuke" /\ Exists(resume) => resume.state
  BY <1>1 DEF Kill, Trusted
<1>3. Listed(resume) => NextImport = resume
  <2>1. DOMAIN NoDir.files = {}
    BY DEF NoDir
  <2>2. Listed(resume) => resume # NoDir
    BY <2>1 DEF Listed, Full
  <2> QED BY <2>2 DEF NextImport, Exists
<1>4. resume = NoDir => NextImport = queue
  BY DEF NextImport, Exists
<1>5. Listed(NextImport)
  <2>1. CASE phase \in {"off", "fatal"}
    BY <1>2, <2>1 DEF SeekInv, Source
  <2>2. CASE phase \in Preparing \union Pivoting
    BY <1>2, <1>3, <2>2 DEF SeekInv, Source
  <2>3. CASE phase = "nuke" /\ Exists(resume)
    BY <1>2, <1>3, <2>3 DEF SeekInv
  <2>4. CASE phase \in {"dry_run"} \union AtRest \/ (phase = "nuke" /\ ~Exists(resume))
    <3>1. resume = NoDir
      BY <1>2, <2>4 DEF StartInv, Running, Exists
    <3>2. Queue(mem) /\ queue.files = Files(mem, Len(mem))
      BY <2>4 DEF DiskInv
    <3> DEFINE N == Len(mem)
    <3>3. Known(N)
      BY <1>2, <2>4 DEF SeekInv
    <3>4. N \in Nat /\ \A i \in 1..N : mem[i].case # Empty
      BY <3>2 DEF Queue
    <3>5. queue.files = [i \in 0..N - 1 |-> mem[i + 1].case]
      BY <3>2 DEF Files
    <3> HIDE DEF N
    <3>6. \A i \in 0..N - 1 : i + 1 \in 1..N
      BY <3>4
    <3>7. \A i \in 0..N - 1 :
            queue.files[i] = mem[i + 1].case /\ queue.files[i] # Empty
      BY <3>4, <3>5, <3>6
    <3>8. DOMAIN queue.files = 0..N - 1
      BY <3>5
    <3>9. Listed(queue)
      BY <3>3, <3>4, <3>7, <3>8, FilesAreListed
    <3> QED BY <1>4, <3>1, <3>9
  <2>5. CASE phase = "write"
    <3> DEFINE N == Len(mem)
    <3>1. resume = NoDir
      BY <1>2, <2>5 DEF StartInv, Running
    <3>2. /\ N \in Nat \ {0} /\ \A i \in 1..N : mem[i].case # Empty
          /\ queue.files = [i \in 0..N - 1 |-> IF i = N - 1 THEN Empty ELSE mem[i + 1].case]
      BY <2>5 DEF DiskInv, Queue
    <3>3. Known(N - 1)
      BY <1>2, <2>5 DEF SeekInv
    <3> HIDE DEF N
    <3>4. N - 1 \in Nat /\ 0..N - 1 - 1 \subseteq 0..N - 1
      BY <3>2
    <3>5. ASSUME NEW i \in 0..N - 1
          PROVE  /\ i \in 0..N - 1 - 1 => /\ queue.files[i] = mem[i + 1].case
                                          /\ queue.files[i] # Empty
                 /\ i \notin 0..N - 1 - 1 => queue.files[i] = Empty
      BY <3>2
    <3>6. DOMAIN queue.files = 0..N - 1
      BY <3>2
    <3>7. Listed(queue)
      BY <3>3, <3>4, <3>5, <3>6, FilesAreListed
    <3> QED BY <1>4, <3>1, <3>7
  <2>6. CASE phase \in Adding
    <3> DEFINE N == Len(mem) - 1
    <3>1. resume = NoDir
      BY <1>2, <2>6 DEF StartInv, Running
    <3>2. /\ N \in Nat /\ queue.files = Files(mem, N)
          /\ \A i \in 1..N : mem[i].case # Empty
      BY <2>6 DEF DiskInv, Queue
    <3>3. Known(N)
      BY <1>2, <2>6 DEF SeekInv
    <3>4. queue.files = [i \in 0..N - 1 |-> mem[i + 1].case]
      BY <3>2 DEF Files
    <3> HIDE DEF N
    <3>5. \A i \in 0..N - 1 : i + 1 \in 1..N
      BY <3>2
    <3>6. \A i \in 0..N - 1 :
            queue.files[i] = mem[i + 1].case /\ queue.files[i] # Empty
      BY <3>2, <3>4, <3>5
    <3>7. DOMAIN queue.files = 0..N - 1
      BY <3>4
    <3>8. Listed(queue)
      BY <3>2, <3>3, <3>6, <3>7, FilesAreListed
    <3> QED BY <1>4, <3>1, <3>8
  <2> QED BY <1>2, <2>1, <2>2, <2>3, <2>4, <2>5, <2>6 DEF Phases
<1>6. Listed(NextImport)'
  BY <1>1, <1>5 DEF Listed, Full, NextImport, Exists
<1> QED BY <1>1, <1>6 DEF SeekInv, Source

LEMMA RestSeek ==
  ASSUME SeekInv, RemoveStats \/ UNCHANGED vars PROVE SeekInv'
<1>1. CASE RemoveStats
  <2>1. ~Trusted'
    BY <1>1 DEF RemoveStats, Trusted
  <2> QED BY <2>1 DEF SeekInv
<1>2. CASE UNCHANGED vars
  BY <1>2 DEF vars, disk, history, SeekInv, Trusted, Source, NextImport, Exists, Listed, Full,
              Known, Named
<1> QED BY <1>1, <1>2

LEMMA SeekHolds == Spec => []SeekInv
<1>1. Init => SeekInv
  BY DEF Init, SeekInv, Trusted
<1>2. SurvivalInv /\ SeekInv /\ [Next]_vars => SeekInv'
  <2> SUFFICES ASSUME SurvivalInv, SeekInv, [Next]_vars PROVE SeekInv'
    OBVIOUS
  <2>1. phase \in Phases /\ DiskInv /\ StartInv
    BY DEF SurvivalInv
  <2>2. CASE Session
    BY <2>1, <2>2, StartSeek, ClearSeek, ReadSeek, PivotSeek, NukeSeek, SessionSeek,
       WriteSeek, SaveSeek DEF Session
  <2>3. CASE Kill
    BY <2>1, <2>3, KillSeek
  <2>4. CASE RemoveStats \/ UNCHANGED vars
    BY <2>4, RestSeek
  <2> QED BY <2>2, <2>3, <2>4 DEF Next
<1> QED BY <1>1, <1>2, SurvivalHolds, PTL DEF Spec

\* find_start_position(), write_stats_file(): a session that resumes takes up the
\* case at which the statistics were last written, whatever kills and resumptions lie
\* between.
THEOREM SeekFindsTheCase == Spec => SeekSameCase
<1>1. ASSUME SurvivalInv, SeekInv, [Next]_vars,
             phase = "dry_run" /\ phase' = "begin" /\ in_place /\ trusted /\ ~debris
               /\ stats # NoStats
      PROVE  mem[k' + 1].case = stats.case
  <2>1. stats # Torn
    BY <1>1 DEF SurvivalInv, StartInv
  <2>2. Known(Len(mem)) /\ resuming_fuzz
    BY <1>1, <2>1 DEF SeekInv, Trusted, Imported, Adding
  <2>3. k' = find_start_position
    <3>1. CASE Seek
      BY <3>1 DEF Seek
    <3>2. CASE ~Seek
      <4>1. Session
        BY <1>1 DEF Next, Kill, RemoveStats, vars
      <4> QED BY <1>1, <3>2, <4>1 DEF Session, StartFails, StartFresh, StartInPlace,
                ClearMark, ClearState, ClearCase, ClearStats, SetupDirs, ReadTestcases,
                PivotCase, PivotMark, PivotDone, NukeMark, NukeState, NukeCase, NukeDone,
                FirstStats, TruncateStats, WriteStats, AddToQueue, CreateCase, WriteCase,
                MarkAsDetDone, TrimUnlink, TrimCreate, TrimWrite, NextEntry
    <3> QED BY <3>1, <3>2
  <2>4. Len(mem) \in Nat
    BY <1>1 DEF SurvivalInv, DiskInv, Imported, Queue
  <2>5. k' = stats.cur_path
    BY <1>1, <2>2, <2>3, <2>4 DEF find_start_position, Known
  <2> QED BY <2>2, <2>5 DEF Known
<1>2. SurvivalInv /\ SeekInv /\ [Next]_vars =>
        [(phase = "dry_run" /\ phase' = "begin" /\ in_place /\ trusted /\ ~debris
            /\ stats # NoStats) => mem[k' + 1].case = stats.case]_vars
  BY <1>1
<1> QED BY <1>2, SurvivalHolds, SeekHolds, PTL DEF Spec, SeekSameCase
=============================================================================
