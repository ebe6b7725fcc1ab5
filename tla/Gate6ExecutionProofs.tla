------------------------ MODULE Gate6ExecutionProofs ------------------------
(***************************************************************************)
(* Theorems about Gate6Execution, for any number of tasks and roles, any   *)
(* configurations, any durations under the alarm and any budget.           *)
(***************************************************************************)
EXTENDS Gate6Execution, TLAPS

Places ==
  {"idle", "plan", "previous", "copy", "verified", "copying", "carry", "load",
   "generate", "checkpoint", "progress", "result", "abort", "close", "seal"}

\* Where a retry works on the checkpoints it takes over.
Reusing == {"copy", "verified", "copying"}

SomeCheckpoints == UNION {[S -> Checkpoint] : S \in SUBSET Tasks}

DirectoryType(d) ==
  /\ d = [exists |-> d.exists, plan |-> d.plan, ckpts |-> d.ckpts,
          progress |-> d.progress, abort |-> d.abort, result |-> d.result,
          seal |-> d.seal]
  /\ d.exists \in BOOLEAN
  /\ d.ckpts \in SomeCheckpoints
  /\ d.progress \in Count \cup {None}
  /\ d.abort \in Count \cup {None}

TypeInv ==
  /\ disk = [a \in Attempts |-> disk[a]]
  /\ \A a \in Attempts : DirectoryType(disk[a])
  /\ running \in Attempts \cup {None}
  /\ pc \in Places
  /\ running # None => config \in Configs
  /\ reused \in 0..N /\ completed \in 0..N /\ task \in 0..N
  /\ role \in Nat /\ secs \in Nat /\ used \in Nat
  /\ tries \in [Tasks -> SUBSET Attempts]
  /\ struck \subseteq Attempts \X Tasks

\* What a directory holds, whoever runs: the first attempt aborted behind its
\* last checkpoint.
Directories ==
  /\ \A a \in Attempts : ~disk[a].exists => disk[a] = NoFiles
  /\ \A t \in DOMAIN disk["v1"].ckpts : disk["v1"].ckpts[t].by = "v1"
  /\ disk["v1"].abort # None =>
       DOMAIN disk["v1"].ckpts = 0..(disk["v1"].abort.completed - 1)

\* A process that runs has a directory of its own without an abort record and
\* a seal, and a checkpoint of each task it counted, besides one it copies.
AtWork ==
  /\ pc = "idle" <=> running = None
  /\ pc \in Reusing \cup {"previous", "carry"} => running = "v2"
  /\ running = "v1" => reused = 0
  /\ running # None =>
       LET d == disk[running] IN
       /\ d.exists /\ d.abort = None /\ d.seal = None
       /\ pc \in {"close", "seal"} <=> d.result # None
       /\ DOMAIN d.ckpts = 0..(IF pc = "copying" THEN completed ELSE completed - 1)
       /\ pc = "previous" => completed = 0
       /\ pc \in Reusing \cup {"previous", "plan"} => d.progress = None
       /\ pc = "copy" => completed <= reused
       /\ pc \in {"verified", "copying"} => completed < reused
       /\ pc \in {"plan", "carry", "load"} => completed = reused
       /\ pc = "load" /\ running = "v2" => d.progress # None
       /\ pc \in {"load", "generate", "checkpoint"} /\ d.progress # None =>
            d.progress.completed = completed
       /\ pc \in {"generate", "checkpoint"} => task = completed
       /\ pc = "progress" => task = completed - 1
       /\ pc \in {"generate", "checkpoint", "progress"} => reused <= task /\ task < N
       /\ pc \in {"result", "close", "seal"} =>
            completed = N /\ d.progress # None /\ d.progress.completed = N

\* A retry that passed its first test works behind an abort of the first
\* attempt, and what it did not copy it made itself.
Retry ==
  running = "v2" /\ pc # "previous" =>
    /\ disk["v1"].abort # None /\ disk["v1"].abort.completed = reused
    /\ disk["v1"].progress # None /\ disk["v1"].progress.completed = reused
    /\ \A t \in DOMAIN disk["v2"].ckpts :
         disk["v2"].ckpts[t].by = IF t < reused THEN "v1" ELSE "v2"

\* The first attempt stopped at the task it aborted, the retry started there.
Tried ==
  \A t \in Tasks :
    /\ "v1" \in tries[t] =>
         /\ disk["v1"].exists
         /\ running = "v1" => t <= completed
         /\ disk["v1"].abort # None => t <= disk["v1"].abort.completed
    /\ "v2" \in tries[t] =>
         /\ disk["v2"].exists
         /\ disk["v1"].abort # None /\ disk["v1"].abort.completed <= t

\* The seconds a process may not know of: the alarm of the first attempt may
\* have fired before they were added.
Lost == IF running = "v2" THEN Timeout ELSE 0

BeforeRetry == running = "v2" /\ pc \in Reusing \cup {"previous", "plan"}

Spending ==
  /\ ~disk["v1"].exists => used = 0
  /\ ~disk["v2"].exists \/ running = "v1" \/ BeforeRetry => used < Budget + Timeout
  /\ (~disk["v2"].exists \/ BeforeRetry) /\ disk["v1"].abort # None =>
       used <= disk["v1"].abort.secs + Timeout
  /\ running = "v1" /\ pc \in {"plan", "load"} => used = 0
  /\ running = "v1" /\ pc = "abort" => used <= secs + Timeout
  /\ pc \in {"carry", "load", "generate", "checkpoint", "progress", "result"} =>
       used <= secs + Lost /\ used < Budget + Lost
  /\ BudgetOverrunBounded

\* A checkpoint that is not intact was struck, or is torn: a copy in progress,
\* or left in a directory that will not have a result.  The source of a copy
\* was intact when it was verified.
Intactness ==
  /\ \A a \in Attempts : \A t \in DOMAIN disk[a].ckpts :
       \/ disk[a].ckpts[t].intact
       \/ <<a, t>> \in struck
       \/ disk[a].result = None /\ (running = a => pc = "copying" /\ t = completed)
  /\ pc \in {"verified", "copying"} =>
       disk["v1"].ckpts[completed].intact \/ <<"v2", completed>> \in struck

IInv ==
  /\ TypeInv /\ Directories /\ AtWork /\ Retry /\ Tried /\ Spending /\ Intactness
  /\ ProgressIsBacked /\ SealedRunIsComplete

------------------------------------------------------------------------------
LEMMA CheckpointAdded ==
  ASSUME NEW f \in SomeCheckpoints, NEW t \in Tasks, NEW c \in Checkpoint
  PROVE  /\ With(f, t, c) \in SomeCheckpoints
         /\ DOMAIN With(f, t, c) = DOMAIN f \cup {t}
         /\ With(f, t, c)[t] = c
         /\ \A u \in DOMAIN f : u # t => With(f, t, c)[u] = f[u]
<1>1. PICK S \in SUBSET Tasks : f \in [S -> Checkpoint]
  BY DEF SomeCheckpoints
<1>2. With(f, t, c) \in [S \cup {t} -> Checkpoint]
  BY <1>1 DEF With
<1>3. S \cup {t} \in SUBSET Tasks
  OBVIOUS
<1>4. QED
  BY <1>1, <1>2, <1>3 DEF SomeCheckpoints, With

LEMMA InitInv == Init => IInv
<1> SUFFICES ASSUME Init PROVE IInv
  OBVIOUS
<1> USE ExecutionAssumption DEF Init, Attempts, Reusing
<1>1. TypeInv
  <2>1. <<>> \in SomeCheckpoints
    <3>1. <<>> \in [{} -> Checkpoint]
      OBVIOUS
    <3>2. QED
      BY <3>1 DEF SomeCheckpoints
  <2>2. DirectoryType(NoFiles)
    BY <2>1 DEF DirectoryType, NoFiles
  <2>3. QED
    BY <2>2 DEF TypeInv, Places
<1>2. Directories
  BY DEF Directories, NoFiles
<1>3. AtWork /\ Retry /\ Tried
  BY DEF AtWork, Retry, Tried, Tasks
<1>4. Spending
  BY DEF Spending, BudgetOverrunBounded, BeforeRetry, Lost, NoFiles
<1>7. Intactness
  BY DEF Intactness, NoFiles
<1>5. ProgressIsBacked /\ SealedRunIsComplete
  BY DEF ProgressIsBacked, SealedRunIsComplete, NoFiles
<1>6. QED
  BY <1>1, <1>2, <1>3, <1>4, <1>5, <1>7 DEF IInv

\* A step that writes no file keeps what is said of the directories alone.
LEMMA NothingWritten ==
  IInv /\ UNCHANGED <<disk, struck>> =>
    Directories' /\ ProgressIsBacked' /\ SealedRunIsComplete'
BY DEF IInv, Directories, ProgressIsBacked, SealedRunIsComplete, Files

\* Nor does it tear or mend a checkpoint.
LEMMA NothingTorn ==
  ASSUME IInv, UNCHANGED <<disk, struck>>, pc' \notin {"verified", "copying"},
         running' = None \/ (running' = running /\ pc # "copying")
  PROVE  Intactness'
<1>1. running \in Attempts => (pc = "copying" => disk[running].result = None)
  BY DEF IInv, AtWork, Attempts, TypeInv, Reusing
<1>2. None \notin Attempts
  BY ExecutionAssumption
<1>3. QED
  BY <1>1, <1>2 DEF IInv, Intactness

\* A task is started only where the first attempt stopped, and the retry only
\* behind it.
LEMMA TaskStarted ==
  ASSUME IInv, pc = "generate", StartsTask, UNCHANGED <<disk, running, completed>>
  PROVE  tries' \in [Tasks -> SUBSET Attempts] /\ Tried'
<1> USE ExecutionAssumption DEF IInv
<1>1. /\ task \in Tasks /\ running \in Attempts /\ task = completed
      /\ tries \in [Tasks -> SUBSET Attempts]
  BY DEF TypeInv, AtWork, Tasks
<1>2. /\ tries' \in [Tasks -> SUBSET Attempts]
      /\ \A t \in Tasks : tries'[t] = IF t = task THEN tries[t] \cup {running} ELSE tries[t]
  BY <1>1 DEF StartsTask
<1>3. Tried'
  BY <1>1, <1>2 DEF TypeInv, AtWork, Retry, Tried, Attempts, Tasks
<1>4. QED
  BY <1>2, <1>3


LEMMA ReadPreviousInv == IInv /\ ReadPrevious => IInv'
<1> SUFFICES ASSUME IInv, ReadPrevious PROVE IInv'
  OBVIOUS
<1> USE ExecutionAssumption DEF IInv, Reusing, ReadPrevious, PreviousAgrees, process, place, history
<1>1. TypeInv'
  BY DEF TypeInv, Places
<1>2. AtWork'
  BY DEF TypeInv, AtWork, Attempts, Retry
<1>3. Retry'
  BY DEF TypeInv, Retry, AtWork
<1>4. Tried'
  BY DEF TypeInv, AtWork, Retry, Tried, Attempts
<1>5. Spending'
  BY DEF TypeInv, AtWork, Retry, Spending, Directories, BudgetOverrunBounded, BeforeRetry,
         Lost, NoFiles, Attempts
<1>6. Intactness'
  BY NothingTorn
<1>7. QED
  BY <1>1, <1>2, <1>3, <1>4, <1>5, <1>6, NothingWritten

LEMMA CopiesDoneInv == IInv /\ CopiesDone => IInv'
<1> SUFFICES ASSUME IInv, CopiesDone PROVE IInv'
  OBVIOUS
<1> USE ExecutionAssumption DEF IInv, Reusing, CopiesDone, process, place, history
<1>1. TypeInv'
  BY DEF TypeInv, Places
<1>2. AtWork'
  BY DEF TypeInv, AtWork, Attempts, Retry
<1>3. Retry'
  BY DEF TypeInv, Retry, AtWork
<1>4. Tried'
  BY DEF TypeInv, AtWork, Retry, Tried, Attempts
<1>5. Spending'
  BY DEF TypeInv, AtWork, Retry, Spending, Directories, BudgetOverrunBounded, BeforeRetry,
         Lost, NoFiles, Attempts
<1>6. Intactness'
  BY NothingTorn
<1>7. QED
  BY <1>1, <1>2, <1>3, <1>4, <1>5, <1>6, NothingWritten

LEMMA LoadEngineInv == IInv /\ LoadEngine => IInv'
<1> SUFFICES ASSUME IInv, LoadEngine PROVE IInv'
  OBVIOUS
<1> USE ExecutionAssumption DEF IInv, Reusing, LoadEngine, FirstTask, process, place, history
<1>1. TypeInv'
  BY DEF TypeInv, Places
<1>2. AtWork'
  BY DEF TypeInv, AtWork, Attempts, Retry
<1>3. Retry'
  BY DEF TypeInv, Retry, AtWork
<1>4. Tried'
  BY DEF TypeInv, AtWork, Retry, Tried, Attempts
<1>5. Spending'
  BY DEF TypeInv, AtWork, Retry, Spending, Directories, BudgetOverrunBounded, BeforeRetry,
         Lost, NoFiles, Attempts
<1>6. Intactness'
  BY NothingTorn
<1>7. QED
  BY <1>1, <1>2, <1>3, <1>4, <1>5, <1>6, NothingWritten

LEMMA GenerateInv == IInv /\ Generate => IInv'
<1> SUFFICES ASSUME IInv, Generate PROVE IInv'
  OBVIOUS
<1> USE ExecutionAssumption DEF IInv, Reusing, process, place, history
<1>1. pc = "generate" /\ StartsTask /\ UNCHANGED <<disk, process, completed, task, struck>>
  BY DEF Generate
<1>2. tries' \in [Tasks -> SUBSET Attempts] /\ Tried'
  BY <1>1, TaskStarted
<1>3. PICK d \in 1..Timeout :
        /\ used' = used + d /\ secs' = secs + d
        /\ \/ pc' = "abort" /\ role' = role
           \/ secs' < Budget /\ pc' = "generate" /\ role' = role + 1
           \/ secs' < Budget /\ pc' = "checkpoint" /\ role' = 0
  BY DEF Generate, BudgetExhausted, RoleAfterTask
<1>4. TypeInv'
  BY <1>1, <1>2, <1>3 DEF TypeInv, Places
<1>5. AtWork'
  BY <1>1, <1>3 DEF TypeInv, AtWork, Attempts, Retry
<1>6. Retry'
  BY <1>1, <1>3 DEF TypeInv, Retry, AtWork
<1>7. Spending'
  <2>1. running \in Attempts /\ disk["v1"].exists /\ disk[running].exists
    BY <1>1 DEF TypeInv, AtWork, Retry, Directories, NoFiles, Attempts
  <2>2. used <= secs + Lost /\ used < Budget + Lost
    BY <1>1 DEF Spending
  <2>3. /\ used \in Nat /\ secs \in Nat /\ running' = running /\ Lost' = Lost
        /\ disk[running].abort = None /\ disk' = disk
    BY <1>1 DEF TypeInv, AtWork, Lost
  <2>4. used' < Budget + Timeout + Lost /\ used' <= secs' + Lost + Timeout
    BY <1>3, <2>2, <2>3 DEF Lost
  <2>5. CASE running = "v1"
    BY <1>1, <1>3, <2>1, <2>2, <2>3, <2>4, <2>5
       DEF Spending, BudgetOverrunBounded, BeforeRetry, Lost
  <2>6. CASE running = "v2"
    BY <1>1, <1>3, <2>1, <2>2, <2>3, <2>4, <2>6
       DEF Spending, BudgetOverrunBounded, BeforeRetry, Lost
  <2>7. QED
    BY <2>1, <2>5, <2>6 DEF Attempts
<1>8. Intactness'
  BY <1>1, <1>3, NothingTorn
<1>9. QED
  BY <1>1, <1>2, <1>4, <1>5, <1>6, <1>7, <1>8, NothingWritten

LEMMA GenerationFailsInv == IInv /\ GenerationFails => IInv'
<1> SUFFICES ASSUME IInv, GenerationFails PROVE IInv'
  OBVIOUS
<1> USE ExecutionAssumption DEF IInv, Reusing, process, place, history
<1>1. pc = "generate" /\ StartsTask /\ UNCHANGED <<disk, process, completed, task, struck>>
  BY DEF GenerationFails
<1>2. tries' \in [Tasks -> SUBSET Attempts] /\ Tried'
  BY <1>1, TaskStarted
<1>3. PICK d \in 1..Timeout :
        /\ used' = used + d /\ secs' = secs + d
        /\ pc' = "abort" /\ role' = role
  BY DEF GenerationFails, AfterFailure
<1>4. TypeInv'
  BY <1>1, <1>2, <1>3 DEF TypeInv, Places
<1>5. AtWork'
  BY <1>1, <1>3 DEF TypeInv, AtWork, Attempts, Retry
<1>6. Retry'
  BY <1>1, <1>3 DEF TypeInv, Retry, AtWork
<1>7. Spending'
  <2>1. running \in Attempts /\ disk["v1"].exists /\ disk[running].exists
    BY <1>1 DEF TypeInv, AtWork, Retry, Directories, NoFiles, Attempts
  <2>2. used <= secs + Lost /\ used < Budget + Lost
    BY <1>1 DEF Spending
  <2>3. /\ used \in Nat /\ secs \in Nat /\ running' = running /\ Lost' = Lost
        /\ disk[running].abort = None /\ disk' = disk
    BY <1>1 DEF TypeInv, AtWork, Lost
  <2>4. used' < Budget + Timeout + Lost /\ used' <= secs' + Lost + Timeout
    BY <1>3, <2>2, <2>3 DEF Lost
  <2>5. CASE running = "v1"
    BY <1>1, <1>3, <2>1, <2>2, <2>3, <2>4, <2>5
       DEF Spending, BudgetOverrunBounded, BeforeRetry, Lost
  <2>6. CASE running = "v2"
    BY <1>1, <1>3, <2>1, <2>2, <2>3, <2>4, <2>6
       DEF Spending, BudgetOverrunBounded, BeforeRetry, Lost
  <2>7. QED
    BY <2>1, <2>5, <2>6 DEF Attempts
<1>8. Intactness'
  BY <1>1, <1>3, NothingTorn
<1>9. QED
  BY <1>1, <1>2, <1>4, <1>5, <1>6, <1>7, <1>8, NothingWritten

LEMMA AlarmBeforeAccountingInv == IInv /\ AlarmBeforeAccounting => IInv'
<1> SUFFICES ASSUME IInv, AlarmBeforeAccounting PROVE IInv'
  OBVIOUS
<1> USE ExecutionAssumption DEF IInv, Reusing, process, place, history
<1>1. pc = "generate" /\ StartsTask /\ UNCHANGED <<disk, process, completed, task, struck>>
  BY DEF AlarmBeforeAccounting
<1>2. tries' \in [Tasks -> SUBSET Attempts] /\ Tried'
  BY <1>1, TaskStarted
<1>3. PICK d \in 1..Timeout :
        /\ used' = used + d /\ secs' = secs
        /\ pc' = "abort" /\ role' = role
  BY DEF AlarmBeforeAccounting, AfterFailure
<1>4. TypeInv'
  BY <1>1, <1>2, <1>3 DEF TypeInv, Places
<1>5. AtWork'
  BY <1>1, <1>3 DEF TypeInv, AtWork, Attempts, Retry
<1>6. Retry'
  BY <1>1, <1>3 DEF TypeInv, Retry, AtWork
<1>7. Spending'
  <2>1. running \in Attempts /\ disk["v1"].exists /\ disk[running].exists
    BY <1>1 DEF TypeInv, AtWork, Retry, Directories, NoFiles, Attempts
  <2>2. used <= secs + Lost /\ used < Budget + Lost
    BY <1>1 DEF Spending
  <2>3. /\ used \in Nat /\ secs \in Nat /\ running' = running /\ Lost' = Lost
        /\ disk[running].abort = None /\ disk' = disk
    BY <1>1 DEF TypeInv, AtWork, Lost
  <2>4. used' < Budget + Timeout + Lost /\ used' <= secs' + Lost + Timeout
    BY <1>3, <2>2, <2>3 DEF Lost
  <2>5. CASE running = "v1"
    BY <1>1, <1>3, <2>1, <2>2, <2>3, <2>4, <2>5
       DEF Spending, BudgetOverrunBounded, BeforeRetry, Lost
  <2>6. CASE running = "v2"
    BY <1>1, <1>3, <2>1, <2>2, <2>3, <2>4, <2>6
       DEF Spending, BudgetOverrunBounded, BeforeRetry, Lost
  <2>7. QED
    BY <2>1, <2>5, <2>6 DEF Attempts
<1>8. Intactness'
  BY <1>1, <1>3, NothingTorn
<1>9. QED
  BY <1>1, <1>2, <1>4, <1>5, <1>6, <1>7, <1>8, NothingWritten

LEMMA FailCaughtInv == IInv /\ FailCaught => IInv'
<1> SUFFICES ASSUME IInv, FailCaught PROVE IInv'
  OBVIOUS
<1> USE ExecutionAssumption DEF IInv, Reusing, FailCaught, AfterFailure, process, place, history
<1>1. TypeInv'
  BY DEF TypeInv, Places
<1>2. AtWork'
  BY DEF TypeInv, AtWork, Attempts, Retry
<1>3. Retry'
  BY DEF TypeInv, Retry, AtWork
<1>4. Tried'
  BY DEF TypeInv, AtWork, Retry, Tried, Attempts
<1>5. Spending'
  BY DEF TypeInv, AtWork, Retry, Spending, Directories, BudgetOverrunBounded, BeforeRetry,
         Lost, NoFiles, Attempts
<1>6. Intactness'
  BY NothingTorn
<1>7. QED
  BY <1>1, <1>2, <1>3, <1>4, <1>5, <1>6, NothingWritten

LEMMA FailUncaughtInv == IInv /\ FailUncaught => IInv'
<1> SUFFICES ASSUME IInv, FailUncaught PROVE IInv'
  OBVIOUS
<1> USE ExecutionAssumption DEF IInv, Reusing, FailUncaught, Stop, process, place, history
<1>1. TypeInv'
  BY DEF TypeInv, Places
<1>2. AtWork'
  BY DEF TypeInv, AtWork, Attempts, Retry
<1>3. Retry'
  BY DEF TypeInv, Retry, AtWork, Attempts
<1>4. Tried'
  BY DEF TypeInv, AtWork, Retry, Tried, Attempts
<1>5. Spending'
  BY DEF TypeInv, AtWork, Retry, Spending, Directories, BudgetOverrunBounded, BeforeRetry,
         Lost, NoFiles, Attempts
<1>6. Intactness'
  BY NothingTorn
<1>7. QED
  BY <1>1, <1>2, <1>3, <1>4, <1>5, <1>6, NothingWritten

LEMMA CloseEngineInv == IInv /\ CloseEngine => IInv'
<1> SUFFICES ASSUME IInv, CloseEngine PROVE IInv'
  OBVIOUS
<1> USE ExecutionAssumption DEF IInv, Reusing, CloseEngine, process, place, history
<1>1. TypeInv'
  BY DEF TypeInv, Places
<1>2. AtWork'
  BY DEF TypeInv, AtWork, Attempts, Retry
<1>3. Retry'
  BY DEF TypeInv, Retry, AtWork
<1>4. Tried'
  BY DEF TypeInv, AtWork, Retry, Tried, Attempts
<1>5. Spending'
  BY DEF TypeInv, AtWork, Retry, Spending, Directories, BudgetOverrunBounded, BeforeRetry,
         Lost, NoFiles, Attempts
<1>6. Intactness'
  BY NothingTorn
<1>7. QED
  BY <1>1, <1>2, <1>3, <1>4, <1>5, <1>6, NothingWritten

LEMMA CrashInv == IInv /\ Crash => IInv'
<1> SUFFICES ASSUME IInv, Crash PROVE IInv'
  OBVIOUS
<1> USE ExecutionAssumption DEF IInv, Reusing, Crash, Stop, process, place, history
<1>1. TypeInv'
  BY DEF TypeInv, Places
<1>2. AtWork'
  BY DEF TypeInv, AtWork, Attempts, Retry
<1>3. Retry'
  BY DEF TypeInv, Retry, AtWork, Attempts
<1>4. Tried'
  BY DEF TypeInv, AtWork, Retry, Tried, Attempts
<1>5. Spending'
  BY DEF TypeInv, AtWork, Retry, Spending, Directories, BudgetOverrunBounded, BeforeRetry,
         Lost, NoFiles, Attempts
<1>6. Intactness'
  BY NothingTorn
<1>7. QED
  BY <1>1, <1>2, <1>3, <1>4, <1>5, <1>6, NothingWritten

\* A step that writes one directory leaves the other one as it is.
LEMMA DirectoryWritten ==
  ASSUME TypeInv, NEW a \in Attempts, NEW d, DirectoryType(d), disk' = [disk EXCEPT ![a] = d]
  PROVE  /\ disk'[a] = d
         /\ \A b \in Attempts : b # a => disk'[b] = disk[b]
         /\ disk' = [b \in Attempts |-> disk'[b]]
         /\ \A b \in Attempts : DirectoryType(disk'[b])
BY DEF TypeInv


\* What a process writes beside its checkpoints, or what it writes whole, tears
\* nothing either.
LEMMA NothingTornBy ==
  ASSUME IInv, running \in Attempts, UNCHANGED struck,
         pc # "copying", pc' \notin {"verified", "copying"},
         running' = running \/ running' = None,
         \A b \in Attempts : b # running => disk'[b] = disk[b],
         \A t \in DOMAIN disk'[running].ckpts :
           \/ disk'[running].ckpts[t].intact
           \/ /\ t \in DOMAIN disk[running].ckpts
              /\ disk'[running].ckpts[t] = disk[running].ckpts[t]
  PROVE  Intactness'
<1>1. \A t \in DOMAIN disk[running].ckpts :
        disk[running].ckpts[t].intact \/ <<running, t>> \in struck
  BY DEF IInv, Intactness
<1>2. None \notin Attempts
  BY ExecutionAssumption
<1>3. QED
  BY <1>1, <1>2 DEF IInv, Intactness

LEMMA WritePlanInv == IInv /\ WritePlan => IInv'
<1> SUFFICES ASSUME IInv, WritePlan PROVE IInv'
  OBVIOUS
<1> USE ExecutionAssumption DEF IInv, Reusing, process, place, history
<1>1. /\ pc = "plan" /\ secs' = (IF running = "v2" THEN disk["v1"].abort.secs ELSE 0)
      /\ pc' = (IF running = "v2" THEN "carry" ELSE "load")
      /\ UNCHANGED <<process, completed, task, role, history>>
  BY DEF WritePlan, SecondsAtStart
<1>2. running \in Attempts /\ DirectoryType(disk[running])
  BY <1>1 DEF TypeInv, AtWork, Attempts
<1> DEFINE d == [exists |-> disk[running].exists, plan |-> config,
                ckpts |-> disk[running].ckpts,
                progress |-> disk[running].progress, abort |-> disk[running].abort,
                result |-> disk[running].result, seal |-> disk[running].seal]
<1>3. DirectoryType(d)
  BY <1>1, <1>2 DEF DirectoryType, TypeInv, Count, Record
<1>4. disk' = [disk EXCEPT ![running] = d]
  <2>1. disk' = [disk EXCEPT ![running].plan = config]
    BY <1>1 DEF WritePlan, SecondsAtStart
  <2>2. d = [disk[running] EXCEPT !.plan = config]
    BY <1>2 DEF DirectoryType
  <2>3. QED
    BY <2>1, <2>2
<1>5. /\ disk'[running] = d
      /\ \A b \in Attempts : b # running => disk'[b] = disk[b]
      /\ disk' = [b \in Attempts |-> disk'[b]]
      /\ \A b \in Attempts : DirectoryType(disk'[b])
  BY <1>2, <1>3, <1>4, DirectoryWritten DEF Attempts
<1>6. TypeInv'
  BY <1>1, <1>2, <1>5 DEF TypeInv, Places, Retry, DirectoryType, Count, AtWork, Attempts
<1>7. Directories'
  BY <1>1, <1>2, <1>5 DEF Directories, TypeInv, AtWork, Retry, Attempts, Record
<1>8. AtWork'
  BY <1>1, <1>2, <1>5 DEF AtWork, TypeInv, Retry, Attempts, Record, Count, Result
<1>9. Retry'
  BY <1>1, <1>2, <1>5 DEF Retry, TypeInv, AtWork, Attempts, Record
<1>10. Tried'
  BY <1>1, <1>2, <1>5 DEF Tried, TypeInv, AtWork, Retry, Attempts, Record
<1>11. Spending'
  BY <1>1, <1>2, <1>5 DEF Spending, TypeInv, AtWork, Retry, Directories, BudgetOverrunBounded,
         BeforeRetry, Lost, NoFiles, Attempts, Record
<1>12. ProgressIsBacked'
  BY <1>1, <1>2, <1>5 DEF ProgressIsBacked, TypeInv, AtWork, Retry, Attempts, Record
<1>13. SealedRunIsComplete'
  BY <1>1, <1>2, <1>5 DEF SealedRunIsComplete, TypeInv, AtWork, Retry, Files, Attempts, Record
<1>14. Intactness'
  BY <1>1, <1>2, <1>5, NothingTornBy
<1>15. QED
  BY <1>6, <1>7, <1>8, <1>9, <1>10, <1>11, <1>12, <1>13, <1>14

LEMMA WriteReusedInv == IInv /\ WriteReused => IInv'
<1> SUFFICES ASSUME IInv, WriteReused PROVE IInv'
  OBVIOUS
<1> USE ExecutionAssumption DEF IInv, Reusing, process, place, history
<1>1. pc = "carry" /\ pc' = "load" /\ UNCHANGED <<process, place, history>>
  BY DEF WriteReused
<1>2. running \in Attempts /\ DirectoryType(disk["v2"])
  BY <1>1 DEF TypeInv, AtWork, Attempts
<1> DEFINE d == [exists |-> disk["v2"].exists, plan |-> disk["v2"].plan,
                ckpts |-> disk["v2"].ckpts,
                progress |-> Record(completed, secs), abort |-> disk["v2"].abort,
                result |-> disk["v2"].result, seal |-> disk["v2"].seal]
<1>3. DirectoryType(d)
  BY <1>1, <1>2 DEF DirectoryType, TypeInv, Count, Record
<1>4. disk' = [disk EXCEPT !["v2"] = d]
  <2>1. disk' = [disk EXCEPT !["v2"].progress = Record(completed, secs)]
    BY <1>1 DEF WriteReused
  <2>2. d = [disk["v2"] EXCEPT !.progress = Record(completed, secs)]
    BY <1>2 DEF DirectoryType
  <2>3. QED
    BY <2>1, <2>2
<1>5. /\ disk'["v2"] = d
      /\ \A b \in Attempts : b # "v2" => disk'[b] = disk[b]
      /\ disk' = [b \in Attempts |-> disk'[b]]
      /\ \A b \in Attempts : DirectoryType(disk'[b])
  BY <1>2, <1>3, <1>4, DirectoryWritten DEF Attempts
<1>6. TypeInv'
  BY <1>1, <1>2, <1>5 DEF TypeInv, Places, Retry, DirectoryType, Count, AtWork, Attempts
<1>7. Directories'
  BY <1>1, <1>2, <1>5 DEF Directories, TypeInv, AtWork, Retry, Attempts, Record
<1>8. AtWork'
  BY <1>1, <1>2, <1>5 DEF AtWork, TypeInv, Retry, Attempts, Record, Count, Result
<1>9. Retry'
  BY <1>1, <1>2, <1>5 DEF Retry, TypeInv, AtWork, Attempts, Record
<1>10. Tried'
  BY <1>1, <1>2, <1>5 DEF Tried, TypeInv, AtWork, Retry, Attempts, Record
<1>11. Spending'
  BY <1>1, <1>2, <1>5 DEF Spending, TypeInv, AtWork, Retry, Directories, BudgetOverrunBounded,
         BeforeRetry, Lost, NoFiles, Attempts, Record
<1>12. ProgressIsBacked'
  BY <1>1, <1>2, <1>5 DEF ProgressIsBacked, TypeInv, AtWork, Retry, Attempts, Record
<1>13. SealedRunIsComplete'
  BY <1>1, <1>2, <1>5 DEF SealedRunIsComplete, TypeInv, AtWork, Retry, Files, Attempts, Record
<1>14. Intactness'
  BY <1>1, <1>2, <1>5, NothingTornBy DEF AtWork
<1>15. QED
  BY <1>6, <1>7, <1>8, <1>9, <1>10, <1>11, <1>12, <1>13, <1>14

LEMMA WriteProgressInv == IInv /\ WriteProgress => IInv'
<1> SUFFICES ASSUME IInv, WriteProgress PROVE IInv'
  OBVIOUS
<1> USE ExecutionAssumption DEF IInv, Reusing, process, place, history
<1>1. /\ pc = "progress" /\ task' = task + 1
      /\ pc' = (IF task + 1 = N THEN "result" ELSE "generate")
      /\ UNCHANGED <<process, completed, role, secs, history>>
  BY DEF WriteProgress, Listed
<1>2. running \in Attempts /\ DirectoryType(disk[running])
  BY <1>1 DEF TypeInv, AtWork, Attempts
<1> DEFINE d == [exists |-> disk[running].exists, plan |-> disk[running].plan,
                ckpts |-> disk[running].ckpts,
                progress |-> Record(completed, secs), abort |-> disk[running].abort,
                result |-> disk[running].result, seal |-> disk[running].seal]
<1>3. DirectoryType(d)
  BY <1>1, <1>2 DEF DirectoryType, TypeInv, Count, Record
<1>4. disk' = [disk EXCEPT ![running] = d]
  <2>1. disk' = [disk EXCEPT ![running].progress = Record(completed, secs)]
    BY <1>1 DEF WriteProgress, Listed
  <2>2. d = [disk[running] EXCEPT !.progress = Record(completed, secs)]
    BY <1>2 DEF DirectoryType
  <2>3. QED
    BY <2>1, <2>2
<1>5. /\ disk'[running] = d
      /\ \A b \in Attempts : b # running => disk'[b] = disk[b]
      /\ disk' = [b \in Attempts |-> disk'[b]]
      /\ \A b \in Attempts : DirectoryType(disk'[b])
  BY <1>2, <1>3, <1>4, DirectoryWritten DEF Attempts
<1>6. TypeInv'
  <2>1. task + 1 \in 0..N /\ pc' \in Places
    BY <1>1 DEF TypeInv, AtWork, Attempts, Places
  <2>2. QED
    BY <1>1, <1>5, <2>1 DEF TypeInv
<1>7. Directories'
  BY <1>1, <1>2, <1>5 DEF Directories, TypeInv, AtWork, Retry, Attempts, Record
<1>8. AtWork'
  BY <1>1, <1>2, <1>5 DEF AtWork, TypeInv, Retry, Attempts, Record, Count, Result
<1>9. Retry'
  BY <1>1, <1>2, <1>5 DEF Retry, TypeInv, AtWork, Attempts, Record
<1>10. Tried'
  BY <1>1, <1>2, <1>5 DEF Tried, TypeInv, AtWork, Retry, Attempts, Record
<1>11. Spending'
  BY <1>1, <1>2, <1>5 DEF Spending, TypeInv, AtWork, Retry, Directories, BudgetOverrunBounded,
         BeforeRetry, Lost, NoFiles, Attempts, Record
<1>12. ProgressIsBacked'
  BY <1>1, <1>2, <1>5 DEF ProgressIsBacked, TypeInv, AtWork, Retry, Attempts, Record
<1>13. SealedRunIsComplete'
  BY <1>1, <1>2, <1>5 DEF SealedRunIsComplete, TypeInv, AtWork, Retry, Files, Attempts, Record
<1>14. Intactness'
  BY <1>1, <1>2, <1>5, NothingTornBy
<1>15. QED
  BY <1>6, <1>7, <1>8, <1>9, <1>10, <1>11, <1>12, <1>13, <1>14

LEMMA WriteResultInv == IInv /\ WriteResult => IInv'
<1> SUFFICES ASSUME IInv, WriteResult PROVE IInv'
  OBVIOUS
<1> USE ExecutionAssumption DEF IInv, Reusing, process, place, history
<1>1. pc = "result" /\ pc' = "close" /\ UNCHANGED <<process, place, history>>
  BY DEF WriteResult
<1>2. running \in Attempts /\ DirectoryType(disk[running])
  BY <1>1 DEF TypeInv, AtWork, Attempts
<1> DEFINE d == [exists |-> disk[running].exists, plan |-> disk[running].plan,
                ckpts |-> disk[running].ckpts,
                progress |-> disk[running].progress, abort |-> disk[running].abort,
                result |-> [secs |-> secs], seal |-> disk[running].seal]
<1>3. DirectoryType(d)
  BY <1>1, <1>2 DEF DirectoryType, TypeInv, Count, Record
<1>4. disk' = [disk EXCEPT ![running] = d]
  <2>1. disk' = [disk EXCEPT ![running].result = [secs |-> secs]]
    BY <1>1 DEF WriteResult
  <2>2. d = [disk[running] EXCEPT !.result = [secs |-> secs]]
    BY <1>2 DEF DirectoryType
  <2>3. QED
    BY <2>1, <2>2
<1>5. /\ disk'[running] = d
      /\ \A b \in Attempts : b # running => disk'[b] = disk[b]
      /\ disk' = [b \in Attempts |-> disk'[b]]
      /\ \A b \in Attempts : DirectoryType(disk'[b])
  BY <1>2, <1>3, <1>4, DirectoryWritten DEF Attempts
<1>6. TypeInv'
  BY <1>1, <1>2, <1>5 DEF TypeInv, Places, Retry, DirectoryType, Count, AtWork, Attempts
<1>7. Directories'
  BY <1>1, <1>2, <1>5 DEF Directories, TypeInv, AtWork, Retry, Attempts, Record
<1>8. AtWork'
  BY <1>1, <1>2, <1>5 DEF AtWork, TypeInv, Retry, Attempts, Record, Count, Result
<1>9. Retry'
  BY <1>1, <1>2, <1>5 DEF Retry, TypeInv, AtWork, Attempts, Record
<1>10. Tried'
  BY <1>1, <1>2, <1>5 DEF Tried, TypeInv, AtWork, Retry, Attempts, Record
<1>11. Spending'
  BY <1>1, <1>2, <1>5 DEF Spending, TypeInv, AtWork, Retry, Directories, BudgetOverrunBounded,
         BeforeRetry, Lost, NoFiles, Attempts, Record
<1>12. ProgressIsBacked'
  BY <1>1, <1>2, <1>5 DEF ProgressIsBacked, TypeInv, AtWork, Retry, Attempts, Record
<1>13. SealedRunIsComplete'
  BY <1>1, <1>2, <1>5 DEF SealedRunIsComplete, TypeInv, AtWork, Retry, Files, Attempts, Record
<1>14. Intactness'
  BY <1>1, <1>2, <1>5, NothingTornBy
<1>15. QED
  BY <1>6, <1>7, <1>8, <1>9, <1>10, <1>11, <1>12, <1>13, <1>14

LEMMA WriteAbortInv == IInv /\ WriteAbort => IInv'
<1> SUFFICES ASSUME IInv, WriteAbort PROVE IInv'
  OBVIOUS
<1> USE ExecutionAssumption DEF IInv, Reusing, process, place, history
<1>1. /\ pc = "abort" /\ running' = None /\ pc' = "idle"
      /\ UNCHANGED <<config, reused, place, history>>
  BY DEF WriteAbort, Stop
<1>2. running \in Attempts /\ DirectoryType(disk[running])
  BY <1>1 DEF TypeInv, AtWork, Attempts
<1> DEFINE d == [exists |-> disk[running].exists, plan |-> disk[running].plan,
                ckpts |-> disk[running].ckpts,
                progress |-> disk[running].progress, abort |-> Record(completed, secs),
                result |-> disk[running].result, seal |-> disk[running].seal]
<1>3. DirectoryType(d)
  BY <1>1, <1>2 DEF DirectoryType, TypeInv, Count, Record
<1>4. disk' = [disk EXCEPT ![running] = d]
  <2>1. disk' = [disk EXCEPT ![running].abort = Record(completed, secs)]
    BY <1>1 DEF WriteAbort, Stop
  <2>2. d = [disk[running] EXCEPT !.abort = Record(completed, secs)]
    BY <1>2 DEF DirectoryType
  <2>3. QED
    BY <2>1, <2>2
<1>5. /\ disk'[running] = d
      /\ \A b \in Attempts : b # running => disk'[b] = disk[b]
      /\ disk' = [b \in Attempts |-> disk'[b]]
      /\ \A b \in Attempts : DirectoryType(disk'[b])
  BY <1>2, <1>3, <1>4, DirectoryWritten DEF Attempts
<1>6. TypeInv'
  BY <1>1, <1>2, <1>5 DEF TypeInv, Places, Retry, DirectoryType, Count, AtWork, Attempts
<1>7. Directories'
  BY <1>1, <1>2, <1>5 DEF Directories, TypeInv, AtWork, Retry, Attempts, Record
<1>8. AtWork'
  BY <1>1, <1>2, <1>5 DEF AtWork, TypeInv, Retry, Attempts, Record, Count, Result
<1>9. Retry'
  BY <1>1, <1>2, <1>5 DEF Retry, TypeInv, AtWork, Attempts, Record
<1>10. Tried'
  BY <1>1, <1>2, <1>5 DEF Tried, TypeInv, AtWork, Retry, Attempts, Record
<1>11. Spending'
  BY <1>1, <1>2, <1>5 DEF Spending, TypeInv, AtWork, Retry, Directories, BudgetOverrunBounded,
         BeforeRetry, Lost, NoFiles, Attempts, Record
<1>12. ProgressIsBacked'
  BY <1>1, <1>2, <1>5 DEF ProgressIsBacked, TypeInv, AtWork, Retry, Attempts, Record
<1>13. SealedRunIsComplete'
  BY <1>1, <1>2, <1>5 DEF SealedRunIsComplete, TypeInv, AtWork, Retry, Files, Attempts, Record
<1>14. Intactness'
  BY <1>1, <1>2, <1>5, NothingTornBy
<1>15. QED
  BY <1>6, <1>7, <1>8, <1>9, <1>10, <1>11, <1>12, <1>13, <1>14

LEMMA WriteSealInv == IInv /\ WriteSeal => IInv'
<1> SUFFICES ASSUME IInv, WriteSeal PROVE IInv'
  OBVIOUS
<1> USE ExecutionAssumption DEF IInv, Reusing, process, place, history
<1>1. /\ pc = "seal" /\ running' = None /\ pc' = "idle"
      /\ UNCHANGED <<config, reused, place, history>>
  BY DEF WriteSeal, Stop
<1>2. running \in Attempts /\ DirectoryType(disk[running])
  BY <1>1 DEF TypeInv, AtWork, Attempts
<1> DEFINE d == [exists |-> disk[running].exists, plan |-> disk[running].plan,
                ckpts |-> disk[running].ckpts,
                progress |-> disk[running].progress, abort |-> disk[running].abort,
                result |-> disk[running].result, seal |-> Files(running)]
<1>3. DirectoryType(d)
  BY <1>1, <1>2 DEF DirectoryType, TypeInv, Count, Record
<1>4. disk' = [disk EXCEPT ![running] = d]
  <2>1. disk' = [disk EXCEPT ![running].seal = Files(running)]
    BY <1>1 DEF WriteSeal, Stop
  <2>2. d = [disk[running] EXCEPT !.seal = Files(running)]
    BY <1>2 DEF DirectoryType
  <2>3. QED
    BY <2>1, <2>2
<1>5. /\ disk'[running] = d
      /\ \A b \in Attempts : b # running => disk'[b] = disk[b]
      /\ disk' = [b \in Attempts |-> disk'[b]]
      /\ \A b \in Attempts : DirectoryType(disk'[b])
  BY <1>2, <1>3, <1>4, DirectoryWritten DEF Attempts
<1>6. TypeInv'
  BY <1>1, <1>2, <1>5 DEF TypeInv, Places, Retry, DirectoryType, Count, AtWork, Attempts
<1>7. Directories'
  BY <1>1, <1>2, <1>5 DEF Directories, TypeInv, AtWork, Retry, Attempts, Record
<1>8. AtWork'
  BY <1>1, <1>2, <1>5 DEF AtWork, TypeInv, Retry, Attempts, Record, Count, Result
<1>9. Retry'
  BY <1>1, <1>2, <1>5 DEF Retry, TypeInv, AtWork, Attempts, Record
<1>10. Tried'
  BY <1>1, <1>2, <1>5 DEF Tried, TypeInv, AtWork, Retry, Attempts, Record
<1>11. Spending'
  BY <1>1, <1>2, <1>5 DEF Spending, TypeInv, AtWork, Retry, Directories, BudgetOverrunBounded,
         BeforeRetry, Lost, NoFiles, Attempts, Record
<1>12. ProgressIsBacked'
  BY <1>1, <1>2, <1>5 DEF ProgressIsBacked, TypeInv, AtWork, Retry, Attempts, Record
<1>13. SealedRunIsComplete'
  <2> SUFFICES ASSUME NEW a \in Attempts, disk'[a].seal # None
               PROVE  /\ disk'[a].seal = Files(a)'
                      /\ disk'[a].result # None /\ disk'[a].abort = None
                      /\ disk'[a].progress.completed = N
                      /\ DOMAIN disk'[a].ckpts = Tasks
                      /\ \A t \in Tasks :
                           disk'[a].ckpts[t].intact \/ <<a, t>> \in struck'
                      /\ a = "v2" =>
                           /\ disk'["v1"].abort # None
                           /\ \A t \in Tasks : disk'[a].ckpts[t].by =
                                IF t < disk'["v1"].abort.completed THEN "v1" ELSE "v2"
    BY DEF SealedRunIsComplete
  <2>1. CASE a # running
    BY <1>1, <1>2, <1>5, <2>1 DEF SealedRunIsComplete, Files, TypeInv, AtWork, Retry, Attempts
  <2>2. CASE a = running
    <3>1. Files(a)' = Files(a)
      BY <1>1, <1>2, <1>5, <2>2 DEF Files, DirectoryType
    <3>2. QED
      BY <1>1, <1>2, <1>5, <2>2, <3>1 DEF AtWork, Retry, Tasks, Attempts, Intactness
  <2>3. QED
    BY <2>1, <2>2
<1>14. Intactness'
  BY <1>1, <1>2, <1>5, NothingTornBy
<1>15. QED
  BY <1>6, <1>7, <1>8, <1>9, <1>10, <1>11, <1>12, <1>13, <1>14

LEMMA LaunchBaselineInv == IInv /\ LaunchBaseline => IInv'
<1> SUFFICES ASSUME IInv, LaunchBaseline PROVE IInv'
  OBVIOUS
<1> USE ExecutionAssumption DEF IInv, Reusing, process, place, history
<1>1. /\ running = None /\ disk["v1"] = NoFiles /\ running' = "v1"
      /\ config' \in Configs /\ reused' \in {0}
      /\ completed' = 0 /\ task' = 0 /\ role' = 0 /\ secs' = 0 /\ pc' = "plan"
      /\ UNCHANGED history
  BY DEF LaunchBaseline, Launch, MayStart, Directories, Attempts
<1>2. pc = "idle" /\ DirectoryType(disk["v1"])
  BY <1>1 DEF TypeInv, AtWork, Attempts
<1> DEFINE new == TRUE
<1>3. new = TRUE
  OBVIOUS
<1> HIDE DEF new
<1> DEFINE d == [exists |-> new, plan |-> disk["v1"].plan, ckpts |-> disk["v1"].ckpts,
                progress |-> disk["v1"].progress, abort |-> disk["v1"].abort,
                result |-> disk["v1"].result, seal |-> disk["v1"].seal]
<1>4. DirectoryType(d)
  BY <1>1, <1>2, <1>3 DEF DirectoryType, TypeInv, Count, Record
<1>5. disk' = [disk EXCEPT !["v1"] = d]
  <2>1. disk' = [disk EXCEPT !["v1"].exists = new]
    BY <1>1 DEF LaunchBaseline, Launch, MayStart, new
  <2>2. d = [disk["v1"] EXCEPT !.exists = new]
    BY <1>2 DEF DirectoryType
  <2>3. QED
    BY <2>1, <2>2
<1>6. /\ disk'["v1"] = d
      /\ \A b \in Attempts : b # "v1" => disk'[b] = disk[b]
      /\ disk' = [b \in Attempts |-> disk'[b]]
      /\ \A b \in Attempts : DirectoryType(disk'[b])
  BY <1>2, <1>4, <1>5, DirectoryWritten DEF Attempts
<1>7. TypeInv'
  BY <1>1, <1>2, <1>3, <1>6
     DEF TypeInv, Places, Retry, DirectoryType, Count, AtWork, Attempts, NoFiles
<1>8. Directories'
  BY <1>1, <1>2, <1>3, <1>6 DEF Directories, TypeInv, AtWork, Retry, Attempts, Record, NoFiles
<1>9. AtWork'
  BY <1>1, <1>2, <1>3, <1>6 DEF AtWork, TypeInv, Retry, Attempts, Record, Count, Result, NoFiles
<1>10. Retry'
  BY <1>1, <1>2, <1>3, <1>6 DEF Retry, TypeInv, AtWork, Attempts, Record, NoFiles
<1>11. Tried'
  BY <1>1, <1>2, <1>3, <1>6 DEF Tried, TypeInv, AtWork, Retry, Attempts, Record, NoFiles
<1>12. Spending'
  BY <1>1, <1>2, <1>3, <1>6
     DEF Spending, TypeInv, AtWork, Retry, Directories, BudgetOverrunBounded,
         BeforeRetry, Lost, NoFiles, Attempts, Record, NoFiles
<1>13. ProgressIsBacked'
  BY <1>1, <1>2, <1>3, <1>6
     DEF ProgressIsBacked, TypeInv, AtWork, Retry, Attempts, Record, NoFiles
<1>14. SealedRunIsComplete'
  BY <1>1, <1>2, <1>3, <1>6
     DEF SealedRunIsComplete, TypeInv, AtWork, Retry, Files, Attempts, Record, NoFiles
<1>15. Intactness'
  BY <1>1, <1>2, <1>6 DEF Intactness, NoFiles, Attempts
<1>16. QED
  BY <1>7, <1>8, <1>9, <1>10, <1>11, <1>12, <1>13, <1>14, <1>15

LEMMA LaunchResumeInv == IInv /\ LaunchResume => IInv'
<1> SUFFICES ASSUME IInv, LaunchResume PROVE IInv'
  OBVIOUS
<1> USE ExecutionAssumption DEF IInv, Reusing, process, place, history
<1>1. /\ running = None /\ disk["v2"] = NoFiles /\ running' = "v2"
      /\ config' \in Configs /\ reused' \in 0..N
      /\ completed' = 0 /\ task' = 0 /\ role' = 0 /\ secs' = 0 /\ pc' = "previous"
      /\ UNCHANGED history
  BY DEF LaunchResume, Launch, MayStart, Directories, Attempts
<1>2. pc = "idle" /\ DirectoryType(disk["v2"])
  BY <1>1 DEF TypeInv, AtWork, Attempts
<1> DEFINE new == TRUE
<1>3. new = TRUE
  OBVIOUS
<1> HIDE DEF new
<1> DEFINE d == [exists |-> new, plan |-> disk["v2"].plan, ckpts |-> disk["v2"].ckpts,
                progress |-> disk["v2"].progress, abort |-> disk["v2"].abort,
                result |-> disk["v2"].result, seal |-> disk["v2"].seal]
<1>4. DirectoryType(d)
  BY <1>1, <1>2, <1>3 DEF DirectoryType, TypeInv, Count, Record
<1>5. disk' = [disk EXCEPT !["v2"] = d]
  <2>1. disk' = [disk EXCEPT !["v2"].exists = new]
    BY <1>1 DEF LaunchResume, Launch, MayStart, new
  <2>2. d = [disk["v2"] EXCEPT !.exists = new]
    BY <1>2 DEF DirectoryType
  <2>3. QED
    BY <2>1, <2>2
<1>6. /\ disk'["v2"] = d
      /\ \A b \in Attempts : b # "v2" => disk'[b] = disk[b]
      /\ disk' = [b \in Attempts |-> disk'[b]]
      /\ \A b \in Attempts : DirectoryType(disk'[b])
  BY <1>2, <1>4, <1>5, DirectoryWritten DEF Attempts
<1>7. TypeInv'
  BY <1>1, <1>2, <1>3, <1>6
     DEF TypeInv, Places, Retry, DirectoryType, Count, AtWork, Attempts, NoFiles
<1>8. Directories'
  BY <1>1, <1>2, <1>3, <1>6 DEF Directories, TypeInv, AtWork, Retry, Attempts, Record, NoFiles
<1>9. AtWork'
  BY <1>1, <1>2, <1>3, <1>6 DEF AtWork, TypeInv, Retry, Attempts, Record, Count, Result, NoFiles
<1>10. Retry'
  BY <1>1, <1>2, <1>3, <1>6 DEF Retry, TypeInv, AtWork, Attempts, Record, NoFiles
<1>11. Tried'
  BY <1>1, <1>2, <1>3, <1>6 DEF Tried, TypeInv, AtWork, Retry, Attempts, Record, NoFiles
<1>12. Spending'
  BY <1>1, <1>2, <1>3, <1>6
     DEF Spending, TypeInv, AtWork, Retry, Directories, BudgetOverrunBounded,
         BeforeRetry, Lost, NoFiles, Attempts, Record, NoFiles
<1>13. ProgressIsBacked'
  BY <1>1, <1>2, <1>3, <1>6
     DEF ProgressIsBacked, TypeInv, AtWork, Retry, Attempts, Record, NoFiles
<1>14. SealedRunIsComplete'
  BY <1>1, <1>2, <1>3, <1>6
     DEF SealedRunIsComplete, TypeInv, AtWork, Retry, Files, Attempts, Record, NoFiles
<1>15. Intactness'
  BY <1>1, <1>2, <1>6 DEF Intactness, NoFiles, Attempts
<1>16. QED
  BY <1>7, <1>8, <1>9, <1>10, <1>11, <1>12, <1>13, <1>14, <1>15

LEMMA VerifyCheckpointInv == IInv /\ VerifyCheckpoint => IInv'
<1> SUFFICES ASSUME IInv, VerifyCheckpoint PROVE IInv'
  OBVIOUS
<1> USE ExecutionAssumption DEF IInv, Reusing, VerifyCheckpoint, process, place, history
<1>1. TypeInv'
  BY DEF TypeInv, Places
<1>2. AtWork'
  BY DEF TypeInv, AtWork, Attempts, Retry
<1>3. Retry'
  BY DEF TypeInv, Retry, AtWork
<1>4. Tried'
  BY DEF TypeInv, AtWork, Retry, Tried, Attempts
<1>5. Spending'
  BY DEF TypeInv, AtWork, Retry, Spending, Directories, BudgetOverrunBounded, BeforeRetry,
         Lost, NoFiles, Attempts
<1>6. Intactness'
  BY DEF Intactness, Reusable, Checkpoints
<1>7. QED
  BY <1>1, <1>2, <1>3, <1>4, <1>5, <1>6, NothingWritten

LEMMA OpenCopyInv == IInv /\ OpenCopy => IInv'
<1> SUFFICES ASSUME IInv, OpenCopy PROVE IInv'
  OBVIOUS
<1> USE ExecutionAssumption DEF IInv, Reusing, process, place, history
<1>1. /\ pc = "verified" /\ pc' = "copying"
      /\ UNCHANGED <<process, place, history>>
  BY DEF OpenCopy
<1>2. /\ running = "v2" /\ DirectoryType(disk["v2"]) /\ DirectoryType(disk["v1"])
      /\ completed < reused /\ completed \in Tasks
      /\ completed \in DOMAIN disk["v1"].ckpts
      /\ DOMAIN disk["v2"].ckpts = 0..(completed - 1)
  BY <1>1 DEF TypeInv, AtWork, Retry, Directories, Attempts, Tasks
<1> DEFINE c == [disk["v1"].ckpts[completed] EXCEPT !.intact = FALSE]
<1> DEFINE new == With(disk["v2"].ckpts, completed, c)
<1>3. /\ new \in SomeCheckpoints /\ DOMAIN new = 0..completed
      /\ \A t \in DOMAIN new : new[t].by = IF t < reused THEN "v1" ELSE "v2"
      /\ \A t \in DOMAIN disk["v2"].ckpts : new[t] = disk["v2"].ckpts[t]
  <2>1. /\ c \in Checkpoint /\ c.by = "v1"
        /\ disk["v2"].ckpts \in SomeCheckpoints
    <3>1. PICK S \in SUBSET Tasks : disk["v1"].ckpts \in [S -> Checkpoint]
      BY <1>2 DEF DirectoryType, SomeCheckpoints
    <3>2. disk["v1"].ckpts[completed] \in Checkpoint /\ disk["v1"].ckpts[completed].by = "v1"
      BY <1>2, <3>1 DEF Directories
    <3>3. QED
      BY <1>2, <3>2 DEF DirectoryType, Checkpoint
  <2> HIDE DEF c
  <2>2. /\ new \in SomeCheckpoints
        /\ DOMAIN new = DOMAIN disk["v2"].ckpts \cup {completed}
        /\ new[completed] = c
        /\ \A u \in DOMAIN disk["v2"].ckpts : u # completed => new[u] = disk["v2"].ckpts[u]
    BY <1>1, <1>2, <2>1, CheckpointAdded
  <2>3. 0..completed = 0..(completed - 1) \cup {completed} /\ completed \notin 0..(completed - 1)
    BY <1>1, <1>2 DEF TypeInv
  <2>4. QED
    BY <1>1, <1>2, <2>1, <2>2, <2>3 DEF AtWork, Retry
<1> HIDE DEF c, new
<1> DEFINE d == [exists |-> disk["v2"].exists, plan |-> disk["v2"].plan, ckpts |-> new,
                progress |-> disk["v2"].progress, abort |-> disk["v2"].abort,
                result |-> disk["v2"].result, seal |-> disk["v2"].seal]
<1>4. DirectoryType(d)
  BY <1>1, <1>2, <1>3 DEF DirectoryType, TypeInv, Count, Record
<1>5. disk' = [disk EXCEPT !["v2"] = d]
  <2>1. disk' = [disk EXCEPT !["v2"].ckpts = new]
    BY DEF OpenCopy, Checkpoints, c, new
  <2>2. d = [disk["v2"] EXCEPT !.ckpts = new]
    BY <1>2 DEF DirectoryType
  <2>3. QED
    BY <2>1, <2>2
<1>6. /\ disk'["v2"] = d
      /\ \A b \in Attempts : b # "v2" => disk'[b] = disk[b]
      /\ disk' = [b \in Attempts |-> disk'[b]]
      /\ \A b \in Attempts : DirectoryType(disk'[b])
  BY <1>2, <1>4, <1>5, DirectoryWritten DEF Attempts
<1>7. TypeInv'
  BY <1>1, <1>2, <1>3, <1>6 DEF TypeInv, Places, Retry, DirectoryType, Count, AtWork, Attempts
<1>8. Directories'
  BY <1>1, <1>2, <1>3, <1>6 DEF Directories, TypeInv, AtWork, Retry, Attempts, Record
<1>9. AtWork'
  BY <1>1, <1>2, <1>3, <1>6 DEF AtWork, TypeInv, Retry, Attempts, Record, Count, Result
<1>10. Retry'
  BY <1>1, <1>2, <1>3, <1>6 DEF Retry, TypeInv, AtWork, Attempts, Record
<1>11. Tried'
  BY <1>1, <1>2, <1>3, <1>6 DEF Tried, TypeInv, AtWork, Retry, Attempts, Record
<1>12. Spending'
  BY <1>1, <1>2, <1>3, <1>6
     DEF Spending, TypeInv, AtWork, Retry, Directories, BudgetOverrunBounded,
         BeforeRetry, Lost, NoFiles, Attempts, Record
<1>13. ProgressIsBacked'
  BY <1>1, <1>2, <1>3, <1>6 DEF ProgressIsBacked, TypeInv, AtWork, Retry, Attempts, Record
<1>14. SealedRunIsComplete'
  BY <1>1, <1>2, <1>3, <1>6
     DEF SealedRunIsComplete, TypeInv, AtWork, Retry, Files, Attempts, Record
<1>15. Intactness'
  <2>1. disk[running].result = None /\ "v2" \in Attempts
    BY <1>1, <1>2 DEF AtWork, Attempts
  <2>2. ASSUME NEW t \in DOMAIN disk'["v2"].ckpts
        PROVE  \/ disk'["v2"].ckpts[t].intact
               \/ <<"v2", t>> \in struck'
               \/ disk'["v2"].result = None /\ t = completed
    <3>1. disk'["v2"].ckpts = new /\ disk'["v2"].result = None
      BY <1>2, <1>6, <2>1
    <3>2. t \in 0..completed
      BY <1>3, <3>1
    <3>3. CASE t = completed
      BY <3>1, <3>3
    <3>4. CASE t # completed
      <4>1. t \in DOMAIN disk["v2"].ckpts
        BY <1>2, <3>2, <3>4 DEF TypeInv
      <4>2. disk["v2"].ckpts[t].intact \/ <<"v2", t>> \in struck
        BY <1>1, <1>2, <2>1, <4>1 DEF Intactness
      <4>3. QED
        BY <1>1, <1>3, <3>1, <4>1, <4>2
    <3>5. QED
      BY <3>3, <3>4
  <2>3. ASSUME NEW b \in Attempts, b # "v2", NEW t \in DOMAIN disk'[b].ckpts
        PROVE  \/ disk'[b].ckpts[t].intact
               \/ <<b, t>> \in struck'
               \/ disk'[b].result = None /\ running' # b
    BY <1>1, <1>2, <1>6, <2>3 DEF Intactness
  <2>4. QED
    BY <1>1, <1>2, <1>6, <2>2, <2>3 DEF Intactness, Attempts
<1>16. QED
  BY <1>7, <1>8, <1>9, <1>10, <1>11, <1>12, <1>13, <1>14, <1>15

LEMMA CopyCheckpointInv == IInv /\ CopyCheckpoint => IInv'
<1> SUFFICES ASSUME IInv, CopyCheckpoint PROVE IInv'
  OBVIOUS
<1> USE ExecutionAssumption DEF IInv, Reusing, process, place, history
<1>1. /\ pc = "copying" /\ completed' = completed + 1 /\ pc' = "copy"
      /\ UNCHANGED <<process, task, role, secs, history>>
  BY DEF CopyCheckpoint
<1>2. /\ running = "v2" /\ DirectoryType(disk["v2"]) /\ DirectoryType(disk["v1"])
      /\ completed < reused /\ completed \in Tasks /\ completed + 1 \in 0..N
      /\ completed \in DOMAIN disk["v1"].ckpts
      /\ DOMAIN disk["v2"].ckpts = 0..completed
  BY <1>1 DEF TypeInv, AtWork, Retry, Directories, Attempts, Tasks
<1> DEFINE whole == disk["v1"].ckpts[completed].intact
           new == [disk["v2"].ckpts EXCEPT ![completed].intact = whole]
<1>3. /\ new \in SomeCheckpoints /\ DOMAIN new = 0..completed
      /\ \A t \in DOMAIN new : new[t].by = IF t < reused THEN "v1" ELSE "v2"
      /\ \A t \in DOMAIN new : t # completed => new[t] = disk["v2"].ckpts[t]
      /\ new[completed].intact = whole
  <2>1. PICK S \in SUBSET Tasks : disk["v2"].ckpts \in [S -> Checkpoint]
    BY <1>2 DEF DirectoryType, SomeCheckpoints
  <2>2. whole \in BOOLEAN
    BY <1>2 DEF DirectoryType, SomeCheckpoints, Checkpoint
  <2> HIDE DEF whole
  <2>3. completed \in S /\ S = 0..completed
    BY <1>2, <2>1 DEF Tasks
  <2>4. /\ new \in [S -> Checkpoint]
        /\ \A t \in S : new[t].by = disk["v2"].ckpts[t].by
        /\ \A t \in S : t # completed => new[t] = disk["v2"].ckpts[t]
        /\ new[completed].intact = whole
    BY <2>1, <2>2, <2>3 DEF Checkpoint
  <2>5. QED
    BY <1>1, <1>2, <2>3, <2>4 DEF SomeCheckpoints, Retry
<1>17. whole \/ <<"v2", completed>> \in struck
  BY <1>1 DEF Intactness
<1> HIDE DEF new, whole
<1> DEFINE d == [exists |-> disk["v2"].exists, plan |-> disk["v2"].plan, ckpts |-> new,
                progress |-> disk["v2"].progress, abort |-> disk["v2"].abort,
                result |-> disk["v2"].result, seal |-> disk["v2"].seal]
<1>4. DirectoryType(d)
  BY <1>1, <1>2, <1>3 DEF DirectoryType, TypeInv, Count, Record
<1>5. disk' = [disk EXCEPT !["v2"] = d]
  <2>1. disk' = [disk EXCEPT !["v2"].ckpts = new]
    BY DEF CopyCheckpoint, Checkpoints, new, whole
  <2>2. d = [disk["v2"] EXCEPT !.ckpts = new]
    BY <1>2 DEF DirectoryType
  <2>3. QED
    BY <2>1, <2>2
<1>6. /\ disk'["v2"] = d
      /\ \A b \in Attempts : b # "v2" => disk'[b] = disk[b]
      /\ disk' = [b \in Attempts |-> disk'[b]]
      /\ \A b \in Attempts : DirectoryType(disk'[b])
  BY <1>2, <1>4, <1>5, DirectoryWritten DEF Attempts
<1>7. TypeInv'
  BY <1>1, <1>2, <1>3, <1>6 DEF TypeInv, Places, Retry, DirectoryType, Count, AtWork, Attempts
<1>8. Directories'
  BY <1>1, <1>2, <1>3, <1>6 DEF Directories, TypeInv, AtWork, Retry, Attempts, Record
<1>9. AtWork'
  BY <1>1, <1>2, <1>3, <1>6 DEF AtWork, TypeInv, Retry, Attempts, Record, Count, Result
<1>10. Retry'
  BY <1>1, <1>2, <1>3, <1>6 DEF Retry, TypeInv, AtWork, Attempts, Record
<1>11. Tried'
  BY <1>1, <1>2, <1>3, <1>6 DEF Tried, TypeInv, AtWork, Retry, Attempts, Record
<1>12. Spending'
  BY <1>1, <1>2, <1>3, <1>6
     DEF Spending, TypeInv, AtWork, Retry, Directories, BudgetOverrunBounded,
         BeforeRetry, Lost, NoFiles, Attempts, Record
<1>13. ProgressIsBacked'
  BY <1>1, <1>2, <1>3, <1>6 DEF ProgressIsBacked, TypeInv, AtWork, Retry, Attempts, Record
<1>14. SealedRunIsComplete'
  BY <1>1, <1>2, <1>3, <1>6
     DEF SealedRunIsComplete, TypeInv, AtWork, Retry, Files, Attempts, Record
<1>15. Intactness'
  <2>1. disk[running].result = None /\ "v2" \in Attempts
    BY <1>1, <1>2 DEF AtWork, Attempts
  <2>2. ASSUME NEW t \in DOMAIN disk'["v2"].ckpts
        PROVE  \/ disk'["v2"].ckpts[t].intact
               \/ <<"v2", t>> \in struck'
    <3>1. disk'["v2"].ckpts = new
      BY <1>2, <1>6
    <3>2. t \in DOMAIN new /\ t \in DOMAIN disk["v2"].ckpts
      BY <1>2, <1>3, <3>1
    <3>3. CASE t = completed
      BY <1>1, <1>3, <1>17, <3>1, <3>3
    <3>4. CASE t # completed
      <4>1. disk["v2"].ckpts[t].intact \/ <<"v2", t>> \in struck
        BY <1>1, <1>2, <2>1, <3>2, <3>4 DEF Intactness
      <4>2. QED
        BY <1>1, <1>3, <3>1, <3>2, <3>4, <4>1
    <3>5. QED
      BY <3>3, <3>4
  <2>3. ASSUME NEW b \in Attempts, b # "v2", NEW t \in DOMAIN disk'[b].ckpts
        PROVE  \/ disk'[b].ckpts[t].intact
               \/ <<b, t>> \in struck'
               \/ disk'[b].result = None /\ running' # b
    BY <1>1, <1>2, <1>6, <2>3 DEF Intactness
  <2>4. QED
    BY <1>1, <1>2, <1>6, <2>2, <2>3 DEF Intactness, Attempts
<1>16. QED
  BY <1>7, <1>8, <1>9, <1>10, <1>11, <1>12, <1>13, <1>14, <1>15

LEMMA WriteCheckpointInv == IInv /\ WriteCheckpoint => IInv'
<1> SUFFICES ASSUME IInv, WriteCheckpoint PROVE IInv'
  OBVIOUS
<1> USE ExecutionAssumption DEF IInv, Reusing, process, place, history
<1>1. /\ pc = "checkpoint" /\ completed' = completed + 1 /\ pc' = "progress"
      /\ UNCHANGED <<process, task, role, secs, history>>
      /\ disk[running].exists /\ disk[running].abort = None
  BY DEF WriteCheckpoint, TypeInv, AtWork
<1>2. /\ running \in Attempts /\ DirectoryType(disk[running])
      /\ config \in Configs /\ task = completed /\ task \in Tasks /\ task < N /\ reused <= task
      /\ completed + 1 \in 0..N
      /\ DOMAIN disk[running].ckpts = 0..(completed - 1)
  BY <1>1 DEF TypeInv, AtWork, Attempts, Tasks
<1> DEFINE c == [by |-> running, config |-> config, intact |-> TRUE]
<1> DEFINE new == With(disk[running].ckpts, task, c)
<1>3. /\ new \in SomeCheckpoints /\ DOMAIN new = 0..completed
      /\ new[completed].by = running
      /\ \A t \in DOMAIN new : t = completed \/ t \in DOMAIN disk[running].ckpts
      /\ new[completed].intact
      /\ \A t \in DOMAIN disk[running].ckpts : new[t] = disk[running].ckpts[t]
  <2>1. /\ c \in Checkpoint /\ c.by = running /\ c.intact /\ task \in Tasks
        /\ disk[running].ckpts \in SomeCheckpoints
    BY <1>1, <1>2 DEF DirectoryType, Checkpoint, TypeInv
  <2> HIDE DEF c
  <2>2. /\ new \in SomeCheckpoints
        /\ DOMAIN new = DOMAIN disk[running].ckpts \cup {task}
        /\ new[task] = c
        /\ \A u \in DOMAIN disk[running].ckpts : u # task => new[u] = disk[running].ckpts[u]
    BY <2>1, CheckpointAdded
  <2>3. 0..completed = 0..(completed - 1) \cup {completed} /\ completed \notin 0..(completed - 1)
    BY <1>1, <1>2 DEF TypeInv
  <2>4. QED
    BY <1>1, <1>2, <2>1, <2>2, <2>3 DEF AtWork
<1> HIDE DEF c, new
<1> DEFINE d == [exists |-> disk[running].exists, plan |-> disk[running].plan,
                ckpts |-> new,
                progress |-> disk[running].progress, abort |-> disk[running].abort,
                result |-> disk[running].result, seal |-> disk[running].seal]
<1>4. DirectoryType(d)
  BY <1>1, <1>2, <1>3 DEF DirectoryType, TypeInv, Count, Record
<1>5. disk' = [disk EXCEPT ![running] = d]
  <2>1. disk' = [disk EXCEPT ![running].ckpts = new]
    BY <1>1 DEF WriteCheckpoint, c, new
  <2>2. d = [disk[running] EXCEPT !.ckpts = new]
    BY <1>2 DEF DirectoryType
  <2>3. QED
    BY <2>1, <2>2
<1>6. /\ disk'[running] = d
      /\ \A b \in Attempts : b # running => disk'[b] = disk[b]
      /\ disk' = [b \in Attempts |-> disk'[b]]
      /\ \A b \in Attempts : DirectoryType(disk'[b])
  BY <1>2, <1>4, <1>5, DirectoryWritten DEF Attempts
<1>7. TypeInv'
  BY <1>1, <1>2, <1>6 DEF TypeInv, Places
<1>8. Directories'
  <2>1. \A a \in Attempts : ~disk'[a].exists => disk'[a] = NoFiles
    <3>1. disk'[running].exists /\ \A b \in Attempts : b # running => disk'[b] = disk[b]
      BY <1>1, <1>2, <1>3, <1>6
    <3>2. QED
      BY <3>1 DEF Directories
  <2>2. \A u \in DOMAIN disk'["v1"].ckpts : disk'["v1"].ckpts[u].by = "v1"
    <3>1. CASE running = "v1"
      <4>1. disk'["v1"].ckpts = new
        BY <1>6, <3>1
      <4>2. \A u \in DOMAIN new : new[u].by = "v1"
        BY <1>2, <1>3, <3>1 DEF Directories
      <4>3. QED
        BY <4>1, <4>2
    <3>2. CASE running # "v1"
      BY <1>6, <3>2 DEF Directories, Attempts
    <3>3. QED
      BY <3>1, <3>2
  <2>3. disk'["v1"].abort # None => DOMAIN disk'["v1"].ckpts = 0..(disk'["v1"].abort.completed - 1)
    BY <1>1, <1>2, <1>3, <1>6 DEF Directories, Attempts
  <2>4. QED
    BY <2>1, <2>2, <2>3 DEF Directories
<1>9. AtWork'
  BY <1>1, <1>2, <1>3, <1>6 DEF AtWork, TypeInv, Retry, Attempts, Record, Count, Result
<1>10. Retry'
  <2>1. CASE running = "v1"
    BY <1>1, <1>2, <1>3, <1>6, <2>1 DEF Retry, Attempts
  <2>2. CASE running = "v2"
    <3>1. disk'["v2"].ckpts = new /\ disk'["v1"] = disk["v1"] /\ UNCHANGED <<running, reused>>
      BY <1>1, <1>6, <2>2 DEF Attempts
    <3>2. \A t \in DOMAIN new : new[t].by = IF t < reused THEN "v1" ELSE "v2"
      <4>1. \A t \in DOMAIN disk["v2"].ckpts :
              disk["v2"].ckpts[t].by = IF t < reused THEN "v1" ELSE "v2"
        BY <1>1, <2>2 DEF Retry
      <4>2. new[completed].by = "v2" /\ ~(completed < reused)
        BY <1>2, <1>3, <2>2 DEF TypeInv
      <4>3. QED
        BY <1>3, <2>2, <4>1, <4>2
    <3>3. QED
      BY <1>1, <2>2, <3>1, <3>2 DEF Retry
  <2>3. QED
    BY <1>2, <2>1, <2>2 DEF Attempts
<1>11. Tried'
  <2>1. CASE running = "v1"
    BY <1>1, <1>2, <1>3, <1>6, <2>1 DEF Tried, TypeInv, Retry, Attempts, Tasks
  <2>2. CASE running = "v2"
    BY <1>1, <1>2, <1>3, <1>6, <2>2 DEF Tried, TypeInv, Retry, Attempts, Tasks
  <2>3. QED
    BY <1>2, <2>1, <2>2 DEF Attempts
<1>12. Spending'
  BY <1>1, <1>2, <1>3, <1>6
     DEF Spending, TypeInv, AtWork, Retry, Directories, BudgetOverrunBounded,
         BeforeRetry, Lost, NoFiles, Attempts, Record
<1>13. ProgressIsBacked'
  BY <1>1, <1>2, <1>3, <1>6 DEF ProgressIsBacked, TypeInv, AtWork, Retry, Attempts, Record
<1>14. SealedRunIsComplete'
  BY <1>1, <1>2, <1>3, <1>6
     DEF SealedRunIsComplete, TypeInv, AtWork, Retry, Files, Attempts, Record
<1>15. Intactness'
  BY <1>1, <1>2, <1>3, <1>6, NothingTornBy
<1>16. QED
  BY <1>7, <1>8, <1>9, <1>10, <1>11, <1>12, <1>13, <1>14, <1>15

LEMMA DamageCheckpointInv == IInv /\ DamageCheckpoint => IInv'
<1> SUFFICES ASSUME IInv, DamageCheckpoint PROVE IInv'
  OBVIOUS
<1> USE ExecutionAssumption DEF IInv, Reusing, process, place, history
<1> DEFINE more(a, t) ==
      {<<"v2", u>> : u \in IF a = "v1" /\ pc \in {"verified", "copying"}
                           THEN {t} \cap {completed} ELSE {}}
<1>20. PICK a \in Attempts :
         \E t \in DOMAIN disk[a].ckpts :
           /\ disk[a].seal = None
           /\ disk' = [disk EXCEPT ![a].ckpts[t].intact = FALSE]
           /\ struck' = struck \cup {<<a, t>>} \cup more(a, t)
           /\ UNCHANGED <<process, pc, place, used, tries>>
  BY DEF DamageCheckpoint, Checkpoints
<1>1. PICK t \in DOMAIN disk[a].ckpts :
        /\ disk[a].seal = None
        /\ disk' = [disk EXCEPT ![a].ckpts[t].intact = FALSE]
        /\ struck' = struck \cup {<<a, t>>} \cup more(a, t)
        /\ UNCHANGED <<process, pc, place, used, tries>>
  BY <1>20
<1>2. DirectoryType(disk[a]) /\ t \in Tasks
  BY DEF TypeInv, DirectoryType, SomeCheckpoints
<1> DEFINE new == [disk[a].ckpts EXCEPT ![t].intact = FALSE]
<1>3. /\ new \in SomeCheckpoints /\ DOMAIN new = DOMAIN disk[a].ckpts
      /\ \A u \in DOMAIN new : new[u].by = disk[a].ckpts[u].by
      /\ disk[a].exists
  <2>1. PICK S \in SUBSET Tasks : disk[a].ckpts \in [S -> Checkpoint]
    BY <1>1, <1>2 DEF DirectoryType, SomeCheckpoints
  <2>2. new \in [S -> Checkpoint]
    BY <1>1, <1>2, <2>1 DEF Checkpoint
  <2>3. disk[a].exists
    <3>1. ~disk[a].exists => disk[a].ckpts = <<>>
      BY DEF Directories, NoFiles, Attempts
    <3>2. QED
      BY <1>1, <3>1
  <2>4. QED
    BY <1>1, <1>2, <2>1, <2>2, <2>3 DEF SomeCheckpoints, Checkpoint
<1>17. /\ new[t].intact = FALSE
       /\ \A u \in DOMAIN new : u # t => new[u] = disk[a].ckpts[u]
  <2>1. PICK S \in SUBSET Tasks : disk[a].ckpts \in [S -> Checkpoint]
    BY <1>2 DEF DirectoryType, SomeCheckpoints
  <2>2. QED
    BY <1>1, <2>1 DEF Checkpoint
<1>18. struck' \subseteq Attempts \X Tasks
  BY <1>1, <1>2 DEF TypeInv, Attempts, Tasks
<1> HIDE DEF new
<1> DEFINE d == [exists |-> disk[a].exists, plan |-> disk[a].plan, ckpts |-> new,
                progress |-> disk[a].progress, abort |-> disk[a].abort,
                result |-> disk[a].result, seal |-> disk[a].seal]
<1>4. DirectoryType(d)
  BY <1>1, <1>2, <1>3 DEF DirectoryType, TypeInv, Count, Record
<1>5. disk' = [disk EXCEPT ![a] = d]
  <2>1. disk' = [disk EXCEPT ![a].ckpts = new]
    BY <1>1 DEF new
  <2>2. d = [disk[a] EXCEPT !.ckpts = new]
    BY <1>2 DEF DirectoryType
  <2>3. QED
    BY <2>1, <2>2
<1>6. /\ disk'[a] = d
      /\ \A b \in Attempts : b # a => disk'[b] = disk[b]
      /\ disk' = [b \in Attempts |-> disk'[b]]
      /\ \A b \in Attempts : DirectoryType(disk'[b])
  BY <1>2, <1>4, <1>5, DirectoryWritten DEF Attempts
<1>7. TypeInv'
  BY <1>1, <1>2, <1>3, <1>6, <1>18 DEF TypeInv, Places, Retry, DirectoryType, Count, AtWork, Attempts
<1>8. Directories'
  <2>1. \A b \in Attempts : ~disk'[b].exists => disk'[b] = NoFiles
    <3>1. disk'[a].exists /\ \A b \in Attempts : b # a => disk'[b] = disk[b]
      BY <1>3, <1>6
    <3>2. QED
      BY <3>1 DEF Directories
  <2>2. /\ DOMAIN disk'["v1"].ckpts = DOMAIN disk["v1"].ckpts
        /\ \A u \in DOMAIN disk'["v1"].ckpts : disk'["v1"].ckpts[u].by = disk["v1"].ckpts[u].by
        /\ disk'["v1"].abort = disk["v1"].abort
    BY <1>3, <1>6 DEF Attempts
  <2>3. QED
    BY <2>1, <2>2 DEF Directories
<1>9. AtWork'
  BY <1>1, <1>2, <1>3, <1>6 DEF AtWork, TypeInv, Retry, Attempts, Record, Count, Result
<1>10. Retry'
  BY <1>1, <1>2, <1>3, <1>6 DEF Retry, TypeInv, AtWork, Attempts, Record
<1>11. Tried'
  BY <1>1, <1>2, <1>3, <1>6 DEF Tried, TypeInv, AtWork, Retry, Attempts, Record
<1>12. Spending'
  BY <1>1, <1>2, <1>3, <1>6
     DEF Spending, TypeInv, AtWork, Retry, Directories, BudgetOverrunBounded,
         BeforeRetry, Lost, NoFiles, Attempts, Record
<1>13. ProgressIsBacked'
  BY <1>1, <1>2, <1>3, <1>6 DEF ProgressIsBacked, TypeInv, AtWork, Retry, Attempts, Record
<1>14. SealedRunIsComplete'
  <2>1. struck \subseteq struck' /\ disk'[a].seal = None /\ disk'[a].abort = disk[a].abort
    BY <1>1, <1>6
  <2>2. ASSUME NEW b \in Attempts, b # a, disk'[b].seal # None
        PROVE  /\ disk'[b] = disk[b] /\ disk'[b].seal = Files(b)'
               /\ disk'[b].result # None /\ disk'[b].abort = None
               /\ disk'[b].progress.completed = N
               /\ DOMAIN disk'[b].ckpts = Tasks
               /\ \A u \in Tasks : disk'[b].ckpts[u].intact \/ <<b, u>> \in struck'
               /\ b = "v2" =>
                    /\ disk["v1"].abort # None
                    /\ \A u \in Tasks : disk'[b].ckpts[u].by =
                         IF u < disk["v1"].abort.completed THEN "v1" ELSE "v2"
    <3>1. disk'[b] = disk[b]
      BY <1>6, <2>2
    <3>2. /\ disk[b].seal = Files(b)
          /\ disk[b].result # None /\ disk[b].abort = None
          /\ disk[b].progress.completed = N
          /\ DOMAIN disk[b].ckpts = Tasks
          /\ \A u \in Tasks : disk[b].ckpts[u].intact \/ <<b, u>> \in struck
          /\ b = "v2" =>
               /\ disk["v1"].abort # None
               /\ \A u \in Tasks : disk[b].ckpts[u].by =
                    IF u < disk["v1"].abort.completed THEN "v1" ELSE "v2"
      BY <2>2, <3>1 DEF SealedRunIsComplete
    <3>3. Files(b)' = Files(b)
      BY <3>1 DEF Files
    <3>4. QED
      BY <2>1, <3>1, <3>2, <3>3
  <2>3. disk'["v1"].abort = disk["v1"].abort
    BY <1>6, <2>1 DEF Attempts
  <2>4. QED
    BY <2>1, <2>2, <2>3 DEF SealedRunIsComplete
<1>15. Intactness'
  <2>1. struck \subseteq struck' /\ disk'[a].result = disk[a].result
    BY <1>1, <1>6
  <2>2. ASSUME NEW u \in DOMAIN disk'[a].ckpts
        PROVE  \/ disk'[a].ckpts[u].intact
               \/ <<a, u>> \in struck'
               \/ disk'[a].result = None /\ (running' = a => pc' = "copying" /\ u = completed')
    BY <1>1, <1>3, <1>6, <1>17, <2>1 DEF Intactness
  <2>3. ASSUME NEW b \in Attempts, b # a, NEW u \in DOMAIN disk'[b].ckpts
        PROVE  \/ disk'[b].ckpts[u].intact
               \/ <<b, u>> \in struck'
               \/ disk'[b].result = None /\ (running' = b => pc' = "copying" /\ u = completed')
    BY <1>1, <1>6, <2>1, <2>3 DEF Intactness
  <2>4. ASSUME pc' \in {"verified", "copying"}
        PROVE  disk'["v1"].ckpts[completed'].intact \/ <<"v2", completed'>> \in struck'
    <3>1. "v1" \in Attempts /\ completed \in DOMAIN disk["v1"].ckpts
      BY <1>1, <2>4 DEF AtWork, Retry, Directories, Attempts, TypeInv
    <3>2. a = "v1" /\ t = completed => <<"v2", completed>> \in struck'
      BY <1>1, <2>4
    <3>3. ~(a = "v1" /\ t = completed) =>
            disk'["v1"].ckpts[completed] = disk["v1"].ckpts[completed]
      BY <1>3, <1>6, <1>17, <3>1
    <3>4. QED
      BY <1>1, <2>1, <2>4, <3>2, <3>3 DEF Intactness
  <2>5. QED
    BY <2>2, <2>3, <2>4 DEF Intactness
<1>16. QED
  BY <1>7, <1>8, <1>9, <1>10, <1>11, <1>12, <1>13, <1>14, <1>15

------------------------------------------------------------------------------
LEMMA NextInv == IInv /\ [Next]_vars => IInv'
<1> SUFFICES ASSUME IInv, [Next]_vars PROVE IInv'
  OBVIOUS
<1>1. CASE Next
  BY <1>1, LaunchBaselineInv, LaunchResumeInv, ReadPreviousInv, VerifyCheckpointInv, OpenCopyInv,
     CopyCheckpointInv, CopiesDoneInv,
     WritePlanInv, WriteReusedInv, LoadEngineInv, GenerateInv, GenerationFailsInv,
     AlarmBeforeAccountingInv, WriteCheckpointInv, WriteProgressInv, WriteResultInv,
     WriteAbortInv, CloseEngineInv, WriteSealInv, FailCaughtInv, FailUncaughtInv, CrashInv,
     DamageCheckpointInv DEF Next, Work
<1>2. CASE UNCHANGED vars
  <2> USE <1>2 DEF vars, process, place, history, IInv
  <2>1. TypeInv' /\ Directories'
    BY DEF TypeInv, Directories
  <2>2. AtWork' /\ Retry'
    BY DEF AtWork, Retry
  <2>3. Tried' /\ Spending'
    BY DEF Tried, Spending, BeforeRetry, Lost, BudgetOverrunBounded
  <2>4. ProgressIsBacked' /\ SealedRunIsComplete'
    BY DEF ProgressIsBacked, SealedRunIsComplete, Files
  <2>5. Intactness'
    BY DEF Intactness
  <2>6. QED
    BY <2>1, <2>2, <2>3, <2>4, <2>5
<1>3. QED
  BY <1>1, <1>2

\* The inductive invariant of the two scripts and of what they leave on disk.
THEOREM Inductive == Spec => []IInv
BY InitInv, NextInv, PTL DEF Spec

(***************************************************************************)
(* ProgressIsBacked: whenever a process dies, the progress list names only *)
(* checkpoints that are on disk and misses at most the last one.           *)
(***************************************************************************)
THEOREM ProgressIsOnDisk == Spec => []ProgressIsBacked
<1>1. IInv => ProgressIsBacked
  BY DEF IInv
<1>2. QED
  BY <1>1, Inductive, PTL

(***************************************************************************)
(* SealedRunIsComplete: a seal is over a whole checkpoint of every task,   *)
(* damaged only behind the last look at it, and a sealed retry copied or   *)
(* generated each of them as it should.                                    *)
(***************************************************************************)
THEOREM SealsAreComplete == Spec => []SealedRunIsComplete
<1>1. IInv => SealedRunIsComplete
  BY DEF IInv
<1>2. QED
  BY <1>1, Inductive, PTL

(***************************************************************************)
(* OnlyTheAbortedTaskIsRetried: no task with a checkpoint is generated     *)
(* again, and the one task both attempts generate is the aborted one.      *)
(***************************************************************************)
THEOREM RetryIsOfTheAbortedTask == Spec => []OnlyTheAbortedTaskIsRetried
<1>1. IInv => OnlyTheAbortedTaskIsRetried
  <2> SUFFICES ASSUME IInv, NEW t \in Tasks, tries[t] = Attempts
               PROVE  /\ disk["v1"].abort # None
                      /\ t = disk["v1"].abort.completed
                      /\ t \notin DOMAIN disk["v1"].ckpts
    BY DEF OnlyTheAbortedTaskIsRetried
  <2>1. /\ disk["v1"].abort # None
        /\ t <= disk["v1"].abort.completed /\ disk["v1"].abort.completed <= t
    BY DEF IInv, Tried, Attempts
  <2>2. disk["v1"].abort \in Count /\ t \in Nat
    BY <2>1, ExecutionAssumption DEF IInv, TypeInv, DirectoryType, Attempts, Tasks
  <2>3. t = disk["v1"].abort.completed
    BY <2>1, <2>2 DEF Count
  <2>4. QED
    BY <2>1, <2>2, <2>3 DEF IInv, Directories
<1>2. QED
  BY <1>1, Inductive, PTL

(***************************************************************************)
(* BudgetOverrunBounded: the two attempts together overrun the budget by   *)
(* less than two generations.                                              *)
(***************************************************************************)
THEOREM OverrunIsBounded == Spec => []BudgetOverrunBounded
<1>1. IInv => BudgetOverrunBounded
  BY DEF IInv, Spending
<1>2. QED
  BY <1>1, Inductive, PTL

------------------------------------------------------------------------------
(* The action property.                                                     *)

EvidenceKept ==
  \A a \in Attempts :
    /\ \A t \in DOMAIN disk[a].ckpts :
         /\ t \in DOMAIN disk'[a].ckpts
         /\ disk'[a].ckpts[t].by = disk[a].ckpts[t].by
         /\ disk'[a].ckpts[t].config = disk[a].ckpts[t].config
    /\ \A f \in {"abort", "result", "seal"} :
         disk[a][f] # None => disk'[a][f] = disk[a][f]

LEMMA WritePlanKeeps == IInv /\ WritePlan => EvidenceKept
<1> SUFFICES ASSUME IInv, WritePlan PROVE EvidenceKept
  OBVIOUS
<1>1. disk' = [disk EXCEPT ![running].plan = config]
  BY DEF WritePlan
<1>2. running \in Attempts /\ DirectoryType(disk[running])
  BY DEF WritePlan, IInv, TypeInv, AtWork, Attempts
<1>3. QED
  BY <1>1, <1>2 DEF EvidenceKept, IInv, TypeInv, DirectoryType

LEMMA WriteReusedKeeps == IInv /\ WriteReused => EvidenceKept
<1> SUFFICES ASSUME IInv, WriteReused PROVE EvidenceKept
  OBVIOUS
<1>1. disk' = [disk EXCEPT !["v2"].progress = Record(completed, secs)]
  BY DEF WriteReused
<1>2. "v2" \in Attempts /\ DirectoryType(disk["v2"])
  BY DEF WriteReused, IInv, TypeInv, AtWork, Attempts
<1>3. QED
  BY <1>1, <1>2 DEF EvidenceKept, IInv, TypeInv, DirectoryType

LEMMA WriteProgressKeeps == IInv /\ WriteProgress => EvidenceKept
<1> SUFFICES ASSUME IInv, WriteProgress PROVE EvidenceKept
  OBVIOUS
<1>1. disk' = [disk EXCEPT ![running].progress = Record(Listed, secs)]
  BY DEF WriteProgress
<1>2. running \in Attempts /\ DirectoryType(disk[running])
  BY DEF WriteProgress, IInv, TypeInv, AtWork, Attempts
<1>3. QED
  BY <1>1, <1>2 DEF EvidenceKept, IInv, TypeInv, DirectoryType

LEMMA WriteResultKeeps == IInv /\ WriteResult => EvidenceKept
<1> SUFFICES ASSUME IInv, WriteResult PROVE EvidenceKept
  OBVIOUS
<1>1. disk' = [disk EXCEPT ![running].result = [secs |-> secs]]
  BY DEF WriteResult
<1>2. running \in Attempts /\ DirectoryType(disk[running])
  BY DEF WriteResult, IInv, TypeInv, AtWork, Attempts
<1>3. disk[running].result = None
  BY DEF WriteResult, IInv, TypeInv, AtWork, Attempts
<1>4. QED
  BY <1>1, <1>2, <1>3 DEF EvidenceKept, IInv, TypeInv, DirectoryType

LEMMA WriteAbortKeeps == IInv /\ WriteAbort => EvidenceKept
<1> SUFFICES ASSUME IInv, WriteAbort PROVE EvidenceKept
  OBVIOUS
<1>1. disk' = [disk EXCEPT ![running].abort = Record(completed, secs)]
  BY DEF WriteAbort
<1>2. running \in Attempts /\ DirectoryType(disk[running])
  BY DEF WriteAbort, IInv, TypeInv, AtWork, Attempts
<1>3. disk[running].abort = None
  BY DEF WriteAbort, IInv, TypeInv, AtWork, Attempts
<1>4. QED
  BY <1>1, <1>2, <1>3 DEF EvidenceKept, IInv, TypeInv, DirectoryType

LEMMA WriteSealKeeps == IInv /\ WriteSeal => EvidenceKept
<1> SUFFICES ASSUME IInv, WriteSeal PROVE EvidenceKept
  OBVIOUS
<1>1. disk' = [disk EXCEPT ![running].seal = Files(running)]
  BY DEF WriteSeal
<1>2. running \in Attempts /\ DirectoryType(disk[running])
  BY DEF WriteSeal, IInv, TypeInv, AtWork, Attempts
<1>3. disk[running].seal = None
  BY DEF WriteSeal, IInv, TypeInv, AtWork, Attempts
<1>4. QED
  BY <1>1, <1>2, <1>3 DEF EvidenceKept, IInv, TypeInv, DirectoryType

LEMMA LaunchBaselineKeeps == IInv /\ LaunchBaseline => EvidenceKept
<1> SUFFICES ASSUME IInv, LaunchBaseline PROVE EvidenceKept
  OBVIOUS
<1>1. disk' = [disk EXCEPT !["v1"].exists = TRUE]
  BY DEF LaunchBaseline, Launch
<1>2. "v1" \in Attempts /\ DirectoryType(disk["v1"])
  BY DEF LaunchBaseline, Launch, IInv, TypeInv, AtWork, Attempts
<1>3. QED
  BY <1>1, <1>2 DEF EvidenceKept, IInv, TypeInv, DirectoryType

LEMMA LaunchResumeKeeps == IInv /\ LaunchResume => EvidenceKept
<1> SUFFICES ASSUME IInv, LaunchResume PROVE EvidenceKept
  OBVIOUS
<1>1. disk' = [disk EXCEPT !["v2"].exists = TRUE]
  BY DEF LaunchResume, Launch
<1>2. "v2" \in Attempts /\ DirectoryType(disk["v2"])
  BY DEF LaunchResume, Launch, IInv, TypeInv, AtWork, Attempts
<1>3. QED
  BY <1>1, <1>2 DEF EvidenceKept, IInv, TypeInv, DirectoryType

LEMMA OpenCopyKeeps == IInv /\ OpenCopy => EvidenceKept
<1> SUFFICES ASSUME IInv, OpenCopy PROVE EvidenceKept
  OBVIOUS
<1>1. disk' = [disk EXCEPT !["v2"].ckpts = 
           With(disk["v2"].ckpts, completed,
                [disk["v1"].ckpts[completed] EXCEPT !.intact = FALSE])]
  BY DEF OpenCopy, Checkpoints
<1>2. "v2" \in Attempts /\ DirectoryType(disk["v2"])
  BY DEF OpenCopy, Checkpoints, IInv, TypeInv, AtWork, Attempts
<1>3. completed \notin DOMAIN disk["v2"].ckpts
  BY DEF OpenCopy, IInv, TypeInv, AtWork, Attempts
<1>4. QED
  BY <1>1, <1>2, <1>3 DEF With, EvidenceKept, IInv, TypeInv, DirectoryType

LEMMA CopyCheckpointKeeps == IInv /\ CopyCheckpoint => EvidenceKept
<1> SUFFICES ASSUME IInv, CopyCheckpoint PROVE EvidenceKept
  OBVIOUS
<1>1. disk' = [disk EXCEPT !["v2"].ckpts[completed].intact =
                 disk["v1"].ckpts[completed].intact]
  BY DEF CopyCheckpoint, Checkpoints
<1>2. "v2" \in Attempts /\ DirectoryType(disk["v2"])
  BY DEF IInv, TypeInv, Attempts
<1>3. QED
  BY <1>1, <1>2 DEF SomeCheckpoints, Checkpoint, EvidenceKept, IInv, TypeInv, DirectoryType

LEMMA WriteCheckpointKeeps == IInv /\ WriteCheckpoint => EvidenceKept
<1> SUFFICES ASSUME IInv, WriteCheckpoint PROVE EvidenceKept
  OBVIOUS
<1>1. disk' = [disk EXCEPT ![running].ckpts = 
           With(disk[running].ckpts, task, [by |-> running, config |-> config, intact |-> TRUE])]
  BY DEF WriteCheckpoint
<1>2. running \in Attempts /\ DirectoryType(disk[running])
  BY DEF WriteCheckpoint, IInv, TypeInv, AtWork, Attempts
<1>3. task \notin DOMAIN disk[running].ckpts
  BY DEF WriteCheckpoint, IInv, TypeInv, AtWork, Attempts
<1>4. QED
  BY <1>1, <1>2, <1>3 DEF With, EvidenceKept, IInv, TypeInv, DirectoryType

LEMMA DamageCheckpointKeeps == IInv /\ DamageCheckpoint => EvidenceKept
<1> SUFFICES ASSUME IInv, DamageCheckpoint PROVE EvidenceKept
  OBVIOUS
<1>4. PICK a \in Attempts :
        \E t \in DOMAIN disk[a].ckpts :
          disk' = [disk EXCEPT ![a].ckpts[t].intact = FALSE]
  BY DEF DamageCheckpoint, Checkpoints
<1>1. PICK t \in DOMAIN disk[a].ckpts :
        disk' = [disk EXCEPT ![a].ckpts[t].intact = FALSE]
  BY <1>4
<1>2. DirectoryType(disk[a])
  BY DEF IInv, TypeInv
<1>3. QED
  BY <1>1, <1>2 DEF SomeCheckpoints, Checkpoint, EvidenceKept, IInv, TypeInv, DirectoryType

(***************************************************************************)
(* EvidencePreserved: no step of either script rewrites a checkpoint, a    *)
(* result, an abort record or a seal.                                      *)
(***************************************************************************)
THEOREM EvidenceIsPreserved == Spec => EvidencePreserved
<1>1. IInv /\ [Next]_vars => EvidenceKept
  <2> SUFFICES ASSUME IInv, [Next]_vars PROVE EvidenceKept
    OBVIOUS
  <2>1. CASE UNCHANGED disk
    BY <2>1 DEF EvidenceKept
  <2>2. CASE disk' # disk
    <3>1. \/ LaunchBaseline \/ LaunchResume \/ OpenCopy \/ CopyCheckpoint \/ WritePlan \/ WriteReused
          \/ WriteCheckpoint \/ WriteProgress \/ WriteResult \/ WriteAbort \/ WriteSeal
          \/ DamageCheckpoint
      BY <2>2 DEF vars, Next, Work, ReadPrevious, VerifyCheckpoint, CopiesDone, LoadEngine, Generate,
                  GenerationFails, AlarmBeforeAccounting, CloseEngine, FailCaught,
                  FailUncaught, Crash
    <3>2. QED
      BY <3>1, LaunchBaselineKeeps, LaunchResumeKeeps, OpenCopyKeeps, CopyCheckpointKeeps,
         WritePlanKeeps,
         WriteReusedKeeps, WriteCheckpointKeeps, WriteProgressKeeps, WriteResultKeeps,
         WriteAbortKeeps, WriteSealKeeps, DamageCheckpointKeeps
  <2>3. QED
    BY <2>1, <2>2
<1>2. QED
  BY <1>1, Inductive, PTL DEF Spec, EvidencePreserved, EvidenceKept
=============================================================================
