--------------------------- MODULE Gate6Execution ---------------------------
(***************************************************************************)
(* The two scripts that execute the Gate 6 tasks: the first attempt        *)
(* (run_gate6_baselines.py, "v1") and the one infrastructure retry that    *)
(* reuses the checkpoints of an aborted first attempt                      *)
(* (run_gate6_resume.py, "v2").  Each writes a directory of its own and    *)
(* refuses to start when it exists.                                        *)
(*                                                                         *)
(* A dump writes a temporary file and replaces the target, so what is      *)
(* dumped appears whole; a reused checkpoint is copied into its place and  *)
(* can be left torn.  Between two steps the process may die, any step may  *)
(* raise, and a checkpoint may be damaged.  A generation takes GPU time    *)
(* and runs under an alarm.                                                *)
(***************************************************************************)
EXTENDS Integers, FiniteSets

CONSTANTS
  N,         \* EXPECTED_TASKS
  R,         \* roles of the team
  Configs,   \* generation configuration, seeds and code a launch runs with
  Durations, \* seconds a generation that returns may take
  Timeout,   \* TIMEOUT_SECONDS
  Budget,    \* GPU_BUDGET_SECONDS
  None       \* a file that is not there, no process, no configuration

Attempts == {"v1", "v2"}
Tasks == 0..(N - 1)

\* What progress.json and abort.json say: tasks and generation seconds; what
\* the result says.
Count == [completed : Nat, secs : Nat]
Result == [secs : Nat]

ASSUME ExecutionAssumption ==
  /\ N \in Nat \ {0} /\ R \in Nat \ {0}
  /\ Timeout \in Nat \ {0} /\ Budget \in Nat \ {0}
  /\ Durations \subseteq 1..Timeout
  /\ None \notin Attempts /\ None \notin Count /\ None \notin Result

VARIABLES
  disk,      \* the files of each attempt's directory
  running,   \* the attempt a process is executing, or None
  pc,        \* where that process stands
  config,    \* what it runs with
  reused,    \* REUSED_TASKS, frozen in the resume script when it is launched
  completed, \* len(completed) of the process
  task,      \* index of the task it is at
  role,      \* index of the next role of the task
  secs,      \* generation_seconds of the process
  used,      \* GPU seconds really spent on generations, by both attempts
  tries,     \* the attempts that started to generate a task
  struck     \* <<attempt, task>>: damage to its checkpoint, or to the source of
             \* its copy once that was verified

process == <<running, config, reused>>
place == <<completed, task, role, secs>>
history == <<used, tries, struck>>
vars == <<disk, pc, process, place, history>>

(***************************************************************************)
(* A directory: None stands for a file that is not there.  A progress list *)
(* or an abort record is known by the number of tasks it counts and the    *)
(* generation seconds it gives.                                            *)
(***************************************************************************)
NoFiles ==
  [exists |-> FALSE, plan |-> None, ckpts |-> <<>>, progress |-> None,
   abort |-> None, result |-> None, seal |-> None]

\* A checkpoint is by an attempt, has a configuration and is intact while its
\* hash, the one the progress list names, fits.
Checkpoint == [by : Attempts, config : Configs, intact : BOOLEAN]

Files(a) == [f \in DOMAIN disk[a] \ {"seal"} |-> disk[a][f]]
Checkpoints(a) == disk[a].ckpts

With(f, key, value) ==
  [k \in DOMAIN f \cup {key} |-> IF k = key THEN value ELSE f[k]]

Record(count, seconds) == [completed |-> count, secs |-> seconds]

------------------------------------------------------------------------------
Init ==
  /\ disk = [a \in Attempts |-> NoFiles]
  /\ running = None
  /\ pc = "idle"
  /\ config = None
  /\ reused = 0
  /\ completed = 0
  /\ task = 0
  /\ role = 0
  /\ secs = 0
  /\ used = 0
  /\ tries = [t \in Tasks |-> {}]
  /\ struck = {}

\* Mutant: an existing directory is used again.
MayStartAgain(a) == TRUE
MayStart(a) == ~disk[a].exists

\* The script is started, by hand, whatever the state of the other attempt;
\* REUSED_TASKS is what its author froze into it.
Launch(a, c, n) ==
  /\ running = None /\ MayStart(a)
  /\ disk' = [disk EXCEPT ![a].exists = TRUE]
  /\ running' = a
  /\ config' = c
  /\ reused' = n
  /\ completed' = 0 /\ task' = 0 /\ role' = 0 /\ secs' = 0
  /\ pc' = IF a = "v1" THEN "plan" ELSE "previous"
  /\ UNCHANGED history

LaunchBaseline == \E c \in Configs : Launch("v1", c, 0)
LaunchResume == \E c \in Configs, n \in 0..N : Launch("v2", c, n)

Stop ==
  /\ running' = None
  /\ pc' = "idle"
  /\ UNCHANGED <<config, reused, place, history>>

------------------------------------------------------------------------------
(* What the resume does before its try: nothing here is caught.            *)

\* abort.json is the frozen one and both files count the frozen number.
PreviousAgrees ==
  /\ disk["v1"].abort # None /\ disk["v1"].progress # None
  /\ disk["v1"].abort.completed = reused
  /\ disk["v1"].progress.completed = reused

ReadPrevious ==
  /\ pc = "previous"
  /\ PreviousAgrees
  /\ pc' = "copy"
  /\ UNCHANGED <<disk, process, place, history>>

\* Mutant: the checkpoint is copied without recomputing its hash.
ReusableUnchecked(t) == t \in DOMAIN Checkpoints("v1")
Reusable(t) == t \in DOMAIN Checkpoints("v1") /\ Checkpoints("v1")[t].intact

\* The next file is read and its hash recomputed; nothing is kept of it.
VerifyCheckpoint ==
  /\ pc = "copy" /\ completed < disk["v1"].progress.completed
  /\ Reusable(completed)
  /\ pc' = "verified"
  /\ UNCHANGED <<disk, process, place, history>>

\* copy2 opens the target under its own name and reads the source again.
OpenCopy ==
  /\ pc = "verified"
  /\ disk' = [disk EXCEPT !["v2"].ckpts =
                With(@, completed, [Checkpoints("v1")[completed] EXCEPT !.intact = FALSE])]
  /\ pc' = "copying"
  /\ UNCHANGED <<process, place, history>>

CopyCheckpoint ==
  /\ pc = "copying"
  /\ disk' = [disk EXCEPT !["v2"].ckpts[completed].intact =
                Checkpoints("v1")[completed].intact]
  /\ completed' = completed + 1
  /\ pc' = "copy"
  /\ UNCHANGED <<process, task, role, secs, history>>

CopiesDone ==
  /\ pc = "copy" /\ completed = disk["v1"].progress.completed
  /\ pc' = "plan"
  /\ UNCHANGED <<disk, process, place, history>>

\* Mutant: the retry starts its clock at zero.
SecondsAtStartZero == 0
SecondsAtStart == IF running = "v2" THEN disk["v1"].abort.secs ELSE 0

WritePlan ==
  /\ pc = "plan"
  /\ disk' = [disk EXCEPT ![running].plan = config]
  /\ secs' = SecondsAtStart
  /\ pc' = IF running = "v2" THEN "carry" ELSE "load"
  /\ UNCHANGED <<process, completed, task, role, history>>

\* The resume's first progress.json: the reused tasks and their time.
WriteReused ==
  /\ pc = "carry"
  /\ disk' = [disk EXCEPT !["v2"].progress = Record(completed, secs)]
  /\ pc' = "load"
  /\ UNCHANGED <<process, place, history>>

\* A failure outside the try: before it, while the abort record is written,
\* in engine.close, or while the seal is written.
FailUncaught ==
  /\ pc \in {"plan", "previous", "copy", "verified", "copying", "carry", "abort",
            "close", "seal"}
  /\ Stop
  /\ UNCHANGED disk

------------------------------------------------------------------------------
(* Inside the try.                                                         *)

\* Mutant: the reused tasks are not skipped.
FirstTaskZero == 0
FirstTask == reused

\* The engine loads and, in a retry, the first task is the frozen one.
LoadEngine ==
  /\ pc = "load"
  /\ task' = FirstTask
  /\ pc' = IF FirstTask = N THEN "result" ELSE "generate"
  /\ UNCHANGED <<disk, process, completed, role, secs, history>>

BudgetExhausted(s) == s >= Budget

StartsTask == tries' = [tries EXCEPT ![task] = @ \cup {running}]

\* Mutant: a task that failed is tried again in the same process.
AfterFailureRetried == "load"
AfterFailure == "abort"

RoleAfterTask == 0

\* engine.generate returns in time; the budget is looked at afterwards.
Generate ==
  /\ pc = "generate"
  /\ StartsTask
  /\ \E d \in Durations :
       /\ used' = used + d
       /\ secs' = secs + d
       /\ IF BudgetExhausted(secs + d)
            THEN pc' = "abort" /\ role' = role
            ELSE IF role + 1 < R
                   THEN pc' = "generate" /\ role' = role + 1
                   ELSE pc' = "checkpoint" /\ role' = RoleAfterTask
  /\ UNCHANGED <<disk, process, completed, task, struck>>

\* It raises after d seconds: the alarm at Timeout, or the engine itself, or
\* the alarm that finds the answer already there but not yet disarmed.
GenerationFails ==
  /\ pc = "generate"
  /\ StartsTask
  /\ \E d \in Durations \cup {Timeout} : used' = used + d /\ secs' = secs + d
  /\ pc' = AfterFailure
  /\ UNCHANGED <<disk, process, completed, task, role, struck>>

\* The alarm fires in the finally clause, before the elapsed time is added.
AlarmBeforeAccounting ==
  /\ pc = "generate"
  /\ StartsTask
  /\ used' = used + Timeout
  /\ pc' = AfterFailure
  /\ UNCHANGED <<disk, process, place, struck>>

\* Aggregation, its replay, and the checkpoint file.
WriteCheckpoint ==
  /\ pc = "checkpoint"
  /\ disk' = [disk EXCEPT ![running].ckpts =
                With(@, task, [by |-> running, config |-> config, intact |-> TRUE])]
  /\ completed' = completed + 1
  /\ pc' = "progress"
  /\ UNCHANGED <<process, task, role, secs, history>>

\* Mutant: the list counts the task that comes next.
ListedAhead == IF completed < N THEN completed + 1 ELSE completed
Listed == completed

WriteProgress ==
  /\ pc = "progress"
  /\ disk' = [disk EXCEPT ![running].progress = Record(Listed, secs)]
  /\ task' = task + 1
  /\ pc' = IF task + 1 = N THEN "result" ELSE "generate"
  /\ UNCHANGED <<process, completed, role, secs, history>>

\* The checkpoints are read back, their hashes are not, and the result is
\* written.
WriteResult ==
  /\ pc = "result"
  /\ disk' = [disk EXCEPT ![running].result = [secs |-> secs]]
  /\ pc' = "close"
  /\ UNCHANGED <<process, place, history>>

\* Any other exception inside the try.
FailCaught ==
  /\ pc \in {"load", "generate", "checkpoint", "progress", "result"}
  /\ pc' = AfterFailure
  /\ UNCHANGED <<disk, process, place, history>>

WriteAbort ==
  /\ pc = "abort"
  /\ disk' = [disk EXCEPT ![running].abort = Record(completed, secs)]
  /\ Stop

CloseEngine ==
  /\ pc = "close"
  /\ pc' = "seal"
  /\ UNCHANGED <<disk, process, place, history>>

\* artifact-manifest.json: the hash of every file there is.
WriteSeal ==
  /\ pc = "seal"
  /\ disk' = [disk EXCEPT ![running].seal = Files(running)]
  /\ Stop

------------------------------------------------------------------------------
\* The process dies, or an interrupt that is no Exception ends it.
Crash ==
  /\ running # None
  /\ Stop
  /\ UNCHANGED disk

\* A checkpoint of an unsealed attempt is damaged, whoever runs.  A seal names
\* the hash of every file, so what happens behind it shows.
DamageCheckpoint ==
  \E a \in Attempts : \E t \in DOMAIN Checkpoints(a) :
    /\ disk[a].seal = None
    /\ disk' = [disk EXCEPT ![a].ckpts[t].intact = FALSE]
    /\ struck' = struck \cup {<<a, t>>}
         \cup {<<"v2", u>> : u \in IF a = "v1" /\ pc \in {"verified", "copying"}
                                    THEN {t} \cap {completed} ELSE {}}
    /\ UNCHANGED <<process, pc, place, used, tries>>

Work ==
  \/ ReadPrevious \/ VerifyCheckpoint \/ OpenCopy \/ CopyCheckpoint \/ CopiesDone
  \/ WritePlan \/ WriteReused
  \/ LoadEngine \/ Generate \/ GenerationFails \/ AlarmBeforeAccounting
  \/ WriteCheckpoint \/ WriteProgress \/ WriteResult \/ WriteAbort
  \/ CloseEngine \/ WriteSeal \/ FailCaught \/ FailUncaught

Next ==
  \/ LaunchBaseline
  \/ LaunchResume
  \/ Work
  \/ Crash
  \/ DamageCheckpoint

\* A started script runs on, under the alarm, until it returns or raises;
\* nobody has to launch one, and nothing has to crash.
Spec == Init /\ [][Next]_vars /\ WF_vars(Work)

------------------------------------------------------------------------------
\* Whenever the process dies, progress.json lists only checkpoints that are on
\* disk, and misses at most the last one.
ProgressIsBacked ==
  \A a \in Attempts :
    disk[a].progress # None =>
      /\ 0..(disk[a].progress.completed - 1) \subseteq DOMAIN disk[a].ckpts
      /\ DOMAIN disk[a].ckpts \subseteq 0..disk[a].progress.completed

\* A sealed directory holds a result, no abort record and a checkpoint of every
\* task, all listed; what the seal hashed is what the scripts leave there.  No
\* checkpoint is torn, and one is damaged only if it was struck after the last
\* time its hash was recomputed: in the sealed directory itself, or in its
\* source between the verification and the copy, which reads it again.  A retry
\* seals only tasks it copied from an abort of the first attempt or generated
\* itself.
SealedRunIsComplete ==
  \A a \in Attempts :
    disk[a].seal # None =>
      /\ disk[a].seal = Files(a)
      /\ disk[a].result # None /\ disk[a].abort = None
      /\ disk[a].progress.completed = N
      /\ DOMAIN disk[a].ckpts = Tasks
      /\ \A t \in Tasks : disk[a].ckpts[t].intact \/ <<a, t>> \in struck
      /\ a = "v2" =>
           /\ disk["v1"].abort # None
           /\ \A t \in Tasks :
                disk[a].ckpts[t].by = IF t < disk["v1"].abort.completed THEN "v1" ELSE "v2"

\* SERVER_PILOT_PLAN, section 10: at most one infrastructure retry, and only
\* of the task the first attempt stopped at.  A task with a checkpoint is never
\* generated again.
OnlyTheAbortedTaskIsRetried ==
  \A t \in Tasks :
    tries[t] = Attempts =>
      /\ disk["v1"].abort # None
      /\ t = disk["v1"].abort.completed
      /\ t \notin DOMAIN disk["v1"].ckpts

\* The budget is looked at after a generation and its time may be lost once
\* per attempt, so the two attempts together overrun it by less than two
\* generations, whatever fails and when.
BudgetOverrunBounded == used < Budget + 2 * Timeout

\* "On abort, preserve completed immutable evidence": no step of either script
\* rewrites a checkpoint, a result, an abort record or a seal.
EvidencePreserved ==
  [][\A a \in Attempts :
       /\ \A t \in DOMAIN disk[a].ckpts :
            /\ t \in DOMAIN disk'[a].ckpts
            /\ disk'[a].ckpts[t].by = disk[a].ckpts[t].by
            /\ disk'[a].ckpts[t].config = disk[a].ckpts[t].config
       /\ \A f \in {"abort", "result", "seal"} :
            disk[a][f] # None => disk'[a][f] = disk[a][f]]_vars

\* A started script comes to an end.
EveryAttemptEnds == running # None ~> running = None
=============================================================================
