-------------------------- MODULE Gate6Postprocess --------------------------
(***************************************************************************)
(* run_gate6_postprocess.py: one controlled removal per task over the      *)
(* sealed execution directory, the seal of the removals, then the gold     *)
(* data and the score.  The script may be started again after it raised or *)
(* died; a checkpoint of the sealed execution may be damaged on disk at    *)
(* any step, so that its own hash no longer fits.                          *)
(***************************************************************************)
EXTENDS Integers, FiniteSets

CONSTANTS
  N,        \* EXPECTED_TASKS
  Answers,  \* selected_answer of an aggregation
  None      \* a file that is not there

Tasks == 1..N

\* A checkpoint has an answer and is intact while its own hash fits; a removal
\* record has the answer of the baseline and the one without the target role.
Checkpoint == [answer : Answers, intact : BOOLEAN]
Removal == [baseline : Answers, removal : Answers]

\* The records of the tasks a script came to, and what the root seal hashes.
SomeRemovals == UNION {[S -> Removal] : S \in SUBSET Tasks}
RootSeal ==
  [ckpts : [Tasks -> Checkpoint], records : [Tasks -> Removal], evaluation : [Tasks -> Removal]]

ASSUME PostprocessAssumption ==
  /\ N \in Nat \ {0}
  /\ None \notin [Tasks -> Checkpoint] /\ None \notin SomeRemovals /\ None \notin RootSeal

VARIABLES
  ckpts,      \* EXECUTION/checkpoints
  execSeal,   \* EXECUTION/artifact-manifest.json: the checkpoints it hashed
  records,    \* REMOVALS/records, None before the directory is made
  removalSeal, \* REMOVALS/artifact-manifest.json: the records it hashed
  evaluation, \* EVALUATION/evaluation-result.json, None before the directory
  evalSeal,   \* EVALUATION/artifact-manifest.json
  rootSeal,   \* ROOT/artifact-manifest.json: the records and result it hashed
  pc,         \* where the process stands, "idle" when there is none
  loaded,     \* checkpoint_by_task of the process
  answers,    \* baseline_answers and removal_answers of the process
  task,       \* index of its next task
  goldOpened  \* the gold rows have been read by some process

disk == <<ckpts, execSeal, records, removalSeal, evaluation, evalSeal, rootSeal>>
memory == <<loaded, answers, task>>
vars == <<disk, pc, memory, goldOpened>>

Nothing == [t \in {} |-> None]

------------------------------------------------------------------------------
Init ==
  /\ ckpts \in [Tasks -> [answer : Answers, intact : {TRUE}]]
  /\ execSeal = None
  /\ records = None /\ removalSeal = None
  /\ evaluation = None /\ evalSeal = None /\ rootSeal = None
  /\ pc = "idle"
  /\ loaded = Nothing /\ answers = Nothing /\ task = 1
  /\ goldOpened = FALSE

\* The execution script writes its seal (Gate6Execution).
ExecutionSealed ==
  /\ execSeal = None
  /\ execSeal' = ckpts
  /\ UNCHANGED <<ckpts, records, removalSeal, evaluation, evalSeal, rootSeal,
                 pc, memory, goldOpened>>

\* A sealed checkpoint is damaged: another answer, and a hash that no longer fits.
DamageCheckpoint ==
  /\ execSeal # None
  /\ \E t \in Tasks, x \in Answers :
       ckpts' = [ckpts EXCEPT ![t] = [answer |-> x, intact |-> FALSE]]
  /\ UNCHANGED <<execSeal, records, removalSeal, evaluation, evalSeal, rootSeal,
                 pc, memory, goldOpened>>

TargetsFresh == records = None /\ evaluation = None

SealVerified == execSeal # None /\ execSeal = ckpts

FirstTask == 1

\* The two refusals come before anything is written: the script may be
\* started as often as it likes until they pass.
Start ==
  /\ pc = "idle"
  /\ TargetsFresh /\ SealVerified
  /\ pc' = "mkdir"
  /\ loaded' = Nothing /\ answers' = Nothing /\ task' = FirstTask
  /\ UNCHANGED <<disk, goldOpened>>

MakeRemovals ==
  /\ pc = "mkdir"
  /\ records' = Nothing
  /\ pc' = "load"
  /\ UNCHANGED <<ckpts, execSeal, removalSeal, evaluation, evalSeal, rootSeal,
                 memory, goldOpened>>

\* The checkpoints are read again, after the seal was verified.
LoadCheckpoints ==
  /\ pc = "load"
  /\ loaded' = ckpts
  /\ pc' = "remove"
  /\ UNCHANGED <<disk, answers, task, goldOpened>>

\* Mutant: the checkpoint's own hash is not recomputed.
RecordValidUnhashed(c) == TRUE
RecordValid(c) == c.intact

With(f, t, value) == [u \in DOMAIN f \cup {t} |-> IF u = t THEN value ELSE f[u]]

\* checkpoint_record, the parallel removal of the assigned role and its record.
RemoveRole ==
  /\ pc = "remove" /\ task <= N
  /\ RecordValid(loaded[task])
  /\ \E without \in Answers :
       LET pair == [baseline |-> loaded[task].answer, removal |-> without] IN
       /\ records' = With(records, task, pair)
       /\ answers' = With(answers, task, pair)
  /\ task' = task + 1
  /\ UNCHANGED <<ckpts, execSeal, removalSeal, evaluation, evalSeal, rootSeal,
                 pc, loaded, goldOpened>>

\* removal-result.json and the seal of the removals.
SealRemovals ==
  /\ pc = "remove" /\ task > N
  /\ removalSeal' = records
  /\ pc' = "gold"
  /\ UNCHANGED <<ckpts, execSeal, records, evaluation, evalSeal, rootSeal,
                 memory, goldOpened>>

LoadGold ==
  /\ pc = "gold"
  /\ goldOpened' = TRUE
  /\ pc' = "score"
  /\ UNCHANGED <<disk, memory>>

\* Mutant: the baseline answers are read from the checkpoints once more.
ScoredFromDisk ==
  [t \in DOMAIN answers |-> [answers[t] EXCEPT !.baseline = ckpts[t].answer]]
Scored == answers

\* score_sealed_outputs and the evaluation directory.
WriteEvaluation ==
  /\ pc = "score"
  /\ evaluation' = Scored
  /\ pc' = "seal_evaluation"
  /\ UNCHANGED <<ckpts, execSeal, records, removalSeal, evalSeal, rootSeal,
                 memory, goldOpened>>

SealEvaluation ==
  /\ pc = "seal_evaluation"
  /\ evalSeal' = evaluation
  /\ pc' = "seal_root"
  /\ UNCHANGED <<ckpts, execSeal, records, removalSeal, evaluation, rootSeal,
                 memory, goldOpened>>

SealRoot ==
  /\ pc = "seal_root"
  /\ rootSeal' = [ckpts |-> ckpts, records |-> records, evaluation |-> evaluation]
  /\ pc' = "idle"
  /\ UNCHANGED <<ckpts, execSeal, records, removalSeal, evaluation, evalSeal,
                 memory, goldOpened>>

\* Mutant: an evaluation that could not be sealed is passed over.
AfterRaiseContinue == IF pc = "seal_evaluation" THEN "seal_root" ELSE "idle"
AfterRaise == "idle"

\* An exception, which nothing catches: an unsafe removal, a hash mismatch, a
\* gold row of an unknown form, a failed write.
RaiseError ==
  /\ pc # "idle"
  /\ pc' = AfterRaise
  /\ UNCHANGED <<disk, memory, goldOpened>>

Work ==
  \/ MakeRemovals \/ LoadCheckpoints \/ RemoveRole \/ SealRemovals \/ LoadGold
  \/ WriteEvaluation \/ SealEvaluation \/ SealRoot \/ RaiseError

\* A death of the process leaves what RaiseError leaves: it adds no behaviour.
Next == ExecutionSealed \/ DamageCheckpoint \/ Start \/ Work

Spec == Init /\ [][Next]_vars

------------------------------------------------------------------------------
\* The score compares the answers that were sealed, not those of a checkpoint
\* that was damaged after the seal was verified.
ScoredAnswersAreSealed ==
  evaluation # None =>
    \A t \in Tasks : evaluation[t] = [baseline |-> execSeal[t].answer,
                                      removal |-> removalSeal[t].removal]

\* The root seal is written once, over finished removals and a sealed
\* evaluation.
RootSealIsWhole ==
  rootSeal # None =>
    /\ rootSeal.records = removalSeal /\ rootSeal.records = records
    /\ rootSeal.evaluation = evalSeal /\ rootSeal.evaluation = evaluation
    /\ DOMAIN rootSeal.evaluation = Tasks

\* The stages, read off the seals.
AnswersOf(f, g(_)) == IF f = None THEN Nothing ELSE [t \in DOMAIN f |-> g(f[t])]
BaselineAnswer(x) == x.answer
RemovalAnswer(x) == x.removal

Stages == INSTANCE EvidenceStages WITH
  stage <- IF rootSeal # None THEN "complete"
           ELSE IF evaluation # None THEN "scored"
           ELSE IF goldOpened THEN "gold"
           ELSE IF removalSeal # None THEN "removed"
           ELSE IF execSeal # None THEN "executed"
           ELSE "executing",
  baseline <- AnswersOf(execSeal, BaselineAnswer),
  removal <- AnswersOf(removalSeal, RemovalAnswer),
  scored <- IF evaluation = None THEN Nothing
            ELSE [t \in DOMAIN evaluation |->
                    <<evaluation[t].baseline, evaluation[t].removal>>]

\* The scripts keep the order of the stages and score what the stages sealed.
KeepsTheStages == Stages!Spec
=============================================================================
