---------------------------- MODULE Gate62Smoke -----------------------------
(***************************************************************************)
(* run_gate62a_smoke.py and verify_gate62a_smoke.py: generate an output of *)
(* every role for every task, seal them, remove every role of every        *)
(* scorable task, seal the removals, then open the gold data, score and    *)
(* seal; all in one process over a directory that is used once.  A second  *)
(* process verifies what lies there.  A record may be damaged on disk.     *)
(***************************************************************************)
EXTENDS ScoreSignal

CONSTANTS
  N,          \* number of tasks
  R,          \* number of roles
  Outputs,    \* the outputs the generations of each task can produce
  Golds,      \* the gold answers of the tasks
  Orders,     \* the tie orders of the tasks
  MinDiverse, \* the gate: tasks with differing outputs
  MinNonzero  \* the gate: removals with a soft value

Tasks == 1..N
Roles == 1..R
Pairs == Tasks \X Roles

Output == [scores : ScoreVector, evidence : {"brief", "other"}] \cup {None}

ASSUME SmokeAssumption ==
  /\ N \in Nat \ {0} /\ R \in Nat \ {0, 1} /\ L \in Nat \ {0, 1} /\ Total \in Nat
  /\ Outputs \in [Tasks -> SUBSET Output]
  /\ Golds \subseteq [Tasks -> Letters]
  /\ Orders \subseteq [Tasks -> TieOrder]
  /\ \A S \in SUBSET Tasks : None \notin [S -> [Roles -> Output]]

VARIABLES
  order,    \* the tie order of each task
  records,  \* execution/records, None before the root is made
  execSeal, \* execution/artifact-manifest.json: the records it hashed
  removals, \* removals/records by task and role
  removalSeal,
  evaluation, \* evaluation/records and summary.json
  evalSeal,
  abort,    \* abort.json exists
  rootSeal, \* artifact-manifest.json of the root
  pc, task, done, \* where the script stands, its task, and the outputs of that task
  kept,     \* removals of the process
  gold,     \* the gold answers once they were read
  report    \* what a verification that passed has seen

disk == <<records, execSeal, removals, removalSeal, evaluation, evalSeal, abort, rootSeal>>
memory == <<task, done, kept, gold>>
vars == <<order, disk, pc, memory, report>>

Nothing == [x \in {} |-> None]
With(f, x, value) == [y \in DOMAIN f \cup {x} |-> IF y = x THEN value ELSE f[y]]

------------------------------------------------------------------------------
Init ==
  /\ order \in Orders
  /\ records = None /\ execSeal = None
  /\ removals = None /\ removalSeal = None
  /\ evaluation = None /\ evalSeal = None
  /\ abort = FALSE /\ rootSeal = None
  /\ pc = "idle" /\ task = 1 /\ done = Nothing /\ kept = Nothing /\ gold = None
  /\ report = None

\* Refused when the root exists; the audits come before it is made.
Start ==
  /\ pc = "idle" /\ records = None
  /\ records' = Nothing
  /\ pc' = "generate"
  /\ UNCHANGED <<order, execSeal, removals, removalSeal, evaluation, evalSeal, abort, rootSeal,
                 memory, report>>

\* A generation returns in time and within the budget; the last one of a task
\* writes the record.
Generate ==
  /\ pc = "generate" /\ task <= N
  /\ \E output \in Outputs[task] :
       LET outputs == With(done, Cardinality(DOMAIN done) + 1, output) IN
       IF DOMAIN outputs = Roles
         THEN /\ records' = With(records, task, outputs)
              /\ task' = task + 1 /\ done' = Nothing
         ELSE done' = outputs /\ UNCHANGED <<records, task>>
  /\ UNCHANGED <<order, execSeal, removals, removalSeal, evaluation, evalSeal, abort, rootSeal,
                 pc, kept, gold, report>>

\* The engine, a generation, the alarm, the budget or a write raises.
AbortRun ==
  /\ pc = "generate"
  /\ abort' = TRUE
  /\ pc' = "seal_abort"
  /\ UNCHANGED <<order, records, execSeal, removals, removalSeal, evaluation, evalSeal, rootSeal,
                 memory, report>>

\* Mutant: the exception is not raised again after the seal.
SealAbortAndGoOn ==
  /\ pc = "seal_abort"
  /\ rootSeal' = [complete |-> FALSE]
  /\ pc' = "generate"
  /\ UNCHANGED <<order, records, execSeal, removals, removalSeal, evaluation, evalSeal, abort,
                 memory, report>>

SealAbort ==
  /\ pc = "seal_abort"
  /\ rootSeal' = [complete |-> FALSE]
  /\ pc' = "idle"
  /\ UNCHANGED <<order, records, execSeal, removals, removalSeal, evaluation, evalSeal, abort,
                 memory, report>>

SealExecution ==
  /\ pc = "generate" /\ task > N
  /\ execSeal' = records
  /\ removals' = Nothing
  /\ task' = 1
  /\ pc' = "remove"
  /\ UNCHANGED <<order, records, removalSeal, evaluation, evalSeal, abort, rootSeal,
                 done, kept, gold, report>>

------------------------------------------------------------------------------
Retained(r) == Roles \ {r}

Baseline(outputs, t) == Aggregation(outputs, Roles, order[t])
Removal(outputs, t, r) ==
  [baseline |-> Baseline(outputs, t),
   removal |-> Aggregation(outputs, Retained(r), order[t])]

\* The record of a task is read back and each role is removed, if the whole
\* team has valid outputs.  A team without one has no option letters: next()
\* raises.
RemoveRoles ==
  /\ pc = "remove" /\ task <= N
  /\ LET outputs == records[task] IN
       /\ \E r \in Roles : outputs[r] # None
       /\ IF Baseline(outputs, task) = None THEN UNCHANGED <<removals, kept>>
          ELSE /\ removals' = [x \in DOMAIN removals \cup ({task} \X Roles) |->
                                 IF x[1] = task THEN Removal(outputs, task, x[2]) ELSE removals[x]]
               /\ kept' = removals'
  /\ task' = task + 1
  /\ UNCHANGED <<order, records, execSeal, removalSeal, evaluation, evalSeal, abort, rootSeal,
                 pc, done, gold, report>>

SealRemovals ==
  /\ pc = "remove" /\ task > N
  /\ removalSeal' = removals
  /\ pc' = "gold"
  /\ UNCHANGED <<order, records, execSeal, removals, evaluation, evalSeal, abort, rootSeal,
                 memory, report>>

OpenGold ==
  /\ pc = "gold"
  /\ gold' \in Golds
  /\ pc' = "evaluate"
  /\ UNCHANGED <<order, disk, task, done, kept, report>>

\* Whole outputs are compared, the evidence with the scores.
Diverse == {t \in Tasks : \E q, r \in Roles : records[t][q] # records[t][r]}

Summary(rows) ==
  LET nonzero == {x \in DOMAIN rows : rows[x].soft # 0} IN
  [nonzero |-> Cardinality(nonzero),
   diverse |-> Cardinality(Diverse),
   passed |-> /\ DOMAIN rows = Pairs
              /\ Cardinality(Diverse) >= MinDiverse
              /\ Cardinality(nonzero) >= MinNonzero
              /\ \E x \in nonzero : ~rows[x].tie]

Evaluate ==
  /\ pc = "evaluate"
  /\ LET rows == [x \in DOMAIN kept |->
                    Evaluation(kept[x].baseline, kept[x].removal, gold[x[1]])]
     IN evaluation' = [rows |-> rows, summary |-> Summary(rows)]
  /\ pc' = "seal_evaluation"
  /\ UNCHANGED <<order, records, execSeal, removals, removalSeal, evalSeal, abort, rootSeal,
                 memory, report>>

SealEvaluation ==
  /\ pc = "seal_evaluation"
  /\ evalSeal' = evaluation
  /\ pc' = "seal_root"
  /\ UNCHANGED <<order, records, execSeal, removals, removalSeal, evaluation, abort, rootSeal,
                 memory, report>>

Present == [records |-> records, removals |-> removals, evaluation |-> evaluation]

SealRoot ==
  /\ pc = "seal_root"
  /\ rootSeal' = [complete |-> TRUE, files |-> Present]
  /\ pc' = "idle"
  /\ UNCHANGED <<order, records, execSeal, removals, removalSeal, evaluation, evalSeal, abort,
                 memory, report>>

\* Anything raised outside the try statement, engine.close included, and the
\* death of the process leave what was written.
Stop ==
  /\ pc # "idle"
  /\ pc' = "idle"
  /\ UNCHANGED <<order, disk, memory, report>>

\* An execution record is replaced by another after it was sealed.  One whose
\* output does not fit its hash is refused when it is read: see Stop.
Damage ==
  /\ execSeal # None /\ records = execSeal /\ rootSeal = None
  /\ \E t \in Tasks, r \in Roles : \E output \in Outputs[t] :
       records' = [records EXCEPT ![t][r] = output]
  /\ UNCHANGED <<order, execSeal, removals, removalSeal, evaluation, evalSeal, abort, rootSeal,
                 pc, memory, report>>

\* Mutant: only the seal of the root is recomputed.
SealsFitRoot == rootSeal.files = Present
SealsFit ==
  /\ rootSeal.files = Present
  /\ execSeal = records /\ removalSeal = removals /\ evalSeal = evaluation

Verify ==
  /\ pc = "idle" /\ rootSeal # None /\ rootSeal.complete
  /\ SealsFit
  /\ DOMAIN removals = Pairs /\ DOMAIN evaluation.rows = Pairs
  /\ report' = Present
  /\ UNCHANGED <<order, disk, pc, memory>>

Script ==
  \/ Generate \/ AbortRun \/ SealAbort \/ SealExecution \/ RemoveRoles \/ SealRemovals
  \/ OpenGold \/ Evaluate \/ SealEvaluation \/ SealRoot \/ Stop

Next == Start \/ Script \/ Damage \/ Verify

Spec == Init /\ [][Next]_vars

------------------------------------------------------------------------------
\* A verification that passes has seen the removal of every role from the very
\* outputs the execution sealed, and values of exactly these removals: a record
\* damaged while the script still worked is found.
VerifiedRunIsOfItsSeals ==
  report # None =>
    /\ report.records = execSeal
    /\ \A x \in Pairs :
         /\ report.removals[x].baseline = Baseline(execSeal[x[1]], x[1])
         /\ report.removals[x].removal =
              Aggregation(execSeal[x[1]], Roles \ {x[2]}, order[x[1]])
         /\ report.evaluation.rows[x] =
              Evaluation(report.removals[x].baseline, report.removals[x].removal, gold[x[1]])

\* The two values of a role do not contradict each other: a role without which
\* a right answer turns wrong has no negative soft value, one without which a
\* wrong answer turns right no positive one, and when the answer changes at no
\* soft value a tie decided.  A role of a team whose scores agree has no value.
KeepValuesAgree ==
  evaluation # None =>
    \A x \in DOMAIN evaluation.rows :
      LET row == evaluation.rows[x] IN
      /\ row.hard = 1 => row.soft >= 0
      /\ row.hard = -1 => row.soft <= 0
      /\ row.hard # 0 /\ row.soft = 0 => row.tie
      /\ row.soft # 0 /\ records = execSeal =>
           \E q, r \in Roles : records[x[1]][q].scores # records[x[1]][r].scores

\* A run that is sealed as aborted has opened no gold data and sealed no
\* removals, and one that opened the gold data had sealed every removal.
AbortedRunSeesNoGold ==
  /\ rootSeal # None /\ ~rootSeal.complete =>
       abort /\ gold = None /\ execSeal = None /\ removalSeal = None
  /\ gold # None => removalSeal = removals /\ execSeal # None /\ ~abort

\* The gate counts no task whose roles all gave the same scores.
SameScores(outputs) ==
  Scorable(outputs, Roles) /\ \A q, r \in Roles : outputs[q].scores = outputs[r].scores
DiverseTasksDifferInScores ==
  evaluation # None /\ records = execSeal =>
    evaluation.summary.diverse <= Cardinality({t \in Tasks : ~SameScores(records[t])})
=============================================================================
