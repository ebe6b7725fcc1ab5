----------------------- MODULE Gate6PostprocessProofs -----------------------
(***************************************************************************)
(* Theorems about Gate6Postprocess, for any number of tasks and any        *)
(* answers.                                                                *)
(***************************************************************************)
EXTENDS Gate6Postprocess, TLAPS

Places ==
  {"idle", "mkdir", "load", "remove", "gold", "score", "seal_evaluation", "seal_root"}

FilesType ==
  /\ ckpts \in [Tasks -> Checkpoint]
  /\ execSeal \in [Tasks -> Checkpoint] \cup {None}
  /\ records \in SomeRemovals \cup {None}
  /\ removalSeal \in [Tasks -> Removal] \cup {None}
  /\ evaluation \in [Tasks -> Removal] \cup {None}
  /\ rootSeal \in RootSeal \cup {None}
  /\ goldOpened \in BOOLEAN

ProcessType ==
  /\ pc \in Places
  /\ task \in Nat \ {0}
  /\ pc = "remove" => loaded \in [Tasks -> Checkpoint]

\* Nothing that comes after the removals is there.
NothingRemoved == removalSeal = None /\ ~goldOpened
NothingScored == evaluation = None /\ rootSeal = None

\* Which files there are, by the place of the process.  A records directory
\* that exists keeps the script from passing its first test again.
Order ==
  /\ execSeal = None => pc = "idle" /\ records = None
  /\ records = None => pc \in {"idle", "mkdir"} /\ NothingRemoved /\ NothingScored
  /\ pc = "mkdir" => records = None
  /\ pc \in {"load", "remove"} => NothingRemoved /\ NothingScored
  /\ pc = "gold" => removalSeal # None /\ ~goldOpened /\ NothingScored
  /\ pc = "score" => goldOpened /\ NothingScored
  /\ pc = "seal_evaluation" => evaluation # None /\ rootSeal = None
  /\ pc = "seal_root" => evaluation # None /\ rootSeal = None /\ evalSeal = evaluation
  /\ goldOpened => removalSeal # None
  /\ evaluation # None => goldOpened
  /\ rootSeal # None => evaluation # None

\* A removal of the process starts from the answer that was sealed.
OfTheSeal(f) == \A t \in DOMAIN f : f[t].baseline = execSeal[t].answer

\* What the process holds is what was sealed, whatever happened to the
\* checkpoints since: a checkpoint that is intact is the sealed one.
Contents ==
  /\ execSeal # None => \A t \in Tasks : ckpts[t].intact => ckpts[t] = execSeal[t]
  /\ pc = "remove" => \A t \in Tasks : loaded[t].intact => loaded[t] = execSeal[t]
  /\ pc \in {"mkdir", "load"} => answers = Nothing /\ task = 1
  /\ pc = "load" => records = Nothing
  /\ pc = "remove" => /\ records = answers /\ DOMAIN answers = 1..(task - 1)
                      /\ task <= N + 1 /\ OfTheSeal(answers)
  /\ pc \in {"gold", "score"} => answers = removalSeal
  /\ removalSeal # None => records = removalSeal /\ OfTheSeal(removalSeal)
  /\ evaluation # None => evaluation = removalSeal
  /\ RootSealIsWhole

IInv == FilesType /\ ProcessType /\ Order /\ Contents

------------------------------------------------------------------------------
\* A removal is added to those of the process.
LEMMA RemovalAdded ==
  ASSUME NEW f \in SomeRemovals, NEW t \in Tasks, NEW pair \in Removal
  PROVE  /\ With(f, t, pair) \in SomeRemovals
         /\ DOMAIN With(f, t, pair) = DOMAIN f \cup {t}
         /\ With(f, t, pair)[t] = pair
         /\ \A u \in DOMAIN f : u # t => With(f, t, pair)[u] = f[u]
<1>1. PICK S \in SUBSET Tasks : f \in [S -> Removal]
  BY DEF SomeRemovals
<1>2. With(f, t, pair) \in [S \cup {t} -> Removal]
  BY <1>1 DEF With
<1>3. S \cup {t} \in SUBSET Tasks
  OBVIOUS
<1>4. QED
  BY <1>1, <1>2, <1>3 DEF SomeRemovals, With

LEMMA NothingIsSomeRemovals == Nothing \in SomeRemovals /\ DOMAIN Nothing = {}
<1>1. Nothing \in [{} -> Removal] /\ DOMAIN Nothing = {}
  BY DEF Nothing
<1>2. QED
  BY <1>1 DEF SomeRemovals

LEMMA InitInv == Init => IInv
<1> SUFFICES ASSUME Init PROVE IInv
  OBVIOUS
<1>1. FilesType
  BY DEF Init, FilesType, Checkpoint
<1>2. ProcessType
  BY DEF Init, ProcessType, Places
<1>3. Order
  BY DEF Init, Order, NothingRemoved, NothingScored
<1>4. Contents
  BY DEF Init, Contents, RootSealIsWhole
<1>5. QED
  BY <1>1, <1>2, <1>3, <1>4 DEF IInv

LEMMA ExecutionSealedInv == IInv /\ ExecutionSealed => IInv'
<1> SUFFICES ASSUME IInv, ExecutionSealed PROVE IInv'
  OBVIOUS
<1> USE PostprocessAssumption DEF IInv, ExecutionSealed, disk, memory
<1>1. FilesType'
  BY DEF FilesType
<1>2. ProcessType'
  BY DEF FilesType, ProcessType, Places
<1>3. Order'
  BY DEF FilesType, Order, NothingRemoved, NothingScored
<1>4. Contents'
  BY DEF FilesType, Order, Contents, NothingRemoved, NothingScored, OfTheSeal, RootSealIsWhole
<1>5. QED
  BY <1>1, <1>2, <1>3, <1>4

LEMMA DamageCheckpointInv == IInv /\ DamageCheckpoint => IInv'
<1> SUFFICES ASSUME IInv, DamageCheckpoint PROVE IInv'
  OBVIOUS
<1> USE PostprocessAssumption DEF IInv, DamageCheckpoint, disk, memory
<1>1. FilesType'
  <2>1. PICK t \in Tasks, x \in Answers :
          ckpts' = [ckpts EXCEPT ![t] = [answer |-> x, intact |-> FALSE]]
    OBVIOUS
  <2>2. [answer |-> x, intact |-> FALSE] \in Checkpoint
    BY DEF Checkpoint
  <2>3. QED
    BY <2>1, <2>2 DEF FilesType
<1>2. ProcessType'
  BY DEF FilesType, ProcessType, Places
<1>3. Order'
  BY DEF FilesType, Order, NothingRemoved, NothingScored
<1>4. Contents'
  BY DEF FilesType, Order, Contents, NothingRemoved, NothingScored, OfTheSeal, RootSealIsWhole
<1>5. QED
  BY <1>1, <1>2, <1>3, <1>4

LEMMA StartInv == IInv /\ Start => IInv'
<1> SUFFICES ASSUME IInv, Start PROVE IInv'
  OBVIOUS
<1> USE PostprocessAssumption DEF IInv, Start, disk, memory, TargetsFresh, SealVerified, FirstTask
<1>1. FilesType'
  BY DEF FilesType
<1>2. ProcessType'
  BY DEF FilesType, ProcessType, Places
<1>3. Order'
  BY DEF FilesType, Order, NothingRemoved, NothingScored
<1>4. Contents'
  BY DEF FilesType, Order, Contents, NothingRemoved, NothingScored, OfTheSeal, RootSealIsWhole
<1>5. QED
  BY <1>1, <1>2, <1>3, <1>4

LEMMA MakeRemovalsInv == IInv /\ MakeRemovals => IInv'
<1> SUFFICES ASSUME IInv, MakeRemovals PROVE IInv'
  OBVIOUS
<1> USE PostprocessAssumption DEF IInv, MakeRemovals, disk, memory
<1>1. FilesType'
  BY NothingIsSomeRemovals DEF FilesType
<1>2. ProcessType'
  BY DEF FilesType, ProcessType, Places
<1>3. Order'
  BY NothingIsSomeRemovals DEF FilesType, Order, NothingRemoved, NothingScored
<1>4. Contents'
  BY DEF FilesType, Order, Contents, NothingRemoved, NothingScored, OfTheSeal, RootSealIsWhole
<1>5. QED
  BY <1>1, <1>2, <1>3, <1>4

LEMMA LoadCheckpointsInv == IInv /\ LoadCheckpoints => IInv'
<1> SUFFICES ASSUME IInv, LoadCheckpoints PROVE IInv'
  OBVIOUS
<1> USE PostprocessAssumption DEF IInv, LoadCheckpoints, disk, memory
<1>1. FilesType'
  BY DEF FilesType
<1>2. ProcessType'
  BY DEF FilesType, ProcessType, Places
<1>3. Order'
  BY DEF FilesType, Order, NothingRemoved, NothingScored
<1>4. Contents'
  <2>1. DOMAIN Nothing = 1..(1 - 1) /\ OfTheSeal(Nothing)'
    BY NothingIsSomeRemovals DEF OfTheSeal
  <2>2. QED
    BY <2>1 DEF FilesType, ProcessType, Order, Contents, NothingRemoved, NothingScored, OfTheSeal, RootSealIsWhole
<1>5. QED
  BY <1>1, <1>2, <1>3, <1>4

LEMMA RemoveRoleInv == IInv /\ RemoveRole => IInv'
<1> SUFFICES ASSUME IInv, RemoveRole PROVE IInv'
  OBVIOUS
<1> DEFINE pair(without) == [baseline |-> loaded[task].answer, removal |-> without]
<1>1. /\ pc = "remove" /\ task <= N /\ RecordValid(loaded[task]) /\ task' = task + 1
      /\ UNCHANGED <<ckpts, execSeal, removalSeal, evaluation, evalSeal, rootSeal,
                     pc, loaded, goldOpened>>
  BY DEF RemoveRole
<1>2. PICK without \in Answers :
        /\ records' = With(records, task, pair(without))
        /\ answers' = With(answers, task, pair(without))
  BY DEF RemoveRole
<1>3. /\ task \in Tasks /\ loaded \in [Tasks -> Checkpoint]
      /\ loaded[task] = execSeal[task] /\ records = answers
      /\ records # None /\ records \in SomeRemovals
      /\ DOMAIN answers = 1..(task - 1)
  BY <1>1 DEF IInv, FilesType, ProcessType, Order, Contents, RecordValid, Tasks
<1>4. pair(without) \in Removal /\ pair(without).baseline = execSeal[task].answer
  BY <1>3 DEF Checkpoint, Removal
<1> HIDE DEF pair
<1>5. /\ records' \in SomeRemovals /\ records' = answers'
      /\ DOMAIN answers' = DOMAIN answers \cup {task}
      /\ answers'[task] = pair(without)
      /\ \A u \in DOMAIN answers : u # task => answers'[u] = answers[u]
  BY <1>2, <1>3, <1>4, RemovalAdded
<1>6. FilesType'
  BY <1>1, <1>5 DEF IInv, FilesType
<1>7. ProcessType'
  BY <1>1 DEF IInv, ProcessType
<1>8. Order'
  <2>1. records' # None
    BY <1>5, PostprocessAssumption
  <2>2. QED
    BY <1>1, <2>1 DEF IInv, Order, NothingRemoved, NothingScored
<1>9. Contents'
  <2>1. DOMAIN answers' = 1..(task' - 1) /\ task' <= N + 1
    <3>1. task \in Nat \ {0} /\ N \in Nat
      BY PostprocessAssumption DEF IInv, ProcessType
    <3>2. 1..(task + 1 - 1) = 1..(task - 1) \cup {task}
      BY <3>1
    <3>3. QED
      BY <1>1, <1>3, <1>5, <3>1, <3>2
  <2>2. OfTheSeal(answers)'
    BY <1>1, <1>3, <1>4, <1>5 DEF OfTheSeal, IInv, Contents
  <2>3. QED
    BY <1>1, <1>5, <2>1, <2>2 DEF IInv, Contents, Order, NothingRemoved, NothingScored,
                                  RootSealIsWhole
<1>10. QED
  BY <1>6, <1>7, <1>8, <1>9 DEF IInv

LEMMA SealRemovalsInv == IInv /\ SealRemovals => IInv'
<1> SUFFICES ASSUME IInv, SealRemovals PROVE IInv'
  OBVIOUS
<1> USE PostprocessAssumption DEF IInv, SealRemovals, disk, memory
<1>1. FilesType'
  <2>1. DOMAIN records = Tasks
    BY DEF Contents, ProcessType, Tasks
  <2>2. records \in [Tasks -> Removal]
    BY <2>1 DEF FilesType, Order, SomeRemovals
  <2>3. QED
    BY <2>2 DEF FilesType
<1>2. ProcessType'
  BY DEF FilesType, ProcessType, Places
<1>3. Order'
  BY DEF FilesType, Order, NothingRemoved, NothingScored
<1>4. Contents'
  BY DEF FilesType, Order, Contents, NothingRemoved, NothingScored, OfTheSeal, RootSealIsWhole
<1>5. QED
  BY <1>1, <1>2, <1>3, <1>4

LEMMA LoadGoldInv == IInv /\ LoadGold => IInv'
<1> SUFFICES ASSUME IInv, LoadGold PROVE IInv'
  OBVIOUS
<1> USE PostprocessAssumption DEF IInv, LoadGold, disk, memory
<1>1. FilesType'
  BY DEF FilesType
<1>2. ProcessType'
  BY DEF FilesType, ProcessType, Places
<1>3. Order'
  BY DEF FilesType, Order, NothingRemoved, NothingScored
<1>4. Contents'
  BY DEF FilesType, Order, Contents, NothingRemoved, NothingScored, OfTheSeal, RootSealIsWhole
<1>5. QED
  BY <1>1, <1>2, <1>3, <1>4

LEMMA WriteEvaluationInv == IInv /\ WriteEvaluation => IInv'
<1> SUFFICES ASSUME IInv, WriteEvaluation PROVE IInv'
  OBVIOUS
<1> USE PostprocessAssumption DEF IInv, WriteEvaluation, disk, memory, Scored
<1> answers = removalSeal /\ removalSeal # None /\ removalSeal \in [Tasks -> Removal]
  BY DEF FilesType, Order, Contents
<1> removalSeal \in SomeRemovals
  BY DEF SomeRemovals
<1>1. FilesType'
  BY DEF FilesType
<1>2. ProcessType'
  BY DEF FilesType, ProcessType, Places
<1>3. Order'
  BY DEF FilesType, Order, NothingRemoved, NothingScored
<1>4. Contents'
  BY DEF FilesType, Order, Contents, NothingRemoved, NothingScored, OfTheSeal, RootSealIsWhole
<1>5. QED
  BY <1>1, <1>2, <1>3, <1>4

LEMMA SealEvaluationInv == IInv /\ SealEvaluation => IInv'
<1> SUFFICES ASSUME IInv, SealEvaluation PROVE IInv'
  OBVIOUS
<1> USE PostprocessAssumption DEF IInv, SealEvaluation, disk, memory
<1>1. FilesType'
  BY DEF FilesType
<1>2. ProcessType'
  BY DEF FilesType, ProcessType, Places
<1>3. Order'
  BY DEF FilesType, Order, NothingRemoved, NothingScored
<1>4. Contents'
  BY DEF FilesType, Order, Contents, NothingRemoved, NothingScored, OfTheSeal, RootSealIsWhole
<1>5. QED
  BY <1>1, <1>2, <1>3, <1>4

LEMMA SealRootInv == IInv /\ SealRoot => IInv'
<1> SUFFICES ASSUME IInv, SealRoot PROVE IInv'
  OBVIOUS
<1> USE PostprocessAssumption DEF IInv, SealRoot, disk, memory
<1>1. FilesType'
  <2>1. /\ removalSeal \in [Tasks -> Removal] /\ records = removalSeal
        /\ evaluation \in [Tasks -> Removal]
    BY DEF FilesType, Order, Contents
  <2>2. rootSeal' \in RootSeal
    BY <2>1 DEF FilesType, RootSeal
  <2>3. QED
    BY <2>2 DEF FilesType
<1>2. ProcessType'
  BY DEF FilesType, ProcessType, Places
<1>3. Order'
  BY DEF FilesType, Order, NothingRemoved, NothingScored
<1>4. Contents'
  BY DEF FilesType, Order, Contents, NothingRemoved, NothingScored, OfTheSeal, RootSealIsWhole
<1>5. QED
  BY <1>1, <1>2, <1>3, <1>4

LEMMA RaiseErrorInv == IInv /\ RaiseError => IInv'
<1> SUFFICES ASSUME IInv, RaiseError PROVE IInv'
  OBVIOUS
<1> USE PostprocessAssumption DEF IInv, RaiseError, disk, memory, AfterRaise
<1>1. FilesType'
  BY DEF FilesType
<1>2. ProcessType'
  BY DEF FilesType, ProcessType, Places
<1>3. Order'
  BY DEF FilesType, Order, NothingRemoved, NothingScored
<1>4. Contents'
  BY DEF FilesType, Order, Contents, NothingRemoved, NothingScored, OfTheSeal, RootSealIsWhole
<1>5. QED
  BY <1>1, <1>2, <1>3, <1>4

------------------------------------------------------------------------------
LEMMA NextInv == IInv /\ [Next]_vars => IInv'
<1> SUFFICES ASSUME IInv, [Next]_vars PROVE IInv'
  OBVIOUS
<1>1. CASE Next
  BY <1>1, ExecutionSealedInv, DamageCheckpointInv, StartInv, MakeRemovalsInv,
     LoadCheckpointsInv, RemoveRoleInv, SealRemovalsInv, LoadGoldInv, WriteEvaluationInv,
     SealEvaluationInv, SealRootInv, RaiseErrorInv DEF Next, Work
<1>2. CASE UNCHANGED vars
  BY <1>2 DEF vars, disk, memory, IInv, FilesType, ProcessType, Order, Contents,
              NothingRemoved, NothingScored, OfTheSeal, RootSealIsWhole
<1>3. QED
  BY <1>1, <1>2

\* The inductive invariant of the script: what its files and its memory have to
\* do with what was sealed.
THEOREM Inductive == Spec => []IInv
BY InitInv, NextInv, PTL DEF Spec

(***************************************************************************)
(* ScoredAnswersAreSealed: the score compares the sealed answers, however  *)
(* often the script is started and whatever is damaged meanwhile.          *)
(***************************************************************************)
THEOREM ScoreIsOfTheSeals == Spec => []ScoredAnswersAreSealed
<1>1. IInv => ScoredAnswersAreSealed
  <2> SUFFICES ASSUME IInv, evaluation # None, NEW t \in Tasks
               PROVE  evaluation[t] = [baseline |-> execSeal[t].answer,
                                       removal |-> removalSeal[t].removal]
    BY DEF ScoredAnswersAreSealed
  <2>1. /\ evaluation = removalSeal /\ removalSeal \in [Tasks -> Removal]
        /\ OfTheSeal(removalSeal)
    BY DEF IInv, FilesType, Order, Contents
  <2>2. removalSeal[t] \in Removal /\ removalSeal[t].baseline = execSeal[t].answer
    BY <2>1 DEF OfTheSeal
  <2>3. QED
    BY <2>1, <2>2 DEF Removal
<1>2. QED
  BY <1>1, Inductive, PTL

\* RootSealIsWhole: a root seal is over finished removals and a sealed score.
THEOREM RootSealCoversAll == Spec => []RootSealIsWhole
<1>1. IInv => RootSealIsWhole
  BY DEF IInv, Contents
<1>2. QED
  BY <1>1, Inductive, PTL

------------------------------------------------------------------------------
(* The refinement of EvidenceStages.                                        *)

USE DEF Stages!Empty

LEMMA InitRefines == Init => Stages!Init
BY PostprocessAssumption DEF Init, Stages!Init, AnswersOf, Nothing

\* The seal of the execution holds an answer of every task.
LEMMA ExecutionSealedRefines == IInv /\ ExecutionSealed => Stages!SealExecution
<1> SUFFICES ASSUME IInv, ExecutionSealed PROVE Stages!SealExecution
  OBVIOUS
<1>1. /\ execSeal = None /\ execSeal' = ckpts /\ ckpts \in [Tasks -> Checkpoint]
      /\ execSeal' # None
  BY PostprocessAssumption DEF ExecutionSealed, IInv, FilesType
<1>2. /\ removalSeal = None /\ ~goldOpened /\ evaluation = None /\ rootSeal = None
      /\ UNCHANGED <<removalSeal, goldOpened, evaluation, rootSeal>>
  BY <1>1 DEF IInv, Order, NothingRemoved, NothingScored, ExecutionSealed
<1>3. AnswersOf(execSeal, BaselineAnswer)' \in [Tasks -> Answers]
  BY <1>1 DEF AnswersOf, BaselineAnswer, Checkpoint
<1>4. QED
  BY <1>1, <1>2, <1>3 DEF Stages!SealExecution, AnswersOf

LEMMA SealRemovalsRefines == IInv /\ IInv' /\ SealRemovals => Stages!SealRemovals
<1> SUFFICES ASSUME IInv, IInv', SealRemovals PROVE Stages!SealRemovals
  OBVIOUS
<1>1. /\ execSeal # None /\ removalSeal = None /\ ~goldOpened
      /\ evaluation = None /\ rootSeal = None
      /\ UNCHANGED <<execSeal, goldOpened, evaluation, rootSeal>>
  BY DEF IInv, Order, NothingRemoved, NothingScored, SealRemovals
<1>2. removalSeal' # None /\ removalSeal' \in [Tasks -> Removal]
  BY DEF IInv, FilesType, Order, SealRemovals
<1>3. AnswersOf(removalSeal, RemovalAnswer)' \in [Tasks -> Answers]
  BY <1>2 DEF AnswersOf, RemovalAnswer, Removal
<1>4. QED
  BY <1>1, <1>2, <1>3 DEF Stages!SealRemovals, AnswersOf

LEMMA LoadGoldRefines == IInv /\ LoadGold => Stages!OpenGold
<1> SUFFICES ASSUME IInv, LoadGold PROVE Stages!OpenGold
  OBVIOUS
<1>1. /\ execSeal # None /\ removalSeal # None /\ ~goldOpened /\ goldOpened'
      /\ evaluation = None /\ rootSeal = None
      /\ UNCHANGED <<execSeal, removalSeal, evaluation, rootSeal>>
  BY DEF IInv, Order, NothingRemoved, NothingScored, LoadGold, disk
<1>2. QED
  BY <1>1 DEF Stages!OpenGold, AnswersOf

\* What is scored is, task by task, the pair of sealed answers.
LEMMA WriteEvaluationRefines == IInv /\ IInv' /\ WriteEvaluation => Stages!Score
<1> SUFFICES ASSUME IInv, IInv', WriteEvaluation PROVE Stages!Score
  OBVIOUS
<1>1. /\ execSeal # None /\ removalSeal # None /\ goldOpened
      /\ evaluation = None /\ rootSeal = None
      /\ UNCHANGED <<execSeal, removalSeal, goldOpened, rootSeal>>
  BY DEF IInv, Order, NothingScored, WriteEvaluation
<1>2. /\ evaluation' # None /\ evaluation' = removalSeal
      /\ removalSeal \in [Tasks -> Removal] /\ execSeal \in [Tasks -> Checkpoint]
      /\ OfTheSeal(removalSeal)
  BY <1>1 DEF IInv, FilesType, Order, Contents, WriteEvaluation, Scored
<1>3. [t \in DOMAIN evaluation' |-> <<evaluation'[t].baseline, evaluation'[t].removal>>]
        = [t \in Tasks |-> <<AnswersOf(execSeal, BaselineAnswer)[t],
                             AnswersOf(removalSeal, RemovalAnswer)[t]>>]
  BY <1>1, <1>2 DEF AnswersOf, BaselineAnswer, RemovalAnswer, OfTheSeal
<1>4. QED
  BY <1>1, <1>2, <1>3 DEF Stages!Score, AnswersOf

LEMMA SealRootRefines == IInv /\ IInv' /\ SealRoot => Stages!Complete
<1> SUFFICES ASSUME IInv, IInv', SealRoot PROVE Stages!Complete
  OBVIOUS
<1>1. /\ evaluation # None /\ rootSeal = None
      /\ UNCHANGED <<execSeal, removalSeal, goldOpened, evaluation>>
  BY DEF IInv, Order, SealRoot
<1>2. rootSeal' # None
  <2>1. rootSeal' \in RootSeal
    BY <1>1 DEF IInv, FilesType, Order, Contents, SealRoot, RootSeal
  <2>2. QED
    BY <2>1, PostprocessAssumption
<1>3. QED
  BY <1>1, <1>2 DEF Stages!Complete, AnswersOf

\* Every other step leaves the stage and what the stages sealed as they are.
Hidden ==
  \/ DamageCheckpoint \/ Start \/ MakeRemovals \/ LoadCheckpoints \/ RemoveRole
  \/ SealEvaluation \/ RaiseError

LEMMA HiddenStutters == Hidden \/ UNCHANGED vars => UNCHANGED Stages!vars
<1>1. Hidden \/ UNCHANGED vars =>
        UNCHANGED <<execSeal, removalSeal, evaluation, rootSeal, goldOpened>>
  BY DEF Hidden, DamageCheckpoint, Start, MakeRemovals, LoadCheckpoints, RemoveRole,
         SealEvaluation, RaiseError, disk, memory, vars
<1>2. UNCHANGED <<execSeal, removalSeal, evaluation, rootSeal, goldOpened>> =>
        UNCHANGED Stages!vars
  BY DEF Stages!vars, AnswersOf
<1>3. QED
  BY <1>1, <1>2

(***************************************************************************)
(* KeepsTheStages: the scripts implement EvidenceStages.  However they are *)
(* stopped and started again, the answers are sealed, the gold data opened *)
(* and the score made in that order, and from the sealed answers.          *)
(***************************************************************************)
THEOREM PostprocessKeepsTheStages == Spec => KeepsTheStages
<1>1. IInv /\ IInv' /\ [Next]_vars => [Stages!Next]_(Stages!vars)
  BY ExecutionSealedRefines, SealRemovalsRefines, LoadGoldRefines, WriteEvaluationRefines,
     SealRootRefines, HiddenStutters DEF Next, Work, Hidden, Stages!Next
<1>2. QED
  BY <1>1, InitRefines, Inductive, PTL DEF Spec, KeepsTheStages, Stages!Spec
=============================================================================
