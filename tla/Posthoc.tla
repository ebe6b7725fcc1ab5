------------------------------ MODULE Posthoc -------------------------------
(***************************************************************************)
(* analyze_gate6_posthoc.py: over the sealed Gate 6 artifacts, remove each *)
(* role of each task offline and seal the records (build), then open the   *)
(* gold data and label them (evaluate), then check the result (verify).    *)
(* Each mode is a process of its own; several may run at once, each may    *)
(* raise or die at any step and be started again.  A checkpoint, the gold  *)
(* data or a record may be changed on disk at any time.                    *)
(***************************************************************************)
EXTENDS MajorityVote

CONSTANTS
  N,       \* number of tasks
  R,       \* number of roles, EXPECTED_ROLES in their order
  Sources, \* the votes of the Gate 6 executions that are analysed
  Golds,   \* the gold answers of the tasks
  Procs,   \* processes
  Written, \* bound: the answers a change on disk may write
  None     \* a file that is not there, a value that is null

Tasks == 1..N
Roles == 1..R
Pairs == Tasks \X Roles
Answers == Letters \cup {NoVote}

\* What records and evaluation files hold, by pair.
CounterfactualRecord ==
  [baseline : Answers, removal : Answers, tie : BOOLEAN, invalid : BOOLEAN]
EvaluationRecord ==
  [record : CounterfactualRecord, keep : {-1, 0, 1, None}, tie : BOOLEAN]

\* What a change on disk was: a checkpoint that contradicts itself or one that
\* does not, the gold data of a task, or the record of a role before it was
\* sealed, after it was, or after an evaluation checked its seal and before it
\* labelled the record.
Kinds ==
  {"broken_checkpoint", "replaced_checkpoint", "gold",
   "unsealed_record", "sealed_record", "checked_record"}
Change == [kind : Kinds, task : Tasks, role : 0..R]

ASSUME PosthocAssumption ==
  /\ N \in Nat \ {0} /\ R \in Nat \ {0} /\ L \in Nat
  /\ Sources \subseteq [Tasks -> [Roles -> Answers]]
  /\ Golds \subseteq [Tasks -> Letters] /\ Written \subseteq Answers
  /\ NoVote \notin Letters
  /\ None \notin Int \cup Change
  /\ \A S \in SUBSET Pairs :
       None \notin [S -> CounterfactualRecord] \cup [S -> EvaluationRecord]

VARIABLES
  source,  \* the votes and the gold answers the Gate 6 seals vouch for
  ckpts,   \* execution/checkpoints: a vote of each role, sound while its hash fits
  gold,    \* evaluation/evaluation-records.json
  records, \* counterfactual/records, None before the output root is made
  cfSeal,  \* counterfactual/artifact-manifest.json: the records it hashed
  state,   \* analysis-state.json
  labels,  \* evaluation/*.json, None before the directory is made
  rootSeal, \* artifact-manifest.json of the output root
  pc,      \* where each process stands, "idle" when there is none
  mem,     \* what each process remembers
  goldOpened, \* some process has read the gold data
  report,  \* what the last verification that passed has seen
  struck   \* what was changed on disk, None before

disk == <<ckpts, gold, records, cfSeal, state, labels, rootSeal>>
vars == <<source, disk, pc, mem, goldOpened, report, struck>>

Nothing == [x \in {} |-> None]
With(f, x, value) == [y \in DOMAIN f \cup {x} |-> IF y = x THEN value ELSE f[y]]
Fresh == [hash |-> None, gold |-> None, next |-> 1]

Goto(p, place) == pc' = [pc EXCEPT ![p] = place]

\* The checkpoint of a task as Gate 6 sealed it.
Sealed(t) == [r \in Roles |-> [vote |-> source.votes[t][r], sound |-> TRUE]]

------------------------------------------------------------------------------
Init ==
  /\ source \in [votes : Sources, gold : Golds]
  /\ ckpts = [t \in Tasks |-> Sealed(t)]
  /\ gold = source.gold
  /\ records = None /\ cfSeal = None /\ state = None
  /\ labels = None /\ rootSeal = None
  /\ pc = [p \in Procs |-> "idle"] /\ mem = [p \in Procs |-> Fresh]
  /\ goldOpened = FALSE /\ report = None /\ struck = None

(***************************************************************************)
(* build                                                                   *)
(***************************************************************************)
Responses(t, roles) ==
  [k \in DOMAIN roles |->
     [role |-> roles[k], vote |-> ckpts[t][roles[k]].vote,
      sound |-> ckpts[t][roles[k]].sound]]
AllRoles == [k \in 1..R |-> k]
Retained(r) == [k \in 1..(R - 1) |-> IF k < r THEN k ELSE k + 1]

\* The output root does not exist and every Gate 6 seal, hash and replay fits.
SourceIntact == gold = source.gold /\ \A t \in Tasks : ckpts[t] = Sealed(t)

StartBuild(p) ==
  /\ pc[p] = "idle" /\ records = None
  /\ SourceIntact
  /\ Goto(p, "make_root") /\ mem' = [mem EXCEPT ![p] = Fresh]
  /\ UNCHANGED <<source, disk, goldOpened, report, struck>>

\* Fails when another process made the directory in between.
MakeRoot(p) ==
  /\ pc[p] = "make_root" /\ records = None
  /\ records' = Nothing
  /\ Goto(p, "build")
  /\ UNCHANGED <<source, ckpts, gold, cfSeal, state, labels, rootSeal, mem, goldOpened,
                 report, struck>>

Record(t, r) ==
  LET baseline == Aggregate(Responses(t, AllRoles))
      removal == Aggregate(Responses(t, Retained(r)))
  IN [baseline |-> baseline.selected, removal |-> removal.selected,
      tie |-> baseline.tie \/ removal.tie,
      invalid |-> InvalidRoles(Responses(t, AllRoles)) # {}]

\* The checkpoint of a task is read again, after the preflight, and its
\* records are written.
BuildTask(p) ==
  /\ pc[p] = "build" /\ mem[p].next <= N
  /\ LET t == mem[p].next IN
       /\ Aggregates(Responses(t, AllRoles))
       /\ \A r \in Roles : Aggregates(Responses(t, Retained(r)))
       /\ records' = [x \in DOMAIN records \cup ({t} \X Roles) |->
                        IF x[1] = t THEN Record(t, x[2]) ELSE records[x]]
  /\ mem' = [mem EXCEPT ![p].next = @ + 1]
  /\ UNCHANGED <<source, ckpts, gold, cfSeal, state, labels, rootSeal, pc, goldOpened,
                 report, struck>>

SealRecords(p) ==
  /\ pc[p] = "build" /\ mem[p].next > N
  /\ cfSeal' = records
  /\ mem' = [mem EXCEPT ![p].hash = records]
  /\ Goto(p, "write_state")
  /\ UNCHANGED <<source, ckpts, gold, records, state, labels, rootSeal, goldOpened,
                 report, struck>>

WriteState(p) ==
  /\ pc[p] = "write_state"
  /\ state' = [hash |-> mem[p].hash, evaluated |-> FALSE]
  /\ Goto(p, "idle")
  /\ UNCHANGED <<source, ckpts, gold, records, cfSeal, labels, rootSeal, mem, goldOpened,
                 report, struck>>

(***************************************************************************)
(* evaluate                                                                *)
(***************************************************************************)
SealFits == cfSeal = records /\ cfSeal = state.hash

StartEvaluate(p) ==
  /\ pc[p] = "idle" /\ state # None
  /\ SealFits /\ labels = None
  /\ Goto(p, "open_gold") /\ mem' = [mem EXCEPT ![p] = Fresh]
  /\ UNCHANGED <<source, disk, goldOpened, report, struck>>

\* The gold rows are read as they are; their own seal was checked by build.
OpenGold(p) ==
  /\ pc[p] = "open_gold"
  /\ goldOpened' = TRUE
  /\ mem' = [mem EXCEPT ![p].gold = gold]
  /\ Goto(p, "make_evaluation")
  /\ UNCHANGED <<source, disk, report, struck>>

\* Mutant: a directory that exists is used.
EvaluationFreshAlways == TRUE
EvaluationFresh == labels = None

MakeEvaluation(p) ==
  /\ pc[p] = "make_evaluation" /\ EvaluationFresh
  /\ labels' = Nothing
  /\ Goto(p, "label")
  /\ UNCHANGED <<source, ckpts, gold, records, cfSeal, state, rootSeal, mem, goldOpened,
                 report, struck>>

Correct(answer, g) == IF answer = g THEN 1 ELSE 0
\* Mutant: an unscorable condition counts as wrong.
KeepValueZero(record, g) == Correct(record.baseline, g) - Correct(record.removal, g)
KeepValue(record, g) ==
  IF NoVote \in {record.baseline, record.removal} THEN None
  ELSE Correct(record.baseline, g) - Correct(record.removal, g)

Pair(k) == <<((k - 1) \div R) + 1, ((k - 1) % R) + 1>>

\* A record is read, labelled and its label written; in the order of the files.
LabelRecord(p) ==
  /\ pc[p] = "label" /\ mem[p].next <= N * R
  /\ LET x == Pair(mem[p].next) IN
       labels' = With(labels, x,
         [record |-> records[x],
          keep |-> KeepValue(records[x], mem[p].gold[x[1]]),
          tie |-> records[x].tie])
  /\ mem' = [mem EXCEPT ![p].next = @ + 1]
  /\ UNCHANGED <<source, ckpts, gold, records, cfSeal, state, rootSeal, pc, goldOpened,
                 report, struck>>

\* statistics.json and the seal of the evaluation, then the state.
CloseEvaluation(p) ==
  /\ pc[p] = "label" /\ mem[p].next > N * R
  /\ state' = [state EXCEPT !.evaluated = TRUE]
  /\ Goto(p, "seal_root")
  /\ UNCHANGED <<source, ckpts, gold, records, cfSeal, labels, rootSeal, mem, goldOpened,
                 report, struck>>

SealRoot(p) ==
  /\ pc[p] = "seal_root"
  /\ rootSeal' = [records |-> records, labels |-> labels, state |-> state]
  /\ Goto(p, "idle")
  /\ UNCHANGED <<source, ckpts, gold, records, cfSeal, state, labels, mem, goldOpened,
                 report, struck>>

(***************************************************************************)
(* verify, failure and damage                                              *)
(***************************************************************************)
\* Mutant: the labels are counted but not traced to their records.
VerifiesCounts ==
  /\ rootSeal = [records |-> records, labels |-> labels, state |-> state]
  /\ state.evaluated /\ DOMAIN records = Pairs /\ DOMAIN labels = Pairs
Verifies ==
  /\ rootSeal = [records |-> records, labels |-> labels, state |-> state]
  /\ state.evaluated
  /\ DOMAIN records = Pairs /\ DOMAIN labels = Pairs
  /\ \A x \in Pairs : labels[x].record = records[x]

Verify(p) ==
  /\ pc[p] = "idle" /\ rootSeal # None
  /\ Verifies
  /\ report' = rootSeal
  /\ UNCHANGED <<source, disk, pc, mem, goldOpened, struck>>

\* An exception, caught by nobody, or the death of the process.  What a
\* process wrote stays.
Fail(p) ==
  /\ pc[p] # "idle"
  /\ Goto(p, "idle")
  /\ UNCHANGED <<source, disk, mem, goldOpened, report, struck>>

Strike(kind, t, r) == struck = None /\ struck' = [kind |-> kind, task |-> t, role |-> r]

\* The vote of a role is changed and its output no longer hashes to what the
\* checkpoint says of it.
BreakCheckpoint(t) ==
  /\ Strike("broken_checkpoint", t, 0)
  /\ \E r \in Roles, v \in Written :
       ckpts' = [ckpts EXCEPT ![t][r] = [vote |-> v, sound |-> FALSE]]
  /\ UNCHANGED <<gold, records>>

\* A checkpoint that fits itself takes the place of the sealed one: with another
\* output of a role, or that of another task.  Its own hash, the task it names
\* and the hash of its aggregation are looked at by the preflight only.
Replacements(t) ==
  {ckpts[u] : u \in Tasks} \cup
  {[ckpts[t] EXCEPT ![r] = [vote |-> v, sound |-> TRUE]] : r \in Roles, v \in Written}
ReplaceCheckpoint(t) ==
  /\ Strike("replaced_checkpoint", t, 0)
  /\ \E c \in Replacements(t) : ckpts' = [ckpts EXCEPT ![t] = c]
  /\ UNCHANGED <<gold, records>>

ChangeGold(t) ==
  /\ Strike("gold", t, 0)
  /\ \E g \in Written \cap Letters : gold' = [gold EXCEPT ![t] = g]
  /\ UNCHANGED <<ckpts, records>>

\* Some evaluation has checked the seal of the records and has not labelled x.
Checked(x) ==
  \E p \in Procs :
    \/ pc[p] \in {"open_gold", "make_evaluation"}
    \/ pc[p] = "label" /\ x \notin DOMAIN labels
RecordKind(x) ==
  IF cfSeal = None THEN "unsealed_record"
  ELSE IF Checked(x) THEN "checked_record" ELSE "sealed_record"

\* The schema of a record accepts any answers.
ChangeRecord(x) ==
  /\ Strike(RecordKind(x), x[1], x[2])
  /\ records # None /\ x \in DOMAIN records
  /\ \E v \in Written : records' = [records EXCEPT ![x].removal = v]
  /\ UNCHANGED <<ckpts, gold>>

Damage ==
  /\ \/ \E t \in Tasks : BreakCheckpoint(t) \/ ReplaceCheckpoint(t) \/ ChangeGold(t)
     \/ \E x \in Pairs : ChangeRecord(x)
  /\ UNCHANGED <<source, cfSeal, state, labels, rootSeal, pc, mem, goldOpened, report>>

Step(p) ==
  \/ MakeRoot(p) \/ BuildTask(p) \/ SealRecords(p) \/ WriteState(p)
  \/ OpenGold(p) \/ MakeEvaluation(p) \/ LabelRecord(p) \/ CloseEvaluation(p) \/ SealRoot(p)

Next ==
  \/ \E p \in Procs : StartBuild(p) \/ StartEvaluate(p) \/ Verify(p) \/ Step(p) \/ Fail(p)
  \/ Damage

Spec == Init /\ [][Next]_vars

------------------------------------------------------------------------------
\* Seen from the votes of a task: x wins among the roles of S when no other
\* letter has more votes there and no smaller one as many.
Tally(votes, S, x) == Cardinality({r \in S : votes[r] = x})
Wins(votes, S, x) ==
  IF \A r \in S : votes[r] = NoVote THEN x = NoVote
  ELSE /\ x # NoVote /\ Tally(votes, S, x) > 0
       /\ \A y \in Letters : \/ Tally(votes, S, y) < Tally(votes, S, x)
                             \/ Tally(votes, S, y) = Tally(votes, S, x) /\ y >= x
TiedIn(votes, S) ==
  \E x, y \in Letters :
    x # y /\ Wins(votes, S, x) /\ Tally(votes, S, y) = Tally(votes, S, x)

\* A record of the target r says what the votes of its task decide, with all
\* roles and without the target; a tie is marked exactly when it decided.
Follows(votes, r, record) ==
  LET others == Roles \ {r} IN
  /\ Wins(votes, Roles, record.baseline)
  /\ Wins(votes, others, record.removal)
  /\ record.tie <=> TiedIn(votes, Roles) \/ TiedIn(votes, others)

Struck(kind, t, r) == struck = [kind |-> kind, task |-> t, role |-> r]

\* The votes a build may have read of a task: those Gate 6 sealed, or those of
\* the checkpoint that took the place of the sealed one.
Readable(t) ==
  {source.votes[t]} \cup
  {votes \in {[r \in Roles |-> ckpts[t][r].vote]} : Struck("replaced_checkpoint", t, 0)}

\* Protocol 6.1A: any source mutation aborts before the analysis.  The records
\* of a task are sealed all of one vote, which is the one Gate 6 sealed whenever
\* a checkpoint was left alone or contradicts itself; a checkpoint that fits
\* itself and was put in place after the preflight, and a record changed before
\* its seal, are sealed as they are.
RecordsFollowTheVotes ==
  cfSeal # None =>
    /\ DOMAIN cfSeal = Pairs
    /\ \A t \in Tasks : \E votes \in Readable(t) : \A r \in Roles :
         Struck("unsealed_record", t, r) \/ Follows(votes, r, cfSeal[<<t, r>>])

\* A label on a record that follows the votes of its task gives a role a value
\* only if the role voted for the answer of the team, and only with a tie before
\* or after the removal; it gives none exactly when no valid vote is left.
OnlySupportersHaveValue ==
  labels # None =>
    \A x \in DOMAIN labels : \A votes \in Readable(x[1]) :
      Follows(votes, x[2], labels[x].record) =>
        /\ labels[x].keep = None <=> \A r \in Roles \ {x[2]} : votes[r] = NoVote
        /\ labels[x].keep \in {-1, 1} => labels[x].tie /\ Wins(votes, Roles, votes[x[2]])

\* Once any process has opened the gold data no process writes a record or a
\* seal of records again, and a label that was written is final: damage to a
\* sealed record is the only change.
NothingChangesAfterGold ==
  [][goldOpened =>
       /\ cfSeal' = cfSeal
       /\ records' # records => struck = None /\ struck' # None
       /\ labels # None => \A x \in DOMAIN labels :
                             x \in DOMAIN labels' /\ labels'[x] = labels[x]]_vars

\* The worth of a role under the gold answer g.
Worth(record, g) ==
  IF NoVote \in {record.baseline, record.removal} THEN None
  ELSE CASE record.baseline = g /\ record.removal # g -> 1
         [] record.baseline # g /\ record.removal = g -> -1
         [] OTHER                                     -> 0

\* verifier.py:85: a label references the sealed counterfactual.  A verification
\* that passes has seen a label of every role of every task, on the record that
\* lies beside it and of the gold answer Gate 6 sealed.  The verifier looks at
\* neither the seal of the records nor the gold data: that they are the sealed
\* ones rests on the check evaluate made before, and so fails for a record that
\* was changed after the check and before its label, and for gold data changed
\* at any time after the preflight, and for nothing else.
VerifiedLabelsAreTraced ==
  report # None =>
    /\ DOMAIN report.records = Pairs /\ DOMAIN report.labels = Pairs
    /\ \A x \in Pairs :
         LET label == report.labels[x] IN
         /\ label.record = report.records[x]
         /\ label.record = cfSeal[x] \/ Struck("checked_record", x[1], x[2])
         /\ \/ label.keep = Worth(label.record, source.gold[x[1]])
            \/ Struck("gold", x[1], 0) /\ label.keep = Worth(label.record, gold[x[1]])
=============================================================================
