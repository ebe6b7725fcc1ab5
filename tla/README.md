# Rolecheck: TLA+ models, model checking and proofs

This directory specifies the core of Rolecheck: the two intervention runners
that remove one role from a multi-agent team without touching the evidence of
the baseline run, the gated experiment scripts that execute, retry, seal, score
and analyse a pilot, the signals a removal is judged by, and the normalizer that
reads role contracts out of prompts. Paths below are relative to the
repository.

- `*.tla` without a prefix: one module per component.
- `MC*.tla` and `*.cfg`: small instances for TLC.
- `*Proofs.tla`: theorems for every value of the constants, checked by TLAPS.
- `PROJECT.json`: components, runs, mutants, the map from definitions to source
  lines, findings, hazards, theorems.

## 1. Inventory

Rolecheck executes a team of roles on a task, records everything by hash, and
asks one counterfactual question: what would the team have answered without
this role? It answers by an intervention record, `REMOVE` or an abstaining
`KEEP`, and an offline evaluation reads the sealed records afterwards.

| Component | State | Operations | What makes it correct |
|---|---|---|---|
| Parallel removal (`runtime/parallel_removal.py`) | one call: checks, snapshots | `run`: preflight, replay, removal, records | `REMOVE` only over frozen, re-hashed responses and an agreeing replay; a call decides, and raises only for causes that are known |
| DAG bypass (`runtime/dag_bypass.py`) | one call: checks, visited nodes, snapshots | `run`: preflight, replay, map, re-execution, aggregation, records | the counterfactual run is coherent: each node reads what its producer left in that run, in the slots that bear the producer's artifact; only nodes whose inputs changed are executed; the records' own schemas accept it |
| Runtime adapters (`runtime/adapter.py`) | records of the recorder | `execute` of the fake, self-hosted and recording adapters | a recorded success fits the request its backend had; evidence only of the bound object; a backend failure is evidence wherever evidence can be made |
| Majority vote (`pilot/aggregation.py`) | none | `aggregate` | the answer follows from the votes alone, whatever their order; an invalid answer never counts; only a role that voted for the answer can change it by leaving |
| Pilot backend (`pilot/execution.py`, `pilot/parsing.py`) | one call: outputs, hashes | `execute`: per role render, generate, parse; then vote | the engine and the aggregator whose identity was frozen made everything in the record; a vote is what the last line says |
| Gate 6 execution and retry (`scripts/run_gate6_baselines.py`, `run_gate6_resume.py`) | two directories of files, one process | start, load, generate, checkpoint, progress, abort, seal | what progress lists is on disk; a sealed run is whole; a task with an answer is never answered again; the budget holds |
| Gate 6 post-processing (`scripts/run_gate6_postprocess.py`) | four directories of files, one process | start, remove, seal, open gold, score, seal | gold data only after every removal is sealed; the score compares sealed answers |
| Post-hoc analysis (`analysis/`, `scripts/analyze_gate6_posthoc.py`) | one directory, several processes | build, evaluate, verify | the records of a task follow one vote, the sealed one; labels are final; what verify accepts can be traced to what was sealed |
| Structured scores (`signal/`), Gate 6.2A smoke (`scripts/run_gate62a_smoke.py`) | a directory, one process | exact totals, tie order, keep values; execute, remove, score, verify | a verified run is of its sealed outputs; hard and soft keep values that agree |
| Task splits (`benchmark/splits.py`) | none | partition by seed | sizes add up, no task in two partitions |
| Benchmark adapters, Gate 3 audit (`benchmark/`) | none | conversion, search for gold keys | no gold label in what a role sees |
| Role contract normalizer (`normalization/`) | the scan of one prompt: section, fence, spans | headings, labels, directives, fences, what the caller states | a value only from text that states it; no line is lost; contradictions stay open |
| Evidence schemas (`schemas/models.py`) | none | validators | accept exactly the evidence the runners build |
| Mock runtime (`runtime/mock*.py`) | none | `run`, stand-ins | a success with every role |
| Manifest, hashing, configuration, logging; generation engine | none | pure functions; a GPU | not modelled |

How they interact. The experiment scripts call the pilot backend through an
adapter to get role outputs, aggregate them by majority vote, write one
checkpoint per task and seal the directory. The post-processing verifies the
seal, runs a parallel removal per task over the recorded outputs, seals the
removals, and only then opens the gold data. The post-hoc analysis reads the
same sealed directories later and removes every role of every task by majority
vote; the Gate 6.2A smoke does the same over scores in one process. Both runners
take an injected aggregator (and the bypass an injected node executor):
callbacks that may raise at any read or call, rewrite what they are handed, or
answer differently from one call to the next, at times with values that cannot
be copied or hashed. The scripts share state through files only. The dumps of
the Gate 6 scripts go to a temporary name and are renamed; the checkpoints a
retry reuses are copied in place by `shutil.copy2`, and the dumps of the
post-hoc analysis are written in place too.

Behaviours that are hard to test:

- **Untrusted callbacks.** State hashed before a callback is used after it.
- **Replay before removal.** An aggregator that is not deterministic.
- **Propagation in the DAG.** A node's new output must reach every later
  consumer, and only those. Slots are looked up by producer and artifact name,
  a recorded input is compared with nothing its producer wrote, and several of
  the report's claims are set, not computed.
- **Evidence refused by its own schema.** 26 checks decide, three schemas
  validate again: what the checks let through and a constructor refuses is an
  exception instead of a decision.
- **Crashes and failures at every step** of a script, an alarm that races the
  answer, a budget carried from one process to the next in a file, a retry that
  resumes what another process left.
- **Staged evidence.** A checkpoint damaged, or replaced by another that fits
  itself, between its verification and its use; a copy torn by a crash; a script
  started again over what a dead one left, or while another still runs; a second
  look at the gold data that relabels.
- **Signals at their edges.** Ties, invalid answers, a mean over a changed
  number of roles.
- **Scanning.** A fence that is not closed, a section that a blank line or an
  unknown heading ends, two headings that contradict each other.
- **Identities that move.** An engine, an aggregator or a backend that is
  reconfigured between the look at its identity and its use.

`PROJECT.json` lists each hazard at its line with the properties that watch it.

## 2. Modules

| Module | Models | State and actions |
|---|---|---|
| `Intervention` | the promise of any removal of one role | evidence grows in a fixed order; one decision |
| `ParallelRemoval` | `ParallelRemovalRunner.run` | one action per stretch of `run` between two calls of the aggregator; each of the 26 checks is a named member of a set; the schema validators, with the identifiers they want non-empty, are `ReportAccepted`, `RecordAccepted`, `InterventionAccepted`; `Raise` is every exception that `run` does not catch, `raisedBy` its cause |
| `DagBypass` | `DagBypassRunner.run` | as above, and one step per node in execution order (`SkipTarget`, `ReuseNode`, `ExecuteNode`); a payload maps fields to contents; what the trace recorded in an input slot (`Artifact`: producer, artifact name, payload) is data of its own |
| `Gate6Execution` | both execution scripts | `disk` has a record of files per attempt; a dump is one step (`.partial` and rename), the reuse of a checkpoint three (`VerifyCheckpoint`, `OpenCopy`, `CopyCheckpoint`); `Crash` and the failures at every step; `DamageCheckpoint` in either attempt at any step before its seal |
| `EvidenceStages` | the promise of a gated experiment | executed, removed, gold, scored, complete |
| `Gate6Postprocess` | the post-processing script | files, and the variables of the process that reads them; may be started again |
| `Vote` | how the majority decides | operators only |
| `MajorityVote` | `DeterministicMajorityAggregator.aggregate` and the validator of its result | operators only; a response that the aggregator refuses is one that is not sound |
| `Posthoc` | the post-hoc script: build, evaluate, verify | files, and per process its place and memory; processes overlap, fail anywhere and are started again; one checkpoint, gold answer or record is changed on disk, at any step (`struck` says which and when) |
| `ScoreSignal` | `signal/aggregation.py`, `tie_break.py`, `evaluation.py` | operators only; means are compared over a common denominator |
| `Gate62Smoke` | `run_gate62a_smoke.py` and `verify_gate62a_smoke.py` | files and one process; `AbortRun` inside the `try`, `Stop` outside it; a record replaced after it was sealed |
| `Normalizer` | `RoleContractNormalizer.normalize` | one step per line, then the result; a line is its kind and what the patterns make of it |
| `AnswerParsing` | `split_model_text`, `parse_terminal_answer` | operators only; a text is a sequence of tokens |
| `PilotBackend` | `PilotExecutionBackend.execute` | one step between two calls of injected code; identities are versions, 0 the frozen one; uses `Vote`, `AnswerParsing` and, for what the adapter requires, `ExecutionEvidence` |
| `ExecutionEvidence` | `ExecutionRecord`, `_validate_execution`, `_failed_execution` | operators only |
| `RuntimeAdapter` | `execute` of the fake, self-hosted and recording adapters | a sequence of calls; the backend may leave the request it was handed as any other or spoiled (`plan`), the injected object may become another at any step (`backend`; `seen` remembers what it told during the call) |
| `ParallelRemovalProofs`, `DagBypassProofs`, `Gate6ExecutionProofs`, `Gate6PostprocessProofs`, `NormalizerProofs` | | theorems about the five specifications |
| `PilotBackendProofs`, `PosthocProofs`, `Gate62SmokeProofs` | | theorems about the three specifications, and first about what the operators of `AnswerParsing`, `MajorityVote` and `ScoreSignal` compute for any input; the second half of `PilotBackendProofs` is about `RuntimeAdapter`, which shares no name with `PilotBackend` |

Conventions. A hash is the value it identifies, so two equal hashes are two
equal values. A check of the code whose inputs nothing else in the model looks
at is a flag of the request that holds or fails. Injected objects (aggregator,
node executor, engine, backend) may raise at every read and call, answer
anything, and write into everything they are handed that is not a copy. That a
deep copy shares nothing with its original is assumed and not a property: the
models have no aliases, so what the code copies (the store of the parallel
runner, the records of the recorder, the task each role is prompted with) is
simply not touched by those who hold the copy. An injected object acts while it
is called and not from a thread of its own afterwards; a reconfiguration by
somebody else may fall anywhere. An operator whose comment says *Mutant* is a
plausible defect of the operator next to it and is used by no specification:
`PROJECT.json` says which property notices it.

How the modules compose. `ParallelRemoval` and `DagBypass` implement
`Intervention` (property `KeepsThePromise`); `Gate6Postprocess` implements
`EvidenceStages` (`KeepsTheStages`) and takes the execution seal that
`Gate6Execution` writes as a step; `PilotBackend` instantiates
`ExecutionEvidence` to show that the adapter of `RuntimeAdapter` accepts what
it returns. `Posthoc` extends `MajorityVote` and calls it on whole teams and on
teams without a role; `MajorityVote` and `PilotBackend` decide with the
operators of `Vote`, which `PosthocProofs` is about. `Gate62Smoke` extends
`ScoreSignal`.

## 3. Runs

| Run | Asks | Instance |
|---|---|---|
| `parallel_removal` | does a `REMOVE` always rest on frozen, replayed evidence, for which arguments do the schemas refuse what the call builds, does every other call decide | three roles, two values, and results that cannot be copied or hashed; every call at most two departures from one that passes all checks, empty identifiers and an arity that is no boolean among them |
| `dag_bypass` | is a `REMOVE` one coherent counterfactual run, are only the nodes below the bypass or a seam of the trace executed, for which arguments is the evidence refused, does every other call decide | a chain of four roles, two fields, two contents; at most two departures, among them slots recorded with another name, another payload or of a later role; 26,604 states |
| `dag_needs` | *violated*: can a role that is kept need what the removed role made | the same |
| `gate6_execution` | is what the files say true after any failure, is no answer made twice, is the budget overrun bounded, does a started script end | three tasks of two roles, alarm of two seconds, budget of eight; 282,411 states |
| `gate6_postprocess` | is gold opened only over sealed removals, is the score of sealed answers, is a root seal whole | two tasks, two answers |
| `runtime_adapter` | does a recorded success fit the request its backend left, is evidence given only when the bound object was asked during the call, is a backend failure evidence | two calls, two roles, manifests that name either aggregator; answers at most two departures from a valid one, requests left as any plan; 33,214 states |
| `pilot_backend` | is everything in a record made by the frozen engine and aggregator, and does a role vote what its last line says | three roles, two options and one letter past them, all texts of three tokens and chosen longer ones for one role; 489,128 states |
| `posthoc` | do the records of a task follow one vote, and which, has only a supporter a value, is a label final, is what verify accepts traced to what was sealed | two tasks, three roles, three options; every vote of the first task up to the order of the roles; two processes, one change on disk that writes one of two answers (`Written`); 652,106 states |
| `gate62_smoke` | is a verified run of its sealed outputs, do hard and soft value agree, does an aborted run see no gold data | two tasks, three roles, three options, scores that add up to two; outputs that agree, tie, differ in wording alone or do not parse |
| `smoke_diverse` | *violated*: does a task whose roles gave the same scores count as diverse | the same |
| `normalizer` | does each field get exactly the lines the layout gives it, is every line accounted for, is a scalar one section, do contradictions stay open | every prompt of up to four lines of sixteen shapes, five callers |
| `normalizer_fences` | *violated*: can the text of a code fence be part of a value | up to five lines |

Why the bounds are enough. The runners check their arguments one by one and
never loop over more than the roles: a request with two departures meets every
pair of checks, and three roles (four in a chain) are one removed, one changed
and one retained or downstream of the changed. Three tasks give the retry a
task before, at and after the one that was aborted; a budget of eight with
generations of one or two seconds is exhausted in the first attempt, in the
second, or not at all; there is one retry in the code. One task whose
checkpoint is damaged and one that is not suffice for post-processing. One
reconfiguration of the engine and one of the aggregator, at any step, is any
number of them, as a version never returns; that it might is a hazard listed
without a property. Two calls of the adapter are one that raises, is rejected or
is recorded, and one after it, which is numbered by the list. Its injected
object has two identities and may go back and forth between them at any step.

With three roles and three options the vote has strict majorities, pluralities
after a removal, ties of two and of three, and no valid vote at all. The order
of the roles does not matter to the post-hoc analysis, which removes all of
them, so that one order of each vote is enough; its second task is there to be
damaged, labelled or left undone while the first is not, and to lend it its
checkpoint. A change writes an option that was not the majority everywhere, or
no vote: with every vote of a task in the sources it makes and breaks ties,
supporters and majorities. Two processes are one
that works and one that started too early or too late. The scores of the smoke
make every sign of the hard and of the soft value appear, with and without a
tie. Four lines hold a section, its end, another section and a line after it;
a fence that is shorter than the one it should close takes three.

Fairness. A call of a runner is sequential code whose injected objects return
or raise: weak fairness of its next step. A script of Gate 6 that was started
goes on, with the alarm bounding a generation: weak fairness of the steps of
the process and none for starting it, for crashes or for damage. The alarm does
not cover loading the engine (`run_gate6_baselines.py` 148,
`run_gate6_resume.py` 192): that it returns or raises is assumed. A call
of the adapter that was made goes on; nobody has to make one. The other
specifications state no fairness and no run asks them for progress.

## 4. Where code and documents part

Three runs end in a violation:

- `dag_needs`: `single_bypass_path` looks at the edges and at the rule's
  downstream role. A third role whose required input names the target, without
  an edge, keeps the baseline artifact of the removed role.
- `smoke_diverse`: the gate counts tasks whose outputs differ, and an output
  holds the wording of its evidence besides the scores. The protocol asks for
  differing score vectors.
- `normalizer_fences`: a field without sections, such as the role name, that
  two lines give takes all text from the first to the last. A code fence that
  stands between them becomes part of the name, closed as it is and without a
  warning: the scan warns of an unclosed fence only.

The models show more that no run is spent on:

- The parallel runner raises when the identity or the arity of its aggregator
  cannot be read, where README 152-153 promises an abstaining `KEEP` for any
  failed check; the bypass runner abstains. Both raise when the recorded result
  is not JSON or has no UTF-8 form, and when a copied answer of the aggregator
  has none, as the hash is taken outside the `try`. `EveryCallDecides` names each
  of these causes (`raisedBy`).
- Both runners die of a `ValidationError` on their own evidence for an output
  version of `""`, which passes the check for a new version, when the removal is
  otherwise valid; for a target of `""` even where they would abstain; and the
  parallel runner for an arity that is no boolean. `OnlyUnfitArgumentsRaise`
  says: for nothing else.
- The bypass runner accepts a trace that contradicts itself. An input whose
  recorded payload is not what its producer wrote (`Seams`) makes its role run
  again without any change above it; one recorded under another artifact name,
  or from a later role (not `Linked`), keeps the recorded payload whatever the
  producer answers now.
- The retry validates what it resumes after it made its directory and outside
  its `try`: a refused retry leaves a directory without an abort record
  (`run_gate6_resume.py` 158-177). It does not compare its configuration with
  that of the attempt it resumes.
- A checkpoint that is damaged between the two readings of the retry
  (`run_gate6_resume.py` 171 and 176) is copied and sealed with a hash that
  nobody compares with the progress list again; `SealedRunIsComplete` allows a
  damaged checkpoint under a seal in this case and in that of damage to the
  attempt's own directory before its seal, and in no other. A copy torn by a
  crash is never sealed: the directory exists and blocks every later start.
- The backend of the adapter holds the very objects that its answer is
  validated against (`adapter.py` 268): accepted evidence may be of a plan the
  caller never made, under the hash of the one he did. `SuccessIsWhole` compares
  a record with the request as the backend left it, and with the caller's only
  for the mock runtime.
- Three failures of a backend escape the adapter as exceptions: a request it
  spoiled so that no evidence can be made of it, an object that only looks like
  a record (291), and a final output the recorder cannot dump (329-331).
  `BackendFailureIsEvidence` names them (`BeyondEvidence`).
- The backend's identity is looked at once, before the call (253): it may be
  another one when it runs. The aggregator of the self-hosted adapter is the one
  it was built with; the fake adapter asks its own now (187).
- The alarm may fire in the `finally` clause before the elapsed time is added,
  so that a sealed run may have used more than the budget:
  `BudgetOverrunBounded` states by how much.
- The fake adapter replaces the mock runtime's record by an empty one when the
  aggregation answered `None`, although the outputs of the roles were recorded
  (`Accepted` in `RuntimeAdapter`).
- The post-hoc evaluation reads the gold rows as they lie there; their seal was
  checked by build, in another process. Gold data changed since is labelled and
  verified.
- The post-hoc build reads each checkpoint a second time (`gate6_posthoc.py`
  232-240) and compares an output only with the hash beside it: a checkpoint that
  fits itself and took the place of the sealed one after the preflight, that of
  another task included, is sealed as it is, where the protocol (6.1A) has any
  mutation of the source abort the analysis.
- `verifier.py` 85 speaks of the sealed counterfactual and compares a label with
  the record that lies beside it, never with the seal of the records: a record
  changed after evaluate checked that seal and before its label was written is
  labelled, covered by the seal of the root and accepted. So a report is of the
  sealed records and gold answers except in the two cases that
  `VerifiedLabelsAreTraced` names.

## 5. Proofs

Every safety invariant, every action property and every refinement that a run
checks are proved for all values of the constants. None of the properties is
inductive; `IInv` is the strengthening that is, there is one lemma per action
that it survives it, and TLC had looked for counterexamples to it on a small
instance first. The theorem `Inductive` states it.

**`ParallelRemovalProofs`**, for any roles, values, outputs, signatures and
arguments: `TypeCorrect`, `RemoveIsBackedByEvidence`, `EvidenceIsAccepted` (the
schemas refuse the evidence for no arguments but the unfit ones), and
`Refinement`: `Spec` implements `Intervention`. `IInv` says, for each place of
the call, which snapshots exist, over which hashes, and which checks have been
decided and how: a replay snapshot exists only if the preflight failed nothing,
a counterfactual one only if the replay agreed, and the summary is reached with
all later checks decided. That every constructor accepts, for arguments that are
fit, then follows from the meaning of the two groups of checks
(`PreflightMeaning`, `ValidMeaning`, `SummaryAccepted`).

**`DagBypassProofs`**, for teams of any size in any execution order, any fields,
rules, answers and traces, consistent or not: `RemoveIsOneRun`,
`ExecutionIsMinimal`, `EvidenceIsAccepted`, and `Refinement`, again of
`Intervention`. The argument is about the order of the nodes. `Visited`: the
nodes are exactly those before `next`, without the target. `NodesAreSound`:
every node visited so far was reused with its recorded inputs or executed on
inputs that differ from them, and read what the run *as it stands now* hands it
(`SoundNode`). The last part is the induction hypothesis one would get wrong: a
later visit must not change what an earlier node should have read.
`VisitKeepsInputs` shows that it does not: only a `Linked` slot is handed a new
output, one that names the artifact as its producer writes it, and whose
producer stands earlier in the order (`OrderIsStrict`); any other slot keeps its
recorded payload. A node runs again because one of its inputs changed: it was
handed the bypass, or the output of a producer that ran again, or the recorded
payload of the slot is not what its producer wrote, a seam
(`ChangeComesFromTheBypass`). That no role stands in the order twice follows
from its length.

**`Gate6ExecutionProofs`**, for any number of tasks and roles, any
configurations, any durations up to the alarm and any budget:
`ProgressIsOnDisk`, `SealsAreComplete`, `RetryIsOfTheAbortedTask`,
`OverrunIsBounded` and the action property `EvidenceIsPreserved`. `Directories`
says what any directory holds, whoever runs; `AtWork` what the running process
has written, place by place; `Retry` that a retry works behind an abort of the
first attempt and what it did not copy it made itself; `Tried` that the first
attempt stopped at the task where the retry started; `Spending` what a process
knows of the time used, and that what it may not know of (`Lost`) is one alarm;
`Intactness` that a checkpoint which is not intact was damaged, or is a torn copy
in a directory that will not have a result. The copy that the retry makes in
place has the places and the cases of its own in `Directories` and `AtWork`:
between its opening and its end the directory holds a file that is no checkpoint
yet, and the source was intact when it was verified, or damaged since.

**`Gate6PostprocessProofs`**, for any number of tasks and any answers:
`ScoreIsOfTheSeals`, `RootSealCoversAll`, and `PostprocessKeepsTheStages`: the
script implements `EvidenceStages`. `Order` says which files there are at each
place: a records directory that exists keeps the script from passing its first
test again. `Contents` says that what the process holds was sealed: a checkpoint
that is still intact is the one the execution sealed.

**`PilotBackendProofs`**. `OnlyTheLastLineVotes`: the parser, which splits the
text, strips what is left and matches its end, agrees for texts of any length
with `VotesForItsLastLine`, which looks at the whole text in place. Then, for
any team and any number of reconfigurations: `EngineIsFrozen`,
`VotesAreLastLines`, `FinalIsFrozenVote`, `RecordsAreAccepted`. An output is
appended before the look at the identity of the engine that follows it;
`Generated` leaves the version of the engine open between the two. An aggregator
that is not the frozen one may have written into the outputs; `OutputsAreSound`
speaks of them only while they are `Untouched`, which the last look at its
identity decides.

The second half is about `RuntimeAdapter`, for any roles, task ids, values,
requests, answers and number of calls: `AdapterTypeCorrect`,
`RecordedSuccessIsWhole`, `EvidenceIsBound`. Its invariant is `AdapterInv`,
which `AdapterInductive` states. `CallInProgress`: a call under way works on one
plan, the caller's own until a backend was called, and for the mock runtime to
the end. `BoundCall`: a backend is called, and an accepted result returned, only
where the identity that binds it was seen during the call (`Bound`). `Outcome`:
what stands before the return fits the plan as it was left (`Fits`), or is a
rejection. `Recorded`: the list is indexed by place, and what it accepted is
sound for its request and the plan that was left (`SoundFor`). The ways out of
the backend keep `Outcome` by two lemmas about `ExecutionEvidence`
(`AcceptedFits`, `FailedFits`).

**`PosthocProofs`**. `DecidesThePlurality`: for any number of options and any
finite ballot with a vote in it the most voted letter wins, the first in the
alphabet among several. Then, for any number of tasks, roles, options and
processes: `RecordsAreOfTheVotes`, `ValueIsOfSupporters`,
`VerifiedLabelsHaveTheirSource` and the action property `GoldComesLast`. The
processes overlap, so that what one of them relies on must survive the others:
`OneBuilds` and `OneLabels` say that the two directories, each made by one
process, admit one that builds and one that labels; `BuildComesFirst` that no
process can still build once one evaluates. What is in the files meanwhile has
to be said up to the one change on disk, and no further: `Intact`, what was not
changed is what Gate 6 sealed; `RecordsFollow`, the records of a task are of one
vote, which is the sealed one or that of the checkpoint that took its place
(`HeldIsReadable`: the aggregation refuses any other), but for a record changed
before its seal; `Traced` and `LabelsFollow`, what an evaluation reads and what
it wrote is of the sealed record and the sealed answer (`OfTheSeal`,
`OfTheSource`), but for a record changed after the look at the seal and gold
data changed. `KeepIsWorth` shows that the value the code computes is the one
the property defines.

**`Gate62SmokeProofs`**, for any number of tasks, roles and options and any
outputs:

- `AbortedRunIsBlind`. `SmokeInv` says what has not been written yet at each
  place of the script, and that a root that exists keeps it from starting again.
- `VerifiedIsOfItsSeals`. The removals on disk need not be of the sealed outputs
  while a replaced record lies there; `FitInv` says that they are as long as the
  records are the sealed ones, which is what verify compares before it accepts,
  and that nothing a report speaks of is written after it.
- `ValuesNeverContradict`: the hard and the soft values that the script writes
  agree. `ValueInv` says that every removal the process remembers is of a team
  whose outputs were all scorable, replaced or not. The rest is arithmetic:
  `ValuesAgree`, for two aggregations as `Aggregated` describes them;
  `AggregationIsSound`, that those of the code are such; and
  `EqualScoresHaveNoValue`.

**`NormalizerProofs`**, for prompts of any lines and any length, any fields and
any callers: `LayoutIsExtracted`, `EveryLineHasItsPlace`,
`ScalarsAreOfOneSection`, `ContradictionsAreNotDecided`. The properties compare
what the scan extracts with a layout that is defined on the whole prompt: the
fence that is open at a line (`Opens`, recursive over the lines), the heads, the
section a line stands in. The scan never looks back; `IInv` says what its
variables mean in that layout: `fence` is the one fence that is open after the
lines read (`FenceIsTracked`; two are never open at once, `OneOpenFence`),
`current` is the section the last line stands in (`SectionIsTracked`),
`collected` has the source lines of each field in their order
(`SourcesAreCollected`), `recognized` those and the heads, and a field counted
once has one head (`SectionsAreCounted`), so that what is sliced from the prompt
is of one section. `ResultIsDerived` says that the result is made of nothing
else.

- A function with the recursion of `Opens` has to be shown to exist before
  anything can be said of it, and no induction is at hand. It exists for a prompt
  without lines, one more line extends it (`OpensExtends`), and of the lengths up
  to which there is none there would be a smallest (`OpensExists`); then it is the
  one `Opens` chooses (`OpensIsDefined`).
- The layout of the lines read does not depend on those that follow:
  `OpensStay`, `OpenStays`, `FencedStays`, `HeadsStay`, `InSectionStays`,
  `IsSourceStays`. Each definition looks only at lines up to the one it is about,
  and the recursion of `Opens` too, by the same argument of a smallest line. What
  remains for the step of an action is what the new line itself is (`LineMeans`).

Sums without induction. A total is a fold, defined by recursion over the subsets
of the roles. `TotalCountsPoints` shows that it is a cardinality, that of the set
of pairs of a role and a number up to its score: cardinalities satisfy the
recursion (`PointsAreSums`), and of the subsets on which two functions that
satisfy it differ there would be a smallest (`SumsAreOne`). A smallest element
of a set of naturals exists by the well-foundedness of the naturals, which takes
no operator; `Min` and `Max` of the community modules get their meaning the same
way (`MinIsLeast`, `MaxIsGreatest`).

Assumptions. The theorems rest on those the modules declare (`...Assumption`)
and on nothing else:

- constants are sets of the expected kind, and counts are naturals, and
  there is a task, a role and, for the scores, a second one of each of roles and
  options; the generations of `Gate6Execution` return within
  the alarm;
- `None`, `NoVote` and `Unknown` are none of the values they stand beside: a
  file that is not there is not one that is, a letter that did not parse is no
  letter;
- an order of roles has each role once, and there are finitely many; a payload
  of `DagBypass` has finitely many fields;
- a line of `Normalizer` that is a heading carries no text of its own, and a
  directive on one line does carry some: their patterns say so;
- what the constructors of the arguments refuse is not an argument: a bypass
  strategy without a rule, a parallel strategy without frozen responses, and, of
  the caller of an adapter, an order that does not hold the roles of its team (a
  backend may make it so during the call);
- what a change on disk writes in `Posthoc` is an answer (`Written`).

Only model-checked:

- liveness: `EveryCallDecides` of both runners, `EveryAttemptEnds`, and
  `BackendFailureIsEvidence`. Fairness and `ENABLED` are out of the prover's
  reach.

## 6. Not modelled

- The generation engine: weights, tokenizer, GPU. The other modules see a call
  that returns or raises.
- Wording: prompts, error messages, names of files; the conversion of benchmark
  rows. The bilingual patterns of the normalizer appear as what they make of a
  line, its confidence values, its language guess and the promotion of a draft
  to a strict contract not at all.
- The statistics of the post-hoc analysis: floating point.
- `verify_removal`, which recomputes the sums of `signal/` for synthetic
  artifacts, and `validate_gate62_design.py`, a script over fixed vectors.
- The Gate 4 and Gate 5 scripts: one is a single task without a checkpoint, the
  other the first attempt of `Gate6Execution` with other numbers.
- Operating-system failures below a rename: a `.partial` file is never seen
  under its final name, and a rename that returned is durable. A file that a
  script copies or writes in place may be torn: the copies of the retry are
  modelled so, while a post-hoc file torn by a crash does not parse, and what reads
  it raises as if it were not there: it is taken for one that was not written.
- Damage beyond what the modules name. In `Gate6Postprocess` a damaged
  checkpoint no longer fits its own hash: one that was replaced by another that
  does is outside that model (it is in `Posthoc`). In `Gate62Smoke` one record of
  the execution is replaced, once and after its seal; a removal replaced before
  its own seal is outside. In `Posthoc` labels are not changed and no file is
  deleted.
- Injected code that acts from a thread of its own after its call returned, and
  objects shared in spite of a deep copy.
- The records of audit, repair and role value that no code constructs.

`PROJECT.json` says so per component.

## 7. Plan

What is left, in this order; each step is a module with its run or its
theorems.

1. `TaskSplits`: sizes, remainders, disjointness.
2. The validators of the schemas that `Gate6Execution` and `Normalizer` only
   assume.
