-------------------------- MODULE ExecutionEvidence --------------------------
(***************************************************************************)
(* The evidence of one execution and what a runtime adapter requires of    *)
(* it.  A hash is the value it identifies.                                 *)
(***************************************************************************)
CONSTANTS
  Ids,      \* values of the identifiers of an experiment, a task and a team
  RoleIds,  \* role ids
  Values    \* role outputs

\* What a request asks to execute: the identifiers, the roles of the team and
\* those of its execution order.  The two agree in a team that was validated,
\* and are two lists that can be changed afterwards.
Plan == [id : Ids, roles : SUBSET RoleIds, order : SUBSET RoleIds]

\* The seeds derive from the identifiers and the roles of the team.
Seeds == [id : Ids, roles : SUBSET RoleIds]
Seeded(plan) == [id |-> plan.id, roles |-> plan.roles]

Outputs == UNION {[S -> Values] : S \in SUBSET RoleIds}

\* An ExecutionRecord, an object that has its attributes but is none, or one
\* that cannot be dumped as JSON and read again.
Forms == {"record", "look_alike", "not_json"}

\* What a backend answers, as far as the adapter looks at it.
Execution ==
  [id : Ids, seeds : Seeds, mock : BOOLEAN, outputs : Outputs,
   hashes : Outputs, succeeded : BOOLEAN, final : BOOLEAN, form : Forms]

\* Mutant: a success may leave roles out.
WholeInPart(execution, plan) ==
  execution.succeeded =>
    DOMAIN execution.outputs \subseteq plan.order /\ execution.final

\* A success answers for every role of the order and has a final output.
Whole(execution, plan) ==
  execution.succeeded =>
    DOMAIN execution.outputs = plan.order /\ execution.final

\* Mutant: the mock flag is not compared.
ValidExecutionAnyMode(execution, plan, mock) ==
  /\ execution.id = plan.id /\ execution.seeds = Seeded(plan)
  /\ execution.outputs = execution.hashes
  /\ Whole(execution, plan)

\* _validate_execution does not raise.
ValidExecution(execution, plan, mock) ==
  /\ execution.id = plan.id
  /\ execution.seeds = Seeded(plan)
  /\ execution.mock = mock
  /\ execution.outputs = execution.hashes
  /\ Whole(execution, plan)

\* The evidence of an execution that raised.
FailedExecution(plan, mock) ==
  [id |-> plan.id, seeds |-> Seeded(plan), mock |-> mock, outputs |-> <<>>,
   hashes |-> <<>>, succeeded |-> FALSE, final |-> FALSE, form |-> "record"]
=============================================================================
