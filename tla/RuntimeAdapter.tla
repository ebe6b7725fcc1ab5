--------------------------- MODULE RuntimeAdapter ---------------------------
(***************************************************************************)
(* A sequence of calls of RecordingRuntimeAdapter.execute over a           *)
(* FakeRuntimeAdapter or a SelfHostedRuntimeAdapter.                       *)
(*                                                                         *)
(* The backend of the self-hosted adapter is injected code: it may raise,  *)
(* answer any record or something that only looks like one, and rewrite    *)
(* the request it was handed.  The fake adapter runs the mock runtime      *)
(* around an injected aggregator.  Either may become another one at any    *)
(* time.                                                                   *)
(*                                                                         *)
(* No name here is one of PilotBackend, so that a module may extend both.  *)
(***************************************************************************)
EXTENDS Integers, Sequences, ExecutionEvidence

CONSTANTS
  Requests,   \* what the adapter is called with
  Answers,    \* the records a self-hosted backend may return
  Nothing,    \* no request, no execution, no result
  Unreadable, \* a request rewritten so that no evidence can be made of it
  MaxCalls    \* bound: calls of one adapter

\* The comparisons of _manifest_preflight, without those of the aggregator.
CheckNames ==
  {"manifest_mock", "evidence_class", "runtime_environment",
   "environment_model_assignments", "runtime_id", "runtime_version",
   "runtime_config_hash", "protocol_id", "removal_protocol_id",
   "initializer_id", "team_config_hash", "model_versions", "tool_id_set",
   "prompt_hashes", "role_contract_hashes", "dataset_revision",
   "task_split_hash", "task_not_in_split"}

\* What is compared with an identity: the aggregator of the manifest (its id,
\* version and configuration in one), and the backend.
IdentityNames == {"aggregator", "backend_identity"}

Modes == {"fake", "self_hosted"}
\* The injected object the adapter was built with, and another in its place.
Backends == {"bound", "other"}

\* A request: what it asks to execute, the aggregator its manifest declares, and
\* the other comparisons of its manifest and its split that fail.
AdapterRequest == [plan : Plan, aggregator : Backends, failing : SUBSET CheckNames]

\* The schema of a team wants its order to hold its roles.
ASSUME AdapterAssumption ==
  /\ Requests \subseteq AdapterRequest /\ Answers \subseteq Execution
  /\ \A r \in Requests : r.plan.order = r.plan.roles
  /\ MaxCalls \in Nat /\ Values # {}
  /\ Nothing \notin AdapterRequest \cup Execution
  /\ Unreadable \notin Plan /\ Unreadable # Nothing

VARIABLES
  mode,      \* which adapter it is
  at,        \* where the call stands
  call,      \* the caller's request
  plan,      \* the adapter's isolated copy, handed to the backend as it is
  backend,   \* whose identity the injected object (the backend, or the mock
             \* runtime's aggregator) tells now
  seen,      \* the identities it told since the call began
  reasons,   \* rejection_reasons of the call
  execution, \* the execution record of the call
  result,    \* the answer of the call, Nothing when it raised
  records,   \* the recorder's list, with the request as the backend left it
  calls      \* number of calls made

adapterVars ==
  <<mode, at, call, plan, backend, seen, reasons, execution, result, records, calls>>

Mock == mode = "fake"

------------------------------------------------------------------------------
AdapterInit ==
  /\ mode \in Modes
  /\ at = "idle"
  /\ call = Nothing /\ plan = Nothing
  /\ backend = "bound" /\ seen = {}
  /\ reasons = {}
  /\ execution = Nothing /\ result = Nothing
  /\ records = <<>>
  /\ calls = 0

\* Both the recorder and the adapter work on copies of the request.
Call ==
  /\ at = "idle" /\ calls < MaxCalls
  /\ \E r \in Requests :
       /\ call' = r
       /\ plan' = r.plan
  /\ at' = "preflight"
  /\ calls' = calls + 1 /\ seen' = {backend}
  /\ execution' = Nothing /\ result' = Nothing /\ reasons' = {}
  /\ UNCHANGED <<mode, backend, records>>

\* The aggregator that the manifest is compared with: the self-hosted adapter
\* keeps one, the mock runtime asks its own now.
Aggregator == IF Mock THEN backend ELSE "bound"

\* Mutant: the identity read when the adapter was built is trusted.
IdentityReasonsTrusted == {}

\* The backend is asked for its identity again, which is compared with the one
\* the adapter was built with.
IdentityReasons ==
  {n \in IdentityNames :
     \/ n = "aggregator" /\ call.aggregator # Aggregator
     \/ n = "backend_identity" /\ ~Mock /\ backend # "bound"}

Preflight ==
  /\ at = "preflight"
  /\ reasons' = call.failing \cup IdentityReasons
  /\ at' = IF reasons' = {} THEN "backend" ELSE "return"
  /\ UNCHANGED <<mode, call, plan, backend, seen, execution, result, records, calls>>

\* The identity of the injected object is read outside the try.
IdentityRaises ==
  /\ at = "preflight"
  /\ at' = "idle"
  /\ UNCHANGED <<mode, call, plan, backend, seen, reasons, execution, result, records,
                 calls>>

\* The record of the call once the backend answered: a record that does not
\* fit the plan, as the backend left it, becomes the evidence of a failure.
Accepted(answer, p) ==
  IF ValidExecution(answer, p, Mock) THEN answer ELSE FailedExecution(p, Mock)

Answered(p, e) ==
  /\ plan' = p /\ execution' = e
  /\ at' = "return"
  /\ UNCHANGED <<mode, call, backend, seen, reasons, result, records, calls>>

BackendAnswers ==
  /\ at = "backend" /\ mode = "self_hosted"
  /\ \E answer \in Answers, p \in Plan : Answered(p, Accepted(answer, p))

BackendRaises ==
  /\ at = "backend" /\ mode = "self_hosted"
  /\ \E p \in Plan : Answered(p, FailedExecution(p, FALSE))

\* The backend leaves the request in a state that raises in the validation, and
\* again where the evidence of the failure is built from it, outside the try.
BackendSpoilsRequest ==
  /\ at = "backend" /\ mode = "self_hosted"
  /\ plan' = Unreadable
  /\ at' = "idle"
  /\ UNCHANGED <<mode, call, backend, seen, reasons, execution, result, records, calls>>

\* What the mock runtime records: an output per role, and an aggregation that
\* answers anything, answers nothing, or raised.  The aggregator works on copies.
MockRecord(p, succeeded, final, form) ==
  LET outputs == [r \in p.order |-> CHOOSE v \in Values : TRUE] IN
  [id |-> p.id, seeds |-> Seeded(p), mock |-> TRUE, outputs |-> outputs,
   hashes |-> outputs, succeeded |-> succeeded, final |-> final, form |-> form]

MockRuns ==
  /\ at = "backend" /\ mode = "fake"
  /\ \E succeeded, final \in BOOLEAN, form \in {"record", "not_json"} :
       /\ (final => succeeded) /\ (form = "not_json" => final)
       /\ Answered(plan, Accepted(MockRecord(plan, succeeded, final, form), plan))

\* The aggregator is not the declared one, or its identity cannot be read.
MockRaises ==
  /\ at = "backend" /\ mode = "fake"
  /\ Answered(plan, FailedExecution(plan, TRUE))

AdapterResult(accepted) ==
  [accepted |-> accepted, reasons |-> reasons, execution |-> execution]

\* RuntimeAdapterResult is built: its execution is an ExecutionRecord, and
\* validate_outcome accepts it.
ResultAccepted(r) ==
  IF r.accepted
    THEN /\ r.execution # Nothing /\ r.reasons = {}
         /\ r.execution.form # "look_alike"
         /\ r.execution.mock = Mock
    ELSE r.execution = Nothing /\ r.reasons # {}

\* The recorder dumps the result as JSON and reads it again.
Dumped(r) == r.accepted => r.execution.form # "not_json"

\* Mutant: a record is numbered by the call it belongs to.
NextIndexByCall == calls - 1
NextIndex == Len(records)

\* The result, its copy in the recorder's list and another for the caller.
AdapterReturn ==
  /\ at = "return"
  /\ at' = "idle"
  /\ LET r == AdapterResult(reasons = {}) IN
       IF ResultAccepted(r) /\ Dumped(r)
         THEN /\ result' = r
              /\ records' = Append(records, [index |-> NextIndex, request |-> call,
                                             left |-> plan, result |-> r])
         ELSE UNCHANGED <<result, records>>
  /\ UNCHANGED <<mode, call, plan, backend, seen, reasons, execution, calls>>

\* The injected object is reconfigured, or tells another identity.
BackendChanges ==
  /\ backend' \in Backends \ {backend}
  /\ seen' = IF at = "idle" THEN seen ELSE seen \cup {backend'}
  /\ UNCHANGED <<mode, at, call, plan, reasons, execution, result, records, calls>>

AdapterWork ==
  \/ Preflight \/ IdentityRaises
  \/ BackendAnswers \/ BackendRaises \/ BackendSpoilsRequest
  \/ MockRuns \/ MockRaises \/ AdapterReturn

AdapterNext == Call \/ AdapterWork \/ BackendChanges

\* A call is sequential code and the backend returns or raises; nobody has to
\* make a call.
AdapterSpec == AdapterInit /\ [][AdapterNext]_adapterVars /\ WF_adapterVars(AdapterWork)

------------------------------------------------------------------------------
ResultType ==
  [accepted : BOOLEAN, reasons : SUBSET (CheckNames \cup IdentityNames),
   execution : Execution \cup {Nothing}]

\* The call, the evidence and the recorder's list keep their types; the list
\* is indexed without gaps, whatever calls raised.
TypeOK ==
  /\ mode \in Modes /\ at \in {"idle", "preflight", "backend", "return"}
  /\ call \in AdapterRequest \cup {Nothing}
  /\ plan \in Plan \cup {Nothing, Unreadable}
  /\ backend \in Backends /\ seen \subseteq Backends
  /\ reasons \in SUBSET (CheckNames \cup IdentityNames)
  /\ execution \in Execution \cup {Nothing} /\ result \in ResultType \cup {Nothing}
  /\ calls \in 0..MaxCalls /\ Len(records) <= calls
  /\ \A k \in DOMAIN records :
       /\ records[k].index = k - 1
       /\ records[k].request \in AdapterRequest /\ records[k].left \in Plan
       /\ records[k].result \in ResultType

\* Evidence that reaches the recorder fits the request as the backend left it:
\* its identifiers, the seeds of the roles of its team and, for a success, an
\* output with its own hash for each role of its order and a final output.  It
\* is mock exactly when the adapter is fake, and the mock runtime leaves the
\* caller's request alone; a backend that shortens the order it was handed
\* leaves roles out of a success.
SuccessIsWhole ==
  \A k \in DOMAIN records :
    LET e == records[k].result.execution
        left == records[k].left
    IN records[k].result.accepted =>
         /\ e.form = "record" /\ e.mock = Mock
         /\ e.id = left.id /\ e.seeds = Seeded(left)
         /\ e.succeeded => /\ e.final
                           /\ DOMAIN e.outputs = left.order
                           /\ e.hashes = e.outputs
         /\ Mock => /\ left = records[k].request.plan
                    /\ e.succeeded => DOMAIN e.outputs = left.roles

\* README: the preflight binds the aggregator and the backend identity before
\* any backend call.  A call is answered with evidence only when, since it
\* began, the injected object told the identity that binds it: a backend the
\* one the adapter was built with, a mock runtime's aggregator the one the
\* manifest names.  It may have become another one after it was asked.
EvidenceIsFreshlyBound ==
  result # Nothing /\ result.accepted =>
    /\ call.failing = {}
    /\ (IF Mock THEN call.aggregator ELSE "bound") \in seen
    /\ ~Mock => call.aggregator = "bound"

\* No evidence can be made of a request that was spoiled, and none is recorded
\* of an answer that is no ExecutionRecord or no JSON.
BeyondEvidence ==
  plan = Unreadable \/ (execution # Nothing /\ execution.form # "record")

\* A failure of the backend is evidence: a call that reached it comes to an end
\* with an accepted result, the last of the list, and raises only then.
BackendFailureIsEvidence ==
  \A n \in 1..MaxCalls :
    at = "backend" /\ calls = n ~>
      /\ at = "idle" /\ calls = n
      /\ IF BeyondEvidence
           THEN result = Nothing
           ELSE /\ result # Nothing /\ result.accepted
                /\ Len(records) > 0 /\ records[Len(records)].result = result
=============================================================================
