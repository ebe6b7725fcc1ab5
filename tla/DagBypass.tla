------------------------------ MODULE DagBypass ------------------------------
(***************************************************************************)
(* One call of DagBypassRunner.run: take one node out of a sequential DAG, *)
(* hand its upstream artifact to its downstream consumer, and execute      *)
(* again only the nodes whose inputs changed.                              *)
(*                                                                         *)
(* Every role has one output artifact, and a hash is the payload it        *)
(* identifies.  An input slot is <<role, input name>>; what the baseline   *)
(* trace recorded in it is data of its own, which need not be what its     *)
(* producer is recorded to have written, nor come from an earlier role.    *)
(* The aggregator and the node executor are injected code: a call may      *)
(* raise, tamper with its inputs, or answer anything, a value that cannot  *)
(* be copied or hashed included.                                           *)
(***************************************************************************)
EXTENDS Naturals, FiniteSets, Sequences

CONSTANTS
  Roles,      \* role ids of the team
  Order,      \* execution_order: every role once
  InputNames, \* names of the input slots
  Unknown,    \* an id that names no role of the team
  Malformed,  \* a target id the evidence cannot hold: empty, or not text
  Anyone,     \* the producer of an input whose contract names none
  Fields,     \* field names of the payloads
  Contents,   \* contents of a field
  Outputs,    \* aggregation results, one value per canonical hash
  NotJson,    \* results that json.dumps refuses
  NotText,    \* results that are JSON but cannot be encoded, so not hashed
  Answers,    \* payloads the node executor may answer
  Requests    \* the argument combinations the runner is called with

Authorities == {"advisory", "veto", "final"}
Pairs == Roles \X Roles
Slots == Roles \X InputNames
Versions == {"current", "new", "empty"}
FieldMaps == UNION {[F -> Fields] : F \in SUBSET Fields}
Payload == UNION {[F -> Contents] : F \in SUBSET Fields}

FlagNames ==
  {"baseline_record_valid", "trace_matches", "aggregator_identity_valid",
   "executor_identity_valid", "manifest_matches", "sequential_dag",
   "strategy_predeclared", "same_aggregation_protocol",
   "variable_arity_aggregation",
   "target_not_irreversible", "target_not_security_gate",
   "artifact_known", "semantic_type_compatible",
   "format_compatible", "schema_compatible", "required_fields_declared",
   "visibility_allows_read", "no_coverage_gap", "no_joint_intervention",
   "contract_topology_sufficient"}

Rule == [target : Roles, upstream : Roles, downstream : Roles,
         input : InputNames, mapping : FieldMaps]

\* An input artifact of the trace: "output" is the name of the one artifact
\* its producer writes, "other" any name it does not.
Artifact == [producer : Roles \cup {Unknown}, artifact : {"output", "other"},
             payload : Payload]

(***************************************************************************)
(* Arguments.  edges and optionalEdges are <<source, consumer>> pairs;     *)
(* contract gives the producer each declared input slot names, inputs what *)
(* the baseline trace recorded in the slots it has.                        *)
(***************************************************************************)
Request(declared, recorded) ==
  [target : Roles \cup {Unknown, Malformed},
   version : Versions,
   flags : SUBSET FlagNames,
   rules : SUBSET Rule,
   edges : SUBSET Pairs,
   optionalEdges : SUBSET Pairs,
   contract : [declared -> Roles \cup {Anyone}],
   optional : SUBSET Slots,
   inputs : [recorded -> Artifact],
   authority : [Roles -> Authorities],
   nonRemovable : SUBSET Roles,
   fields : [Roles -> SUBSET Fields],  \* required_fields of each output
   needs : SUBSET Fields,              \* required_fields of downstream_input
   payload : [Roles -> Payload],       \* outputs recorded in the baseline
   final : Outputs]

Before(x, y) ==
  \E i, j \in DOMAIN Order : i < j /\ Order[i] = x /\ Order[j] = y

ASSUME OrderAssumption ==
  /\ Order \in Seq(Roles)
  /\ Len(Order) = Cardinality(Roles)
  /\ {Order[i] : i \in DOMAIN Order} = Roles
\* A payload is a JSON object: it has finitely many fields.
ASSUME FieldsAssumption == IsFiniteSet(Fields)
ASSUME AnswersAssumption == Answers \subseteq Payload
ASSUME UnknownAssumption ==
  Unknown \notin Roles /\ Malformed \notin Roles /\ Anyone \notin Roles
\* RemovalProtocol refuses the bypass strategy without a rule.
ASSUME RequestsAssumption ==
  /\ \A r \in Requests :
       /\ DOMAIN r.contract \subseteq Slots /\ DOMAIN r.inputs \subseteq Slots
       /\ r \in Request(DOMAIN r.contract, DOMAIN r.inputs)
  /\ \A r \in Requests : "strategy_predeclared" \in r.flags => r.rules # {}

PostChecks ==
  {"replayable_aggregation", "execution_succeeded", "same_role_seeds",
   "target_not_executed", "unchanged_inputs_reused",
   "counterfactual_aggregation_succeeded"}
Claims == {"same_role_seeds", "target_not_executed", "unchanged_inputs_reused"}

Kinds == {"baseline", "replay", "counterfactual"}

VARIABLES
  req,      \* the arguments of this call
  pc,       \* where the call stands
  next,     \* index in Order of the node to visit
  nodes,    \* DagNodeExecution of the nodes visited, by role
  mapping,  \* field_mapping_safe after the payload itself was mapped
  post,     \* the checks that are None until they are run
  snap,     \* the aggregation snapshots taken so far, by kind
  action,   \* InterventionRecord.action, "none" before the return
  version,  \* InterventionRecord.output_team_version
  removed,  \* DagBypassRecord.removed_role_ids
  raisedBy  \* what made the call raise, "none" while it has not

vars == <<req, pc, next, nodes, mapping, post, snap, action, version, removed,
          raisedBy>>

------------------------------------------------------------------------------
(* The checks made before anything runs.                                   *)

Flag(r, name) == name \in r.flags
Retained(r) == Roles \ {r.target}
RulesFor(r) == {u \in r.rules : u.target = r.target}
HasRule(r) == Cardinality(RulesFor(r)) = 1
RuleOf(r) == CHOOSE u \in RulesFor(r) : TRUE

Required(r) == DOMAIN r.contract \ r.optional

\* The slot that takes the bypassed artifact.
BypassSlot(r) == <<RuleOf(r).downstream, RuleOf(r).input>>

\* downstream_input names a required input of the downstream role.
HasDownstreamInput(r) == HasRule(r) /\ BypassSlot(r) \in Required(r)

UpstreamEdge(r) ==
  /\ HasRule(r) /\ Flag(r, "artifact_known")
  /\ <<RuleOf(r).upstream, r.target>> \in r.edges

DownstreamEdge(r) ==
  /\ HasDownstreamInput(r) /\ r.contract[BypassSlot(r)] = r.target
  /\ <<r.target, RuleOf(r).downstream>> \in r.edges

AllEdges(r) == r.edges \cup r.optionalEdges

\* One way into the target and one way out, as far as the edges, the target's
\* own inputs and the required inputs of the downstream role tell.
SingleBypassPath(r) ==
  /\ UpstreamEdge(r) /\ DownstreamEdge(r)
  /\ Cardinality({e \in AllEdges(r) : e[2] = r.target}) = 1
  /\ Cardinality({e \in AllEdges(r) : e[1] = r.target}) = 1
  /\ \E own \in Required(r) :
       /\ {slot \in DOMAIN r.contract : slot[1] = r.target} = {own}
       /\ r.contract[own] = RuleOf(r).upstream
  /\ {slot \in Required(r) :
        slot[1] = RuleOf(r).downstream /\ r.contract[slot] = r.target} = {BypassSlot(r)}

TopologicalOrderValid(r) == \A e \in r.edges : Before(e[1], e[2])

\* The recorded nodes carry the fields their contracts require, and the
\* inputs their contracts know, from the producers these name.  Neither the
\* name of a recorded input nor its payload is compared with what its
\* producer wrote.
TraceValid(r) ==
  /\ Flag(r, "trace_matches")
  /\ \A role \in Roles : r.fields[role] \subseteq DOMAIN r.payload[role]
  /\ Required(r) \subseteq DOMAIN r.inputs
  /\ DOMAIN r.inputs \subseteq DOMAIN r.contract
  /\ \A slot \in DOMAIN r.inputs :
       r.contract[slot] # Anyone => r.inputs[slot].producer = r.contract[slot]
  /\ HasRule(r) /\ BypassSlot(r) \in DOMAIN r.inputs =>
       r.needs \subseteq DOMAIN r.inputs[BypassSlot(r)].payload

UniqueFinalOrVeto(r) ==
  /\ r.target \in Roles
  /\ r.authority[r.target] \in {"final", "veto"}
  /\ \A role \in Retained(r) : r.authority[role] # r.authority[r.target]

Renamed(m, field) == IF field \in DOMAIN m THEN m[field] ELSE field
Injective(m) == \A f, g \in DOMAIN m : m[f] = m[g] => f = g
Targets(m) == {m[f] : f \in DOMAIN m}

DeclaredMappingSafe(r) ==
  (HasRule(r) /\ RuleOf(r).mapping # <<>>) =>
    /\ HasDownstreamInput(r) /\ Flag(r, "artifact_known")
    /\ Flag(r, "required_fields_declared")
    /\ Injective(RuleOf(r).mapping)
    /\ DOMAIN RuleOf(r).mapping \subseteq r.fields[RuleOf(r).upstream]
    /\ Targets(RuleOf(r).mapping) \subseteq r.needs

RequiredFieldsAvailable(r) ==
  /\ HasDownstreamInput(r) /\ Flag(r, "artifact_known")
  /\ Flag(r, "required_fields_declared")
  /\ r.needs \subseteq {Renamed(RuleOf(r).mapping, f) : f \in r.fields[RuleOf(r).upstream]}

Ends(r) == HasDownstreamInput(r) /\ Flag(r, "artifact_known")

\* By the names of DagBypassSafetyReport; no_compensation is fixed to true by
\* the schema of the removal protocol.  An identity that cannot be read is
\* replaced by a placeholder no manifest and no protocol names.
Preflight(r) ==
  [baseline_record_valid |-> Flag(r, "baseline_record_valid"),
   baseline_trace_valid |-> TraceValid(r),
   aggregator_identity_valid |-> Flag(r, "aggregator_identity_valid"),
   executor_identity_valid |-> Flag(r, "executor_identity_valid"),
   manifest_matches |->
     {"manifest_matches", "aggregator_identity_valid", "executor_identity_valid"}
       \subseteq r.flags,
   sequential_dag |-> Flag(r, "sequential_dag"),
   topological_order_valid |-> TopologicalOrderValid(r),
   strategy_predeclared |-> Flag(r, "strategy_predeclared"),
   single_registered_rule |-> HasRule(r),
   single_bypass_path |-> SingleBypassPath(r),
   same_aggregation_protocol |->
     {"same_aggregation_protocol", "aggregator_identity_valid"} \subseteq r.flags,
   variable_arity_aggregation |-> Flag(r, "variable_arity_aggregation"),
   new_team_version |-> r.version # "current",
   target_exists |-> r.target \in Roles,
   target_not_non_removable |-> r.target \notin r.nonRemovable,
   target_not_final_or_unique_veto |-> ~UniqueFinalOrVeto(r),
   target_not_irreversible |-> Flag(r, "target_not_irreversible"),
   target_not_security_gate |-> Flag(r, "target_not_security_gate"),
   upstream_edge_exists |-> UpstreamEdge(r),
   downstream_edge_exists |-> DownstreamEdge(r),
   semantic_type_compatible |-> Ends(r) /\ Flag(r, "semantic_type_compatible"),
   format_compatible |-> Ends(r) /\ Flag(r, "format_compatible"),
   schema_compatible |-> Ends(r) /\ Flag(r, "schema_compatible"),
   required_fields_available |-> RequiredFieldsAvailable(r),
   visibility_allows_read |-> HasRule(r) /\ Flag(r, "visibility_allows_read"),
   field_mapping_safe |-> DeclaredMappingSafe(r),
   no_coverage_gap |-> Flag(r, "no_coverage_gap"),
   no_joint_intervention |-> Flag(r, "no_joint_intervention"),
   contract_topology_sufficient |-> Flag(r, "contract_topology_sufficient")]

FailedPreflight(r) ==
  LET checks == Preflight(r) IN {c \in DOMAIN checks : ~checks[c]}

FailedChecks ==
  FailedPreflight(req)
    \cup {c \in PostChecks : post[c] = "fail"}
    \cup {c \in {"field_mapping_safe"} : mapping = "fail"}
NotRunChecks == {c \in PostChecks : post[c] = "not_run"}
Valid == FailedChecks = {} /\ NotRunChecks = {}

------------------------------------------------------------------------------
(* The bypass.                                                             *)

\* _map_payload returns a payload: no renamed field lands on another one.
Mappable(p, m) ==
  m = <<>> \/ /\ Injective(m)
              /\ DOMAIN m \subseteq DOMAIN p
              /\ (DOMAIN p \ DOMAIN m) \cap Targets(m) = {}

Mapped(p, m) ==
  [g \in {Renamed(m, f) : f \in DOMAIN p} |->
     p[CHOOSE f \in DOMAIN p : Renamed(m, f) = g]]

UpstreamPayload == req.payload[RuleOf(req).upstream]
Bypassed == Mapped(UpstreamPayload, RuleOf(req).mapping)

NamesOf(role) == {n \in InputNames : <<role, n>> \in DOMAIN req.inputs}
BaselineInputs(role) == [n \in NamesOf(role) |-> req.inputs[<<role, n>>].payload]

\* Mutant: the outputs of re-executed producers are not handed on.
CounterfactualInputsStale(role) ==
  [n \in NamesOf(role) |->
     IF <<role, n>> = BypassSlot(req) THEN Bypassed
     ELSE req.inputs[<<role, n>>].payload]

\* The baseline's inputs, with the artifacts the nodes visited so far wrote in
\* place of the recorded ones of the same producer and name, and the bypassed
\* artifact in the downstream role's slot.
CounterfactualInputs(role) ==
  [n \in NamesOf(role) |->
     LET recorded == req.inputs[<<role, n>>] IN
     IF <<role, n>> = BypassSlot(req) THEN Bypassed
     ELSE IF recorded.artifact = "output" /\ recorded.producer \in DOMAIN nodes
       THEN nodes[recorded.producer].output
     ELSE recorded.payload]

\* Mutant: every node is executed again.
ChangedAlways(role) == TRUE

Changed(role) == CounterfactualInputs(role) # BaselineInputs(role)
Visits(role) == role # req.target

Reexecuted == {role \in DOMAIN nodes : ~nodes[role].reused}

WithNode(role, output, reused) ==
  [r \in DOMAIN nodes \cup {role} |->
     IF r = role
       THEN [inputs |-> CounterfactualInputs(role), output |-> output,
             reused |-> reused]
       ELSE nodes[r]]

WithSnapshot(kind, hashes, final) ==
  [k \in DOMAIN snap \cup {kind} |->
     IF k = kind THEN [hashes |-> hashes, final |-> final] ELSE snap[k]]

NodeOutputs == [role \in DOMAIN nodes |-> nodes[role].output]

\* A node of the executor's answer is kept when it has the required fields.
AnswerAccepted(role, answer) == req.fields[role] \subseteq DOMAIN answer

\* Mutant: a call whose replay disagrees starts again.
AfterReplayRetried(agrees) == IF agrees THEN "map" ELSE "preflight"
AfterReplay(agrees) == IF agrees THEN "map" ELSE "summary"

\* The checks once the execution is over: three of them are set, not checked.
AfterExecution(outcome) ==
  [c \in PostChecks |->
     IF c = "execution_succeeded" THEN outcome
     ELSE IF c \in Claims THEN "pass" ELSE post[c]]

------------------------------------------------------------------------------
(* The constructors of the report and of the two records.                  *)

ReportAccepted == ~Valid => FailedChecks # {}

\* Mutant: nothing was removed unless the call is a REMOVE of a re-executed node.
RemovedRolesIfRerun == IF Reexecuted # {} THEN {req.target} ELSE {}
RemovedRoles == IF DOMAIN nodes # {} THEN {req.target} ELSE {}

\* Mutant: the new version whenever the bypass was attempted.
EffectiveVersionAttempted == IF DOMAIN nodes # {} THEN "output" ELSE "input"
EffectiveVersion == IF Valid THEN "output" ELSE "input"

\* Both records hold a target and an output version that are not empty.
IdsAccepted ==
  /\ req.target # Malformed
  /\ EffectiveVersion = "output" => req.version # "empty"

RecordAccepted ==
  /\ IdsAccepted
  /\ req.target \notin DOMAIN nodes
  /\ Valid =>
       /\ DOMAIN snap = Kinds
       /\ DOMAIN nodes = Retained(req)
       /\ RemovedRoles = {req.target}
       /\ RuleOf(req).input \in DOMAIN nodes[RuleOf(req).downstream].inputs
       /\ nodes[RuleOf(req).downstream].inputs[RuleOf(req).input] = Bypassed
       /\ DOMAIN snap["baseline"].hashes = Roles
       /\ snap["replay"] = snap["baseline"]
       /\ snap["counterfactual"].hashes = NodeOutputs

InterventionAccepted ==
  /\ IdsAccepted
  /\ Valid => {"no_joint_intervention", "no_coverage_gap"} \subseteq req.flags

------------------------------------------------------------------------------
Init ==
  /\ req \in Requests
  /\ pc = "preflight"
  /\ next = 1
  /\ nodes = <<>>
  /\ mapping = "not_run"
  /\ post = [c \in PostChecks |-> "not_run"]
  /\ snap = <<>>
  /\ action = "none"
  /\ version = "input"
  /\ removed = {}
  /\ raisedBy = "none"

Undecided == UNCHANGED <<req, action, version, removed, raisedBy>>

Raise(why) ==
  /\ pc' = "raised"
  /\ raisedBy' = why
  /\ UNCHANGED <<req, next, nodes, mapping, post, snap, action, version, removed>>

\* Every read of an injected object is guarded; a failed check abstains.  The
\* recorded result is copied and hashed outside any try.
RunPreflight ==
  /\ pc = "preflight"
  /\ \/ /\ FailedPreflight(req) # {}
        /\ pc' = "summary"
        /\ UNCHANGED <<next, nodes, mapping, post, snap>>
        /\ Undecided
     \/ /\ FailedPreflight(req) = {}
        /\ req.final \notin NotJson \cup NotText
        /\ pc' = "replay"
        /\ snap' = WithSnapshot("baseline", req.payload, req.final)
        /\ UNCHANGED <<next, nodes, mapping, post>>
        /\ Undecided
     \/ /\ FailedPreflight(req) = {}
        /\ req.final \in NotJson \cup NotText
        /\ Raise("baseline")

Replayed(final) ==
  LET agrees == final = req.final IN
  /\ snap' = WithSnapshot("replay", req.payload, final)
  /\ post' = [post EXCEPT !["replayable_aggregation"] =
                IF agrees THEN "pass" ELSE "fail"]
  /\ pc' = AfterReplay(agrees)
  /\ UNCHANGED <<next, nodes, mapping>>
  /\ Undecided

\* The aggregator answers the recorded responses of every role.  The copy of
\* its answer is hashed outside the try.
Replay ==
  /\ pc = "replay"
  /\ \E final \in Outputs \ NotJson :
       IF final \in NotText THEN Raise("answer") ELSE Replayed(final)

\* The recorded upstream payload itself is mapped: the declared fields said
\* nothing of the others it carries.
MapArtifact ==
  /\ pc = "map"
  /\ IF /\ Mappable(UpstreamPayload, RuleOf(req).mapping)
        /\ req.needs \subseteq DOMAIN Bypassed
       THEN mapping' = "pass" /\ pc' = "execute"
       ELSE mapping' = "fail" /\ pc' = "summary"
  /\ UNCHANGED <<next, nodes, post, snap>>
  /\ Undecided

SkipTarget ==
  /\ pc = "execute" /\ next <= Len(Order)
  /\ ~Visits(Order[next])
  /\ next' = next + 1
  /\ UNCHANGED <<pc, nodes, mapping, post, snap>>
  /\ Undecided

ReuseNode ==
  /\ pc = "execute" /\ next <= Len(Order)
  /\ Visits(Order[next]) /\ ~Changed(Order[next])
  /\ nodes' = WithNode(Order[next], req.payload[Order[next]], TRUE)
  /\ next' = next + 1
  /\ UNCHANGED <<pc, mapping, post, snap>>
  /\ Undecided

\* The executor answers; an answer without the required fields ends the attempt.
ExecuteNode ==
  /\ pc = "execute" /\ next <= Len(Order)
  /\ Visits(Order[next]) /\ Changed(Order[next])
  /\ \E answer \in Answers :
       IF AnswerAccepted(Order[next], answer)
         THEN /\ nodes' = WithNode(Order[next], answer, FALSE)
              /\ next' = next + 1
              /\ UNCHANGED <<pc, post>>
         ELSE /\ post' = AfterExecution("fail")
              /\ pc' = "summary"
              /\ UNCHANGED <<next, nodes>>
  /\ UNCHANGED <<mapping, snap>>
  /\ Undecided

\* The executor raises, rewrites its inputs, or answers other artifacts.
ExecutorFails ==
  /\ pc = "execute" /\ next <= Len(Order)
  /\ Visits(Order[next]) /\ Changed(Order[next])
  /\ post' = AfterExecution("fail")
  /\ pc' = "summary"
  /\ UNCHANGED <<next, nodes, mapping, snap>>
  /\ Undecided

CompleteTrace ==
  /\ pc = "execute" /\ next > Len(Order)
  /\ post' = AfterExecution("pass")
  /\ pc' = "aggregate"
  /\ UNCHANGED <<next, nodes, mapping, snap>>
  /\ Undecided

Aggregated(final) ==
  /\ snap' = WithSnapshot("counterfactual", NodeOutputs, final)
  /\ post' = [post EXCEPT !["counterfactual_aggregation_succeeded"] = "pass"]
  /\ pc' = "summary"
  /\ UNCHANGED <<next, nodes, mapping>>
  /\ Undecided

\* The aggregator answers the counterfactual outputs.
Aggregate ==
  /\ pc = "aggregate"
  /\ \E final \in Outputs \ NotJson :
       IF final \in NotText THEN Raise("answer") ELSE Aggregated(final)

\* The aggregator raises, rewrites the responses, or answers what json.dumps
\* refuses: no snapshot.
AggregatorFails ==
  /\ pc \in {"replay", "aggregate"}
  /\ post' = [post EXCEPT ![IF pc = "replay" THEN "replayable_aggregation"
                            ELSE "counterfactual_aggregation_succeeded"] = "fail"]
  /\ pc' = "summary"
  /\ UNCHANGED <<next, nodes, mapping, snap>>
  /\ Undecided

Return ==
  /\ pc' = "returned"
  /\ action' = IF Valid THEN "REMOVE" ELSE "KEEP"
  /\ version' = EffectiveVersion
  /\ removed' = RemovedRoles
  /\ UNCHANGED <<req, next, nodes, mapping, post, snap, raisedBy>>

\* The report, the two records, and the return; a constructor that refuses
\* its arguments raises, which run does not catch.
Summarise ==
  /\ pc = "summary"
  /\ IF ReportAccepted /\ RecordAccepted /\ InterventionAccepted
       THEN Return
       ELSE Raise("validation")

Next ==
  \/ RunPreflight
  \/ Replay
  \/ MapArtifact
  \/ SkipTarget
  \/ ReuseNode
  \/ ExecuteNode
  \/ ExecutorFails
  \/ CompleteTrace
  \/ Aggregate
  \/ AggregatorFails
  \/ Summarise

\* One call is sequential code that never blocks: it keeps taking steps.
Spec == Init /\ [][Next]_vars /\ WF_vars(Next)

------------------------------------------------------------------------------
\* The recorded input is the artifact its producer writes, and the producer
\* is visited before the consumer: what it writes in this run is handed on.
Linked(slot) ==
  LET recorded == req.inputs[slot] IN
  recorded.artifact = "output" /\ Before(recorded.producer, slot[1])

\* Roles whose recorded input is not what the trace says its producer wrote.
\* The trace is accepted all the same.
Seams ==
  {role \in Roles :
     \E n \in NamesOf(role) :
       LET recorded == req.inputs[<<role, n>>] IN
       /\ Linked(<<role, n>>) /\ recorded.producer # req.target
       /\ recorded.payload # req.payload[recorded.producer]}

\* A REMOVE is one counterfactual run: every retained node is in it, each read
\* what its retained producers wrote in that same run, the downstream node
\* read the upstream payload with nothing but names changed, and the final
\* answer is that of these outputs.  (README, "Controlled sequential DAG
\* bypass".)  An input recorded under a name its producer does not write, or
\* from a later role, is not Linked and stays as recorded; and the upstream
\* payload is the one this run produced when the trace has no seam.
RemoveIsOneCounterfactualRun ==
  action = "REMOVE" =>
    LET rule == RuleOf(req) IN
    /\ DOMAIN nodes = Roles \ {req.target}
    /\ \A slot \in DOMAIN req.inputs :
         LET producer == req.inputs[slot].producer IN
         /\ slot[1] # req.target /\ producer # req.target
         /\ Linked(slot)
         => nodes[slot[1]].inputs[slot[2]] = nodes[producer].output
    /\ Seams = {} =>
         nodes[rule.upstream].output = req.payload[rule.upstream]
    /\ LET got == nodes[rule.downstream].inputs[rule.input] IN
       /\ req.needs \subseteq DOMAIN got
       /\ \A f \in DOMAIN UpstreamPayload :
            got[Renamed(rule.mapping, f)] = UpstreamPayload[f]
       /\ Cardinality(DOMAIN got) = Cardinality(DOMAIN UpstreamPayload)
    /\ snap["counterfactual"].hashes = [role \in Roles \ {req.target} |-> nodes[role].output]

\* The nodes downstream of the bypass and of the seams of the trace, by way
\* of the recorded inputs.
Closure ==
  {role \in Roles :
     \A S \in SUBSET Roles :
       (/\ {RuleOf(req).downstream} \cup Seams \subseteq S
        /\ \A slot \in DOMAIN req.inputs :
             Linked(slot) /\ req.inputs[slot].producer \in S => slot[1] \in S)
       => role \in S}

\* Whatever the outcome, only nodes of the downstream closure whose inputs
\* changed were executed, every other visited node stands for its baseline
\* output, and nothing ran before the replay agreed.  The report sets
\* unchanged_inputs_reused and target_not_executed without checking them.
\* The README's "only the changed-input downstream closure" is this with no
\* seams: of a trace that has one, the code also executes what lies below it.
OnlyChangedClosureRuns ==
  DOMAIN nodes # {} =>
    /\ post["replayable_aggregation"] = "pass" /\ mapping = "pass"
    /\ req.target \notin DOMAIN nodes
    /\ \A role \in DOMAIN nodes :
         IF nodes[role].reused
           THEN /\ nodes[role].inputs = BaselineInputs(role)
                /\ nodes[role].output = req.payload[role]
           ELSE /\ nodes[role].inputs # BaselineInputs(role)
                /\ role \in Closure

\* The arguments with which the evidence itself is refused.
UnfitArguments ==
  \/ req.target = Malformed
  \/ req.version = "empty" /\ Valid

\* Whatever the checks let through and the injected code answers, the report
\* and the two records are ones their own schemas accept, and the recorded
\* result is one the snapshot can hold: the call dies on its own evidence for
\* no arguments but an empty target, an empty version of a valid removal, and
\* a recorded result that cannot be copied and hashed.
OnlyUnfitArgumentsRaise ==
  /\ raisedBy = "validation" => UnfitArguments
  /\ raisedBy = "baseline" => req.final \in NotJson \cup NotText

\* Every call answers with an intervention, or raises on an answer of the
\* aggregator that cannot be hashed or on the arguments above: every read of
\* injected code is guarded.
EveryCallDecides ==
  <>(\/ action # "none"
     \/ raisedBy = "answer"
     \/ raisedBy = "baseline" /\ req.final \in NotJson \cup NotText
     \/ raisedBy = "validation" /\ UnfitArguments)

\* INTERVENTION_PROTOCOL.md, section 6: the only producer of an artifact some
\* downstream role requires is not removable unless that role is bypassed, so
\* after a REMOVE no other retained role still requires the target's artifact.
NoRetainedRoleNeedsTheTarget ==
  action = "REMOVE" =>
    \A slot \in Required(req) :
      slot[1] # req.target /\ req.contract[slot] = req.target =>
        slot = BypassSlot(req)

(***************************************************************************)
(* The refinement: the snapshots are the evidence, and a replay counts as  *)
(* evidence when it agrees with the baseline.                              *)
(***************************************************************************)
Evidence ==
  {e \in {"baseline", "agreeing_replay", "counterfactual"} :
     \/ e = "baseline" /\ "baseline" \in DOMAIN snap
     \/ e = "agreeing_replay" /\ post["replayable_aggregation"] = "pass"
     \/ e = "counterfactual" /\ "counterfactual" \in DOMAIN snap}

Promise == INSTANCE Intervention WITH
  decision <- IF action = "none" THEN "undecided" ELSE action,
  evidence <- Evidence

\* The bypass keeps the same promise as the parallel removal.
KeepsThePromise == Promise!Spec
=============================================================================
