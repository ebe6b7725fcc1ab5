--------------------------- MODULE ParallelRemoval ---------------------------
(***************************************************************************)
(* One call of ParallelRemovalRunner.run: drop the frozen response of one  *)
(* role and aggregate the others again.                                    *)
(*                                                                         *)
(* The caller's arguments are one record of Requests.  The aggregator is   *)
(* injected code: reading its identity or its arity may raise, its arity   *)
(* may be no boolean, and a call may raise, rewrite the responses it was   *)
(* handed, or answer anything: a value that is not JSON, or text that has  *)
(* no UTF-8 form (a lone surrogate) and so no canonical hash.              *)
(***************************************************************************)
EXTENDS Naturals, FiniteSets

CONSTANTS
  Roles,      \* role ids of the team (execution_order lists each once)
  Unknown,    \* a target id that names no role of the team
  Malformed,  \* a target id the evidence cannot hold: empty, or not text
  Values,     \* role outputs, one value per canonical hash
  Outputs,    \* aggregation results, one value per canonical hash
  NotJson,    \* results that json.dumps refuses
  NotText,    \* results that are JSON but cannot be encoded, so not hashed
  Signatures, \* output signatures (semantic type, format, schema, fields)
  Requests    \* the argument combinations the runner is called with

Authorities == {"advisory", "veto", "final"}

(***************************************************************************)
(* Arguments.  "flags" holds the comparisons of two recorded identities    *)
(* that succeed; the relations of the team are kept as sets of pairs       *)
(* <<consumer, producer>> (edges: <<source, target>>, required ones only). *)
(***************************************************************************)
FlagNames ==
  {"baseline_succeeded", "baseline_ids_match", "manifest_matches",
   "parallel_protocol", "strategy_predeclared", "frozen_other_responses",
   "same_aggregation_protocol", "no_coverage_gap",
   "no_joint_intervention", "contract_topology_sufficient"}

\* output_team_version against the team's own: the same text, another one,
\* or the empty string, which differs from every version.
Versions == {"current", "new", "empty"}

\* accepts_variable_responses: a boolean, a value the schema of the report
\* reads as True (1, "yes"), or any other one.
Arities == {"true", "false", "truthy", "other"}

Request ==
  [target : Roles \cup {Unknown, Malformed},
   version : Versions,
   arity : Arities,
   flags : SUBSET FlagNames,
   edges : SUBSET (Roles \X Roles),
   upstream : SUBSET (Roles \X Roles),
   inputs : SUBSET (Roles \X Roles),
   authority : [Roles -> Authorities],
   signature : [Roles -> Signatures],
   coupled : SUBSET Roles,
   nonRemovable : SUBSET Roles,
   outputs : [Roles -> Values],
   hashes : [Roles -> Values],
   final : Outputs]

ASSUME RequestsAssumption == Requests \subseteq Request
\* RemovalProtocol refuses a parallel strategy without frozen responses.
ASSUME ProtocolAssumption ==
  \A r \in Requests :
    "strategy_predeclared" \in r.flags => "frozen_other_responses" \in r.flags
ASSUME UnknownAssumption == Unknown \notin Roles /\ Malformed \notin Roles

PostChecks ==
  {"replayable_aggregation", "other_responses_frozen",
   "removal_aggregation_succeeded"}

Kinds == {"baseline", "replay", "removal"}

\* An AggregationSnapshot: the hashes of the aggregated responses, by role,
\* and the result.  The order of the roles is that of the team.
Snapshot == [hashes : UNION {[S -> Values] : S \in SUBSET Roles},
             final : Outputs]

VARIABLES
  req,      \* the arguments of this call
  pc,       \* where the call stands
  post,     \* the three checks that are None until they are run
  snap,     \* the snapshots taken so far, by kind
  action,   \* InterventionRecord.action, "none" before the return
  version,  \* InterventionRecord.output_team_version
  reused,   \* ParallelRemovalRecord.reused_role_ids
  reasons,  \* InterventionRecord.reason: the failed checks
  raisedBy  \* what made the call raise, "none" while it has not

vars == <<req, pc, post, snap, action, version, reused, reasons, raisedBy>>

------------------------------------------------------------------------------
Retained(r) == Roles \ {r.target}

\* The dependencies of other roles on the target, and the required edges
\* that touch it in either direction.
TargetEdges(r) == {e \in r.edges : r.target \in {e[1], e[2]}}
ConsumersOfTarget(r) == {d \in r.upstream \cup r.inputs : d[2] = r.target}

\* Mutant: the recorded hashes are trusted.
BaselineValidUnhashed(r) ==
  {"baseline_succeeded", "baseline_ids_match"} \subseteq r.flags

BaselineValid(r) ==
  /\ {"baseline_succeeded", "baseline_ids_match"} \subseteq r.flags
  /\ \A role \in Roles : r.outputs[role] = r.hashes[role]

UniqueFinalOrVeto(r) ==
  /\ r.target \in Roles
  /\ r.authority[r.target] \in {"final", "veto"}
  /\ \A role \in Roles \ {r.target} : r.authority[role] # r.authority[r.target]

Homogeneous(r) ==
  /\ r.target \in Roles
  /\ Retained(r) # {}
  /\ \A a, b \in Roles : r.signature[a] = r.signature[b]

\* The checks made before anything runs, by the name the report gives them.
\* no_compensation and no_roles_reexecuted are left out: the schema of the
\* removal protocol and the code fix both to true.
Preflight(r) ==
  [baseline_record_valid |-> BaselineValid(r),
   manifest_matches |-> "manifest_matches" \in r.flags,
   parallel_protocol |-> "parallel_protocol" \in r.flags,
   strategy_predeclared |-> "strategy_predeclared" \in r.flags,
   frozen_other_responses |-> "frozen_other_responses" \in r.flags,
   same_aggregation_protocol |-> "same_aggregation_protocol" \in r.flags,
   new_team_version |-> r.version # "current",
   target_exists |-> r.target \in Roles,
   target_not_non_removable |-> r.target \notin r.nonRemovable,
   target_not_final_or_unique_veto |-> ~UniqueFinalOrVeto(r),
   independent_execution |-> r.coupled = {},
   no_required_target_dependency |->
     TargetEdges(r) = {} /\ ConsumersOfTarget(r) = {},
   no_exclusive_required_artifact |->
     {e \in TargetEdges(r) : e[1] = r.target} = {} /\ ConsumersOfTarget(r) = {},
   homogeneous_responses |-> Homogeneous(r),
   nonempty_retained_responses |-> Retained(r) # {},
   variable_arity_aggregation |-> r.arity = "true",
   no_coverage_gap |-> "no_coverage_gap" \in r.flags,
   no_joint_intervention |-> "no_joint_intervention" \in r.flags,
   contract_topology_sufficient |-> "contract_topology_sufficient" \in r.flags]

Passes(r) == \A c \in DOMAIN Preflight(r) : Preflight(r)[c]

\* A check is failed when it "is False": an arity that is no boolean has
\* neither passed nor failed.
Undetermined(r) ==
  IF r.arity \in {"truthy", "other"} THEN {"variable_arity_aggregation"} ELSE {}
FailedPreflight(r) ==
  {c \in DOMAIN Preflight(r) : ~Preflight(r)[c]} \ Undetermined(r)
FailedChecks == FailedPreflight(req) \cup {c \in PostChecks : post[c] = "fail"}
Valid == Passes(req) /\ \A c \in PostChecks : post[c] = "pass"

\* snap extended with a snapshot of one kind.
WithSnapshot(kind, hashes, final) ==
  [k \in DOMAIN snap \cup {kind} |->
     IF k = kind THEN [hashes |-> hashes, final |-> final] ELSE snap[k]]

HashesOf(ids) == [role \in ids |-> req.hashes[role]]

\* The aggregator left every response as it got it.
Unmutated(written) == \A role \in DOMAIN written : written[role] = req.hashes[role]

\* The answer becomes a snapshot: no response was rewritten and the answer
\* has a JSON copy.
Copied(written, final) == Unmutated(written) /\ final \notin NotJson

\* The copy cannot be hashed, and it is hashed outside the try.
Unhashed(written, final) == Copied(written, final) /\ final \in NotText

ReplayAgrees(final) == final = snap["baseline"].final

\* Mutant: a call whose replay disagrees starts again.
AfterReplayRetried(agrees) == IF agrees THEN "removal" ELSE "preflight"

AfterReplay(agrees) == IF agrees THEN "removal" ELSE "summary"

\* Mutants: the new version whatever was decided, and every role reused.
EffectiveVersionAlways == "output"
ReusedRolesAll == IF Valid THEN Roles ELSE {}

EffectiveVersion == IF Valid THEN "output" ELSE "input"
ReusedRoles == IF Valid THEN Retained(req) ELSE {}

------------------------------------------------------------------------------
(* The constructors of the report and of the two records.                  *)

\* The report's field for the arity is a bool, and a report that is not
\* valid needs a failed check.
ReportAccepted == req.arity # "other" /\ (~Valid => FailedChecks # {})

\* Both records hold a target and an output version that are not empty.
IdsAccepted ==
  /\ req.target # Malformed
  /\ EffectiveVersion = "output" => req.version # "empty"

RecordAccepted ==
  /\ IdsAccepted
  /\ Valid =>
       /\ DOMAIN snap = Kinds
       /\ snap["replay"].hashes = snap["baseline"].hashes
       /\ snap["replay"].final = snap["baseline"].final
       /\ snap["removal"].hashes =
            [role \in DOMAIN snap["baseline"].hashes \ {req.target} |->
               snap["baseline"].hashes[role]]
       /\ ReusedRoles = DOMAIN snap["baseline"].hashes \ {req.target}

InterventionAccepted ==
  /\ IdsAccepted
  /\ Valid => {"no_joint_intervention", "no_coverage_gap"} \subseteq req.flags

------------------------------------------------------------------------------
Init ==
  /\ req \in Requests
  /\ pc = "identity"
  /\ post = [c \in PostChecks |-> "not_run"]
  /\ snap = [k \in {} |-> [hashes |-> req.hashes, final |-> req.final]]
  /\ action = "none"
  /\ version = "input"
  /\ reused = {}
  /\ reasons = {}
  /\ raisedBy = "none"

Undecided == UNCHANGED <<action, version, reused, reasons>>

Raise(why) ==
  /\ pc' = "raised"
  /\ raisedBy' = why
  /\ UNCHANGED <<req, post, snap>>
  /\ Undecided

\* aggregator.identity is read outside any try.
ReadIdentity ==
  /\ pc = "identity"
  /\ \/ /\ pc' = "preflight"
        /\ UNCHANGED <<req, post, snap, raisedBy>>
        /\ Undecided
     \/ Raise("identity")

\* All the checks, aggregator.accepts_variable_responses among them, and
\* the baseline snapshot when they pass.  _snapshot copies and hashes the
\* recorded result outside any try.
RunPreflight ==
  /\ pc = "preflight"
  /\ \/ /\ ~Passes(req)
        /\ pc' = "summary"
        /\ UNCHANGED <<req, post, snap, raisedBy>>
        /\ Undecided
     \/ /\ Passes(req)
        /\ req.final \notin NotJson \cup NotText
        /\ pc' = "replay"
        /\ snap' = WithSnapshot("baseline", req.hashes, req.final)
        /\ UNCHANGED <<req, post, raisedBy>>
        /\ Undecided
     \/ /\ Passes(req)
        /\ req.final \in NotJson \cup NotText
        /\ Raise("baseline")
     \/ Raise("attribute")

\* The snapshot of one aggregation, and the checks that follow from it.
Replayed(written, final) ==
  LET agrees == Copied(written, final) /\ ReplayAgrees(final) IN
  /\ snap' = IF Copied(written, final)
               THEN WithSnapshot("replay", HashesOf(Roles), final)
               ELSE snap
  /\ post' = [post EXCEPT !["replayable_aggregation"] =
                IF agrees THEN "pass" ELSE "fail"]
  /\ pc' = AfterReplay(agrees)
  /\ UNCHANGED <<req, raisedBy>>
  /\ Undecided

Removed(written, final) ==
  /\ snap' = IF Copied(written, final)
               THEN WithSnapshot("removal", HashesOf(Retained(req)), final)
               ELSE snap
  /\ post' = [c \in PostChecks |->
                IF c = "replayable_aggregation" THEN post[c]
                ELSE IF Copied(written, final) THEN "pass" ELSE "fail"]
  /\ pc' = "summary"
  /\ UNCHANGED <<req, raisedBy>>
  /\ Undecided

\* _aggregate_snapshot over all the roles: the aggregator returns.
Replay ==
  /\ pc = "replay"
  /\ \E written \in [Roles -> Values], final \in Outputs :
       IF Unhashed(written, final) THEN Raise("answer")
                                   ELSE Replayed(written, final)

\* _aggregate_snapshot over the retained roles: the aggregator returns.
Removal ==
  /\ pc = "removal"
  /\ \E written \in [Retained(req) -> Values], final \in Outputs :
       IF Unhashed(written, final) THEN Raise("answer")
                                   ELSE Removed(written, final)

\* The aggregator raises: no snapshot, and the checks that needed it fail.
AggregatorRaises ==
  /\ pc \in {"replay", "removal"}
  /\ pc' = "summary"
  /\ post' = IF pc = "replay"
               THEN [post EXCEPT !["replayable_aggregation"] = "fail"]
               ELSE [c \in PostChecks |->
                       IF c = "replayable_aggregation" THEN post[c] ELSE "fail"]
  /\ UNCHANGED <<req, snap, raisedBy>>
  /\ Undecided

Return ==
  /\ pc' = "returned"
  /\ action' = IF Valid THEN "REMOVE" ELSE "KEEP"
  /\ version' = EffectiveVersion
  /\ reused' = ReusedRoles
  /\ reasons' = FailedChecks
  /\ UNCHANGED <<req, post, snap, raisedBy>>

\* The report, the two records, and the return.  A constructor that refuses
\* its arguments raises ValidationError, which run does not catch.
Summarise ==
  /\ pc = "summary"
  /\ IF ReportAccepted /\ RecordAccepted /\ InterventionAccepted
       THEN Return
       ELSE Raise("validation")

Next ==
  \/ ReadIdentity
  \/ RunPreflight
  \/ Replay
  \/ Removal
  \/ AggregatorRaises
  \/ Summarise

\* One call is sequential code that never blocks: it keeps taking steps.
Spec == Init /\ [][Next]_vars /\ WF_vars(Next)

------------------------------------------------------------------------------
\* Every variable keeps the type its schema gives it; the reasons are names
\* of checks.
TypeOK ==
  /\ req \in Request
  /\ pc \in {"identity", "preflight", "replay", "removal", "summary",
             "returned", "raised"}
  /\ post \in [PostChecks -> {"not_run", "pass", "fail"}]
  /\ \E K \in SUBSET Kinds : snap \in [K -> Snapshot]
  /\ action \in {"none", "KEEP", "REMOVE"}
  /\ version \in {"input", "output"}
  /\ reused \in SUBSET Roles
  /\ reasons \in SUBSET (DOMAIN Preflight(req) \cup PostChecks)
  /\ raisedBy \in {"none", "identity", "attribute", "baseline", "answer",
                   "validation"}

\* A REMOVE rests on the frozen evidence: the two aggregations saw the
\* recorded responses, the second one those of every role but the target,
\* the first one gave the recorded result, and no other role needed the
\* target.  (README, "Controlled parallel removal".)
RemoveRestsOnFrozenEvidence ==
  action = "REMOVE" =>
    /\ req.target \in Roles
    /\ DOMAIN snap = Kinds
    /\ snap["replay"] = [hashes |-> req.outputs, final |-> req.final]
    /\ snap["removal"].hashes = [role \in Roles \ {req.target} |-> req.outputs[role]]
    /\ reused = Roles \ {req.target}
    /\ \A e \in req.edges : req.target \notin {e[1], e[2]}
    /\ \A d \in req.upstream \cup req.inputs : d[2] # req.target

\* The arguments with which the evidence itself is refused: an empty target,
\* an empty version where the removal is valid, an arity that is no boolean.
UnfitArguments ==
  \/ req.target = Malformed
  \/ req.version = "empty" /\ Valid
  \/ req.arity \in {"truthy", "other"}

\* Whatever the checks let through, the report and the two records built
\* from it are ones their own schemas accept, and the recorded result is one
\* the snapshot can hold: the call dies on its own evidence for no arguments
\* but the ones named here.  Those are real: a REMOVE under version "" and a
\* KEEP of the target "" both end in a ValidationError.
OnlyUnfitArgumentsRaise ==
  /\ raisedBy = "validation" => UnfitArguments
  /\ raisedBy = "baseline" => req.final \in NotJson \cup NotText

\* Every call answers with an intervention, or raises for a reason that is
\* the aggregator's (an attribute that cannot be read, an answer that cannot
\* be hashed) or one of the arguments above.
EveryCallDecides ==
  <>(\/ action # "none"
     \/ raisedBy \in {"identity", "attribute", "answer"}
     \/ raisedBy = "baseline" /\ req.final \in NotJson \cup NotText
     \/ raisedBy = "validation" /\ UnfitArguments)

(***************************************************************************)
(* The refinement: the snapshots are the evidence, and a replay counts as  *)
(* evidence when it agrees with the baseline.                              *)
(***************************************************************************)
Evidence ==
  {e \in {"baseline", "agreeing_replay", "counterfactual"} :
     \/ e = "baseline" /\ "baseline" \in DOMAIN snap
     \/ e = "agreeing_replay" /\ post["replayable_aggregation"] = "pass"
     \/ e = "counterfactual" /\ "removal" \in DOMAIN snap}

Promise == INSTANCE Intervention WITH
  decision <- IF action = "none" THEN "undecided" ELSE action,
  evidence <- Evidence

\* The runner keeps the promise of every single-role removal.
KeepsThePromise == Promise!Spec
=============================================================================
