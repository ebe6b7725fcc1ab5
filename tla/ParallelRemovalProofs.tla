------------------------ MODULE ParallelRemovalProofs ------------------------
(***************************************************************************)
(* The safety properties of ParallelRemoval for every team, every request  *)
(* and every aggregator.                                                   *)
(***************************************************************************)
EXTENDS ParallelRemoval, TLAPS

\* What a preflight without a failed check says about the request.
LEMMA PreflightMeaning ==
  ASSUME NEW r \in Request, Passes(r)
  PROVE  /\ BaselineValid(r)
         /\ r.target \in Roles
         /\ TargetEdges(r) = {}
         /\ ConsumersOfTarget(r) = {}
         /\ {"no_joint_intervention", "no_coverage_gap"} \subseteq r.flags
<1> DEFINE P == Preflight(r)
<1>1. \A k \in DOMAIN P : P[k]
  BY DEF Passes
<1>2. /\ P["baseline_record_valid"] = BaselineValid(r)
      /\ P["target_exists"] = (r.target \in Roles)
      /\ P["no_required_target_dependency"]
           = (TargetEdges(r) = {} /\ ConsumersOfTarget(r) = {})
      /\ P["no_joint_intervention"] = ("no_joint_intervention" \in r.flags)
      /\ P["no_coverage_gap"] = ("no_coverage_gap" \in r.flags)
      /\ {"baseline_record_valid", "target_exists",
          "no_required_target_dependency", "no_joint_intervention",
          "no_coverage_gap"} \subseteq DOMAIN P
  BY DEF Preflight
<1> HIDE DEF P
<1>3. QED BY <1>1, <1>2

(***************************************************************************)
(* The inductive invariant: what each snapshot and each post check holds,  *)
(* and how far the call has come.                                          *)
(***************************************************************************)
BaselineEvidence ==
  "baseline" \in DOMAIN snap =>
    /\ Passes(req)
    /\ snap["baseline"] = [hashes |-> req.hashes, final |-> req.final]

ReplayEvidence ==
  /\ "replay" \in DOMAIN snap => snap["replay"].hashes = HashesOf(Roles)
  /\ post["replayable_aggregation"] = "pass" =>
       /\ {"baseline", "replay"} \subseteq DOMAIN snap
       /\ snap["replay"].final = req.final

RemovalEvidence ==
  /\ "removal" \in DOMAIN snap =>
       /\ snap["removal"].hashes = HashesOf(Retained(req))
       /\ post["removal_aggregation_succeeded"] = "pass"
  /\ post["removal_aggregation_succeeded"] = "pass" => "removal" \in DOMAIN snap
  /\ post["removal_aggregation_succeeded"] # "not_run" =>
       post["replayable_aggregation"] = "pass"
  /\ post["other_responses_frozen"] = post["removal_aggregation_succeeded"]

Progress ==
  /\ pc \in {"identity", "preflight"} => DOMAIN snap = {}
  /\ pc = "replay" => DOMAIN snap = {"baseline"}
  /\ pc = "removal" => DOMAIN snap = {"baseline", "replay"}
  /\ pc \in {"identity", "preflight", "replay"} =>
       post["replayable_aggregation"] = "not_run"
  /\ pc = "removal" => post["replayable_aggregation"] = "pass"
  /\ pc \in {"identity", "preflight", "replay", "removal"} =>
       post["removal_aggregation_succeeded"] = "not_run"
  /\ pc = "summary" => \/ Valid
                       \/ FailedChecks # {}
                       \/ req.arity \in {"truthy", "other"}
  /\ DOMAIN snap = {} \/ "baseline" \in DOMAIN snap

Outcome ==
  /\ action = "none" => version = "input"
  /\ action # "none" => pc = "returned"
  /\ raisedBy # "none" => pc = "raised"
  /\ action = "REMOVE" => Valid /\ reused = Retained(req)

IInv ==
  /\ TypeOK
  /\ BaselineEvidence
  /\ ReplayEvidence
  /\ RemovalEvidence
  /\ Progress
  /\ Outcome
  /\ OnlyUnfitArgumentsRaise

------------------------------------------------------------------------------
SnapshotsOK == \E K \in SUBSET Kinds : snap \in [K -> Snapshot]

\* Adding a snapshot adds one kind and leaves the others as they were.
LEMMA WithSnapshotFacts ==
  ASSUME SnapshotsOK, NEW kind \in Kinds,
         NEW S \in SUBSET Roles, NEW h \in [S -> Values], NEW o \in Outputs
  PROVE  LET w == WithSnapshot(kind, h, o) IN
         /\ \E K \in SUBSET Kinds : w \in [K -> Snapshot]
         /\ DOMAIN w = DOMAIN snap \cup {kind}
         /\ w[kind] = [hashes |-> h, final |-> o]
         /\ \A k \in DOMAIN snap \ {kind} : w[k] = snap[k]
<1> DEFINE w == WithSnapshot(kind, h, o)
           new == [hashes |-> h, final |-> o]
<1>1. new \in Snapshot
  BY DEF Snapshot
<1>2. PICK K \in SUBSET Kinds : snap \in [K -> Snapshot]
  BY DEF SnapshotsOK
<1>3. w = [k \in K \cup {kind} |-> IF k = kind THEN new ELSE snap[k]]
  BY <1>2 DEF WithSnapshot
<1>4. w \in [K \cup {kind} -> Snapshot]
  BY <1>1, <1>2, <1>3
<1>5. K \cup {kind} \in SUBSET Kinds
  OBVIOUS
<1>6. QED
  BY <1>2, <1>3, <1>4, <1>5

\* The post checks and the argument record keep their types through updates.
LEMMA HashesType ==
  ASSUME NEW r \in Request, NEW S \in SUBSET Roles
  PROVE  [role \in S |-> r.hashes[role]] \in [S -> Values]
BY DEF Request

LEMMA InitIInv == Init => IInv
<1> SUFFICES ASSUME Init PROVE IInv
  OBVIOUS
<1>1. req \in Request
  BY RequestsAssumption DEF Init
<1>2. /\ DOMAIN snap = {}
      /\ snap = [k \in {} |-> [hashes |-> req.hashes, final |-> req.final]]
  BY DEF Init
<1>3. snap \in [{} -> Snapshot]
  BY <1>2
<1>4. TypeOK
  BY <1>1, <1>3 DEF Init, TypeOK, Request, PostChecks
<1>5. BaselineEvidence /\ ReplayEvidence /\ RemovalEvidence /\ Progress
  BY <1>2 DEF Init, BaselineEvidence, ReplayEvidence, RemovalEvidence,
              Progress, PostChecks
<1>6. Outcome /\ OnlyUnfitArgumentsRaise
  BY DEF Init, Outcome, OnlyUnfitArgumentsRaise
<1>7. QED
  BY <1>4, <1>5, <1>6 DEF IInv

\* Raising an exception keeps everything but the place, and the evidence
\* raises for no arguments but the unfit ones.
LEMMA RaiseStep ==
  ASSUME IInv, pc \in {"identity", "preflight", "replay", "removal", "summary"},
         NEW why \in {"identity", "attribute", "baseline", "answer", "validation"},
         Raise(why),
         why = "baseline" => req.final \in NotJson \cup NotText,
         why = "validation" => UnfitArguments
  PROVE  IInv'
<1>1. TypeOK'
  BY DEF IInv, TypeOK, Raise, Undecided
<1>2. BaselineEvidence' /\ ReplayEvidence' /\ RemovalEvidence'
  BY DEF IInv, Raise, BaselineEvidence, ReplayEvidence, RemovalEvidence, HashesOf
<1>3. Progress'
  BY DEF IInv, Raise, Progress
<1>4. Outcome'
  BY DEF IInv, Raise, Undecided, Outcome, Valid
<1>5. OnlyUnfitArgumentsRaise'
  BY DEF Raise, OnlyUnfitArgumentsRaise, UnfitArguments, Valid
<1>6. QED
  BY <1>1, <1>2, <1>3, <1>4, <1>5 DEF IInv, Raise

LEMMA ReadIdentityStep ==
  ASSUME IInv, ReadIdentity
  PROVE  IInv'
<1>1. CASE Raise("identity")
  BY <1>1, RaiseStep DEF ReadIdentity
<1>2. CASE /\ pc' = "preflight"
           /\ UNCHANGED <<req, post, snap, raisedBy>>
           /\ Undecided
  BY <1>2 DEF IInv, TypeOK, ReadIdentity, Undecided, BaselineEvidence,
    ReplayEvidence, RemovalEvidence, Progress, Outcome, HashesOf, Valid,
    FailedChecks, OnlyUnfitArgumentsRaise, UnfitArguments
<1>3. QED
  BY <1>1, <1>2 DEF ReadIdentity

\* A call whose checks do not all pass has failed one, or has an arity that
\* is no boolean.
LEMMA NotPassing ==
  ASSUME NEW r \in Request, ~Passes(r)
  PROVE  FailedPreflight(r) # {} \/ r.arity \in {"truthy", "other"}
BY DEF Passes, FailedPreflight, Undetermined

LEMMA RunPreflightStep ==
  ASSUME IInv, RunPreflight
  PROVE  IInv'
<1> USE DEF RunPreflight
<1>1. CASE Raise("attribute") \/ (/\ req.final \in NotJson \cup NotText
                                  /\ Raise("baseline"))
  BY <1>1, RaiseStep
<1>2. CASE /\ ~Passes(req)
           /\ pc' = "summary"
           /\ UNCHANGED <<req, post, snap, raisedBy>>
           /\ Undecided
  <2>1. FailedChecks' # {} \/ req.arity \in {"truthy", "other"}
    BY <1>2, NotPassing DEF IInv, TypeOK, FailedChecks
  <2>2. Progress'
    BY <1>2, <2>1 DEF IInv, Progress
  <2>3. QED
    BY <1>2, <2>2 DEF IInv, TypeOK, Undecided, BaselineEvidence, ReplayEvidence,
      RemovalEvidence, Outcome, HashesOf, Valid, OnlyUnfitArgumentsRaise,
      UnfitArguments
<1>3. CASE /\ Passes(req)
           /\ pc' = "replay"
           /\ snap' = WithSnapshot("baseline", req.hashes, req.final)
           /\ UNCHANGED <<req, post, raisedBy>>
           /\ Undecided
  <2>1. SnapshotsOK /\ req \in Request
    BY DEF IInv, TypeOK, SnapshotsOK
  <2>2. req.hashes \in [Roles -> Values] /\ req.final \in Outputs
    BY <2>1 DEF Request
  <2>3. /\ \E K \in SUBSET Kinds : snap' \in [K -> Snapshot]
        /\ DOMAIN snap' = DOMAIN snap \cup {"baseline"}
        /\ snap'["baseline"] = [hashes |-> req.hashes, final |-> req.final]
    BY <1>3, <2>1, <2>2, WithSnapshotFacts DEF Kinds
  <2>4. DOMAIN snap = {}
    BY DEF IInv, Progress
  <2>5. TypeOK'
    BY <1>3, <2>3 DEF IInv, TypeOK, Undecided
  <2>6. BaselineEvidence' /\ ReplayEvidence' /\ RemovalEvidence' /\ Progress'
    BY <1>3, <2>3, <2>4 DEF IInv, BaselineEvidence, ReplayEvidence,
      RemovalEvidence, Progress
  <2>7. Outcome' /\ OnlyUnfitArgumentsRaise'
    BY <1>3 DEF IInv, Outcome, Undecided, OnlyUnfitArgumentsRaise,
      UnfitArguments, Valid
  <2>8. QED
    BY <1>3, <2>5, <2>6, <2>7 DEF IInv
<1>4. QED
  BY <1>1, <1>2, <1>3

\* An answer of the replay: a snapshot if it could be copied, a check that
\* passes only if it agrees with the record.
LEMMA ReplayedStep ==
  ASSUME IInv, pc = "replay",
         NEW written \in [Roles -> Values], NEW final \in Outputs,
         Replayed(written, final)
  PROVE  IInv'
<1> DEFINE agrees == Copied(written, final) /\ ReplayAgrees(final)
<1>1. /\ snap' = IF Copied(written, final)
                   THEN WithSnapshot("replay", HashesOf(Roles), final)
                   ELSE snap
      /\ post' = [post EXCEPT !["replayable_aggregation"] =
                    IF agrees THEN "pass" ELSE "fail"]
      /\ pc' = AfterReplay(agrees)
  BY DEF Replayed
<1>2. /\ pc = "replay"
      /\ UNCHANGED <<req, raisedBy, action, version, reused, reasons>>
  BY DEF Replayed, Undecided
<1>3. SnapshotsOK /\ req \in Request
  BY DEF IInv, TypeOK, SnapshotsOK
<1>4. HashesOf(Roles) \in [Roles -> Values]
  BY <1>3, HashesType DEF HashesOf
<1>5. DOMAIN snap = {"baseline"}
  BY <1>2 DEF IInv, Progress
<1>6. /\ \E K \in SUBSET Kinds : snap' \in [K -> Snapshot]
      /\ snap'["baseline"] = snap["baseline"]
      /\ "baseline" \in DOMAIN snap'
      /\ ~Copied(written, final) => DOMAIN snap' = {"baseline"}
      /\ Copied(written, final) =>
           /\ DOMAIN snap' = {"baseline", "replay"}
           /\ snap'["replay"] = [hashes |-> HashesOf(Roles), final |-> final]
  <2>1. CASE Copied(written, final)
    BY <1>1, <1>3, <1>4, <1>5, <2>1, WithSnapshotFacts DEF Kinds
  <2>2. CASE ~Copied(written, final)
    BY <1>1, <1>3, <1>5, <2>2 DEF SnapshotsOK
  <2>3. QED
    BY <2>1, <2>2
<1>7. /\ post' \in [PostChecks -> {"not_run", "pass", "fail"}]
      /\ post'["replayable_aggregation"] = IF agrees THEN "pass" ELSE "fail"
      /\ post'["removal_aggregation_succeeded"] = "not_run"
      /\ post'["other_responses_frozen"] = "not_run"
  BY <1>1, <1>2 DEF IInv, TypeOK, PostChecks, Progress, RemovalEvidence
<1>8. /\ Passes(req)
      /\ snap["baseline"] = [hashes |-> req.hashes, final |-> req.final]
  BY <1>5 DEF IInv, BaselineEvidence
<1>9. pc' = IF agrees THEN "removal" ELSE "summary"
  BY <1>1 DEF AfterReplay
<1>10. TypeOK'
  BY <1>1, <1>2, <1>6, <1>7, <1>9 DEF IInv, TypeOK
<1>11. BaselineEvidence'
  BY <1>2, <1>6, <1>8 DEF BaselineEvidence
<1>12. agrees => final = req.final
  BY <1>8 DEF ReplayAgrees
<1>13. ReplayEvidence' /\ RemovalEvidence'
  BY <1>2, <1>6, <1>7, <1>12 DEF ReplayEvidence, RemovalEvidence, HashesOf
<1>14. Progress'
  <2>1. ~agrees => "replayable_aggregation" \in FailedChecks'
    BY <1>7 DEF FailedChecks, PostChecks
  <2>2. QED
    BY <1>6, <1>7, <1>9, <2>1 DEF Progress
<1>15. Outcome' /\ OnlyUnfitArgumentsRaise'
  BY <1>2, <1>9 DEF IInv, Outcome, OnlyUnfitArgumentsRaise
<1>16. QED
  BY <1>1, <1>2, <1>10, <1>11, <1>13, <1>14, <1>15 DEF IInv

LEMMA ReplayStep ==
  ASSUME IInv, Replay
  PROVE  IInv'
BY RaiseStep, ReplayedStep DEF Replay

LEMMA RemovedStep ==
  ASSUME IInv, pc = "removal",
         NEW written \in [Retained(req) -> Values], NEW final \in Outputs,
         Removed(written, final)
  PROVE  IInv'
<1>1. /\ snap' = IF Copied(written, final)
                   THEN WithSnapshot("removal", HashesOf(Retained(req)), final)
                   ELSE snap
      /\ post' = [k \in PostChecks |->
                    IF k = "replayable_aggregation" THEN post[k]
                    ELSE IF Copied(written, final) THEN "pass" ELSE "fail"]
  BY DEF Removed
<1>2. /\ pc = "removal" /\ pc' = "summary"
      /\ UNCHANGED <<req, raisedBy, action, version, reused, reasons>>
  BY DEF Removed, Undecided
<1>3. SnapshotsOK /\ req \in Request
  BY DEF IInv, TypeOK, SnapshotsOK
<1>4. Retained(req) \in SUBSET Roles
  BY DEF Retained
<1>5. HashesOf(Retained(req)) \in [Retained(req) -> Values]
  BY <1>3, <1>4, HashesType DEF HashesOf
<1>6. DOMAIN snap = {"baseline", "replay"}
  BY <1>2 DEF IInv, Progress
<1>7. /\ \E K \in SUBSET Kinds : snap' \in [K -> Snapshot]
      /\ snap'["baseline"] = snap["baseline"]
      /\ snap'["replay"] = snap["replay"]
      /\ ~Copied(written, final) => DOMAIN snap' = {"baseline", "replay"}
      /\ Copied(written, final) =>
           /\ DOMAIN snap' = Kinds
           /\ snap'["removal"] = [hashes |-> HashesOf(Retained(req)), final |-> final]
  <2>1. CASE Copied(written, final)
    <3> DEFINE w == WithSnapshot("removal", HashesOf(Retained(req)), final)
    <3>1. /\ \E K \in SUBSET Kinds : w \in [K -> Snapshot]
          /\ DOMAIN w = DOMAIN snap \cup {"removal"}
          /\ w["removal"] = [hashes |-> HashesOf(Retained(req)), final |-> final]
          /\ \A k \in DOMAIN snap \ {"removal"} : w[k] = snap[k]
      BY <1>3, <1>4, <1>5, WithSnapshotFacts DEF Kinds
    <3>2. snap' = w
      BY <1>1, <2>1
    <3> HIDE DEF w
    <3>3. QED
      BY <1>6, <2>1, <3>1, <3>2 DEF Kinds
  <2>2. CASE ~Copied(written, final)
    BY <1>1, <1>3, <1>6, <2>2 DEF SnapshotsOK
  <2>3. QED
    BY <2>1, <2>2
<1>8. /\ post' \in [PostChecks -> {"not_run", "pass", "fail"}]
      /\ post'["replayable_aggregation"] = "pass"
      /\ post'["removal_aggregation_succeeded"]
           = IF Copied(written, final) THEN "pass" ELSE "fail"
      /\ post'["other_responses_frozen"] = post'["removal_aggregation_succeeded"]
  BY <1>1, <1>2 DEF IInv, TypeOK, PostChecks, Progress
<1>9. TypeOK'
  BY <1>1, <1>2, <1>7, <1>8 DEF IInv, TypeOK
<1>10. BaselineEvidence' /\ ReplayEvidence' /\ RemovalEvidence'
  BY <1>2, <1>6, <1>7, <1>8 DEF IInv, BaselineEvidence, ReplayEvidence,
    RemovalEvidence, HashesOf, Kinds, Progress
<1>11. Progress'
  <2>1. CASE Copied(written, final)
    <3>1. \A k \in PostChecks : post'[k] = "pass"
      BY <1>8, <2>1 DEF PostChecks
    <3>2. Passes(req)
      BY <1>6 DEF IInv, BaselineEvidence
    <3>3. Valid'
      BY <1>2, <3>1, <3>2 DEF Valid, FailedChecks
    <3>4. QED
      BY <1>2, <1>7, <2>1, <3>3 DEF Progress, Kinds
  <2>2. CASE ~Copied(written, final)
    <3>1. FailedChecks' # {}
      BY <1>8, <2>2 DEF FailedChecks, PostChecks
    <3>2. QED
      BY <1>2, <1>7, <2>2, <3>1 DEF Progress
  <2>3. QED
    BY <2>1, <2>2
<1>12. Outcome' /\ OnlyUnfitArgumentsRaise'
  BY <1>2 DEF IInv, Outcome, OnlyUnfitArgumentsRaise
<1>13. QED
  BY <1>1, <1>2, <1>9, <1>10, <1>11, <1>12 DEF IInv

LEMMA RemovalStep ==
  ASSUME IInv, Removal
  PROVE  IInv'
BY RaiseStep, RemovedStep DEF Removal

LEMMA AggregatorRaisesStep ==
  ASSUME IInv, AggregatorRaises
  PROVE  IInv'
<1>1. /\ pc \in {"replay", "removal"} /\ pc' = "summary"
      /\ UNCHANGED <<req, snap, raisedBy, action, version, reused, reasons>>
  BY DEF AggregatorRaises, Undecided
<1>2. /\ post' \in [PostChecks -> {"not_run", "pass", "fail"}]
      /\ FailedChecks' # {}
      /\ post'["other_responses_frozen"] = post'["removal_aggregation_succeeded"]
      /\ post'["removal_aggregation_succeeded"] # "pass"
      /\ post'["removal_aggregation_succeeded"] # "not_run" =>
           post'["replayable_aggregation"] = "pass"
      /\ post'["replayable_aggregation"] = "pass" =>
           post["replayable_aggregation"] = "pass"
  <2>1. CASE pc = "replay"
    BY <2>1 DEF IInv, TypeOK, AggregatorRaises, FailedChecks, PostChecks,
      Progress, RemovalEvidence
  <2>2. CASE pc = "removal"
    <3>1. post' = [k \in PostChecks |->
                     IF k = "replayable_aggregation" THEN post[k] ELSE "fail"]
      BY <2>2 DEF AggregatorRaises
    <3>2. QED
      BY <2>2, <3>1 DEF IInv, TypeOK, FailedChecks, PostChecks, Progress
  <2>3. QED
    BY <1>1, <2>1, <2>2
<1>3. "removal" \notin DOMAIN snap
  BY <1>1 DEF IInv, Progress
<1>4. TypeOK'
  BY <1>1, <1>2 DEF IInv, TypeOK
<1>5. BaselineEvidence' /\ ReplayEvidence' /\ RemovalEvidence'
  BY <1>1, <1>2, <1>3 DEF IInv, BaselineEvidence, ReplayEvidence,
    RemovalEvidence, HashesOf
<1>6. Progress' /\ Outcome' /\ OnlyUnfitArgumentsRaise'
  BY <1>1, <1>2 DEF IInv, Progress, Outcome, OnlyUnfitArgumentsRaise
<1>7. QED
  BY <1>1, <1>4, <1>5, <1>6 DEF IInv

\* The evidence of a call that reaches its summary with fit arguments
\* satisfies every constructor: the report has a reason when it is not
\* valid, and the record and the intervention are consistent when it is.
LEMMA SummaryAccepted ==
  ASSUME IInv, pc = "summary", ~UnfitArguments
  PROVE  ReportAccepted /\ RecordAccepted /\ InterventionAccepted
<1>1. ReportAccepted
  BY DEF IInv, Progress, ReportAccepted, Valid, UnfitArguments
<1>2. IdsAccepted
  BY DEF UnfitArguments, IdsAccepted, EffectiveVersion
<1>3. ASSUME Valid PROVE RecordAccepted /\ InterventionAccepted
  <2>1. /\ Passes(req)
        /\ \A k \in PostChecks : post[k] = "pass"
    BY <1>3 DEF Valid
  <2>2. /\ {"baseline", "replay", "removal"} \subseteq DOMAIN snap
        /\ snap["baseline"] = [hashes |-> req.hashes, final |-> req.final]
        /\ snap["replay"].hashes = HashesOf(Roles)
        /\ snap["replay"].final = req.final
        /\ snap["removal"].hashes = HashesOf(Retained(req))
    BY <2>1 DEF IInv, BaselineEvidence, ReplayEvidence, RemovalEvidence, PostChecks
  <2>3. DOMAIN snap = Kinds
    BY <2>2 DEF IInv, TypeOK, Kinds
  <2>4. req.hashes \in [Roles -> Values]
    BY DEF IInv, TypeOK, Request
  <2>5. HashesOf(Roles) = req.hashes /\ DOMAIN req.hashes = Roles
    BY <2>4 DEF HashesOf
  <2>6. RecordAccepted
    BY <1>2, <1>3, <2>2, <2>3, <2>5 DEF RecordAccepted, ReusedRoles, Retained,
      HashesOf
  <2>7. InterventionAccepted
    BY <1>2, <2>1, PreflightMeaning DEF IInv, TypeOK, InterventionAccepted
  <2>8. QED
    BY <2>6, <2>7
<1>4. QED
  BY <1>1, <1>2, <1>3 DEF RecordAccepted, InterventionAccepted

LEMMA SummariseStep ==
  ASSUME IInv, Summarise
  PROVE  IInv'
<1>1. CASE Raise("validation")
  <2>1. UnfitArguments \/ Return
    BY SummaryAccepted DEF Summarise
  <2>2. pc' = "raised"
    BY <1>1 DEF Raise
  <2>3. UnfitArguments
    BY <2>1, <2>2 DEF Return
  <2>4. QED
    BY <1>1, <2>3, RaiseStep DEF Summarise
<1>2. CASE Return
  <2>1. pc = "summary"
    BY DEF Summarise
  <2>2. /\ pc' = "returned"
        /\ UNCHANGED <<req, post, snap, raisedBy>>
        /\ (Valid)' = Valid /\ (FailedChecks)' = FailedChecks
    BY <1>2 DEF Return, Valid, FailedChecks
  <2>3. ReusedRoles \in SUBSET Roles /\ EffectiveVersion \in {"input", "output"}
    BY DEF ReusedRoles, EffectiveVersion, Retained
  <2>4. FailedChecks \in SUBSET (DOMAIN Preflight(req) \cup PostChecks)
    BY DEF FailedChecks, FailedPreflight
  <2>5. TypeOK'
    BY <1>2, <2>2, <2>3, <2>4 DEF IInv, TypeOK, Return
  <2>6. BaselineEvidence' /\ ReplayEvidence' /\ RemovalEvidence' /\ Progress'
    BY <2>2 DEF IInv, BaselineEvidence, ReplayEvidence, RemovalEvidence,
      Progress, HashesOf
  <2>7. Outcome'
    BY <1>2, <2>1, <2>2 DEF IInv, Return, Outcome, ReusedRoles, EffectiveVersion
  <2>8. OnlyUnfitArgumentsRaise'
    BY <2>1, <2>2 DEF IInv, OnlyUnfitArgumentsRaise, UnfitArguments
  <2>9. QED
    BY <2>5, <2>6, <2>7, <2>8 DEF IInv
<1>3. QED
  BY <1>1, <1>2 DEF Summarise

LEMMA NextIInv == IInv /\ [Next]_vars => IInv'
<1> SUFFICES ASSUME IInv, [Next]_vars PROVE IInv'
  OBVIOUS
<1>1. CASE UNCHANGED vars
  BY <1>1 DEF vars, IInv, TypeOK, BaselineEvidence, ReplayEvidence,
    RemovalEvidence, Progress, Outcome, HashesOf, Valid, FailedChecks,
    OnlyUnfitArgumentsRaise, UnfitArguments
<1>2. QED
  BY <1>1, ReadIdentityStep, RunPreflightStep, ReplayStep, RemovalStep,
    AggregatorRaisesStep, SummariseStep DEF Next

------------------------------------------------------------------------------
(* The theorems.                                                           *)

\* The invariant holds in every state of every call.
THEOREM Inductive == Spec => []IInv
<1>1. Init => IInv
  BY InitIInv
<1>2. IInv /\ [Next]_vars => IInv'
  BY NextIInv
<1>3. QED
  BY <1>1, <1>2, PTL DEF Spec

\* The fields of the record keep the types the schemas give them.
THEOREM TypeCorrect == Spec => []TypeOK
<1>1. IInv => TypeOK
  BY DEF IInv
<1>2. QED
  BY <1>1, Inductive, PTL

\* A call that returns REMOVE has aggregated the recorded responses twice,
\* all of them with the recorded result and then all but the target's, and
\* no other role needed the target.
THEOREM RemoveIsBackedByEvidence == Spec => []RemoveRestsOnFrozenEvidence
<1>1. IInv => RemoveRestsOnFrozenEvidence
  <2> SUFFICES ASSUME IInv, action = "REMOVE" PROVE RemoveRestsOnFrozenEvidence
    BY DEF RemoveRestsOnFrozenEvidence
  <2>1. /\ Passes(req)
        /\ \A k \in PostChecks : post[k] = "pass"
        /\ reused = Retained(req)
    BY DEF IInv, Outcome, Valid
  <2>2. /\ {"baseline", "replay", "removal"} \subseteq DOMAIN snap
        /\ snap["replay"].hashes = HashesOf(Roles)
        /\ snap["replay"].final = req.final
        /\ snap["removal"].hashes = HashesOf(Retained(req))
    BY <2>1 DEF IInv, ReplayEvidence, RemovalEvidence, PostChecks
  <2>3. DOMAIN snap = Kinds /\ snap["replay"] \in Snapshot
    BY <2>2 DEF IInv, TypeOK, Kinds
  <2>4. req \in Request
    BY DEF IInv, TypeOK
  <2>5. /\ BaselineValid(req) /\ req.target \in Roles
        /\ TargetEdges(req) = {} /\ ConsumersOfTarget(req) = {}
    BY <2>1, <2>4, PreflightMeaning
  <2>6. /\ req.outputs \in [Roles -> Values] /\ req.hashes \in [Roles -> Values]
        /\ req.outputs = req.hashes
    BY <2>4, <2>5 DEF BaselineValid, Request
  <2>7. snap["replay"] = [hashes |-> req.outputs, final |-> req.final]
    BY <2>2, <2>3, <2>6 DEF Snapshot, HashesOf
  <2>8. snap["removal"].hashes
          = [role \in Roles \ {req.target} |-> req.outputs[role]]
    BY <2>2, <2>6 DEF HashesOf, Retained
  <2>9. /\ \A e \in req.edges : req.target \notin {e[1], e[2]}
        /\ \A d \in req.upstream \cup req.inputs : d[2] # req.target
    BY <2>5 DEF TargetEdges, ConsumersOfTarget
  <2>10. QED
    BY <2>1, <2>3, <2>5, <2>7, <2>8, <2>9
      DEF RemoveRestsOnFrozenEvidence, Retained
<1>2. QED
  BY <1>1, Inductive, PTL

\* The report, the two records and the baseline snapshot refuse a call for no
\* arguments but an empty target, an empty version where the removal is
\* valid, an arity that is no boolean, or a recorded result that cannot be
\* copied and hashed.
THEOREM EvidenceIsAccepted == Spec => []OnlyUnfitArgumentsRaise
<1>1. IInv => OnlyUnfitArgumentsRaise
  BY DEF IInv
<1>2. QED
  BY <1>1, Inductive, PTL

------------------------------------------------------------------------------
(* The refinement of Intervention, one lemma per kind of step.             *)

PromiseStep == Promise!Collect \/ Promise!Keep \/ Promise!Remove
             \/ UNCHANGED Promise!vars

\* Evidence moves only with the snapshots and the replay check.
LEMMA EvidenceMembers ==
  /\ Evidence \subseteq {"baseline", "agreeing_replay", "counterfactual"}
  /\ "baseline" \in Evidence <=> "baseline" \in DOMAIN snap
  /\ "agreeing_replay" \in Evidence <=> post["replayable_aggregation"] = "pass"
  /\ "counterfactual" \in Evidence <=> "removal" \in DOMAIN snap
BY DEF Evidence

\* A step that decides nothing and takes no snapshot is a stutter.
LEMMA QuietStep ==
  ASSUME UNCHANGED <<snap, action, version>>,
         (post'["replayable_aggregation"] = "pass")
           = (post["replayable_aggregation"] = "pass")
  PROVE  PromiseStep
BY DEF PromiseStep, Promise!vars, Evidence

LEMMA CollectSteps ==
  ASSUME IInv, RunPreflight \/ Replay \/ Removal
  PROVE  PromiseStep
<1>1. CASE RunPreflight
  <2>1. UNCHANGED <<post, action, version>> /\ (snap' = snap \/
          snap' = WithSnapshot("baseline", req.hashes, req.final))
    BY <1>1 DEF RunPreflight, Raise, Undecided
  <2>2. /\ DOMAIN snap = {} /\ post["replayable_aggregation"] = "not_run"
        /\ action = "none"
    BY <1>1 DEF RunPreflight, IInv, Progress, Outcome
  <2>3. CASE snap' = WithSnapshot("baseline", req.hashes, req.final)
    <3>1. DOMAIN snap' = {"baseline"}
      BY <2>2, <2>3 DEF WithSnapshot
    <3>2. Evidence = {} /\ Evidence' = {"baseline"}
      BY <2>1, <2>2, <3>1 DEF Evidence
    <3>3. QED
      BY <2>1, <2>2, <3>2 DEF PromiseStep, Promise!Collect
  <2>4. QED
    BY <2>1, <2>3, QuietStep
<1>2. ASSUME NEW written \in [Roles -> Values], NEW final \in Outputs,
             pc = "replay", Replayed(written, final)
      PROVE  PromiseStep
  <2> DEFINE agrees == Copied(written, final) /\ ReplayAgrees(final)
  <2>1. /\ snap' = IF Copied(written, final)
                     THEN WithSnapshot("replay", HashesOf(Roles), final)
                     ELSE snap
        /\ post' = [post EXCEPT !["replayable_aggregation"] =
                      IF agrees THEN "pass" ELSE "fail"]
    BY <1>2 DEF Replayed
  <2>2. /\ UNCHANGED <<action, version>> /\ action = "none"
        /\ DOMAIN snap = {"baseline"} /\ post["replayable_aggregation"] = "not_run"
        /\ post \in [PostChecks -> {"not_run", "pass", "fail"}]
    BY <1>2 DEF Replayed, Undecided, IInv, TypeOK, Progress, Outcome
  <2>3. post'["replayable_aggregation"] = IF agrees THEN "pass" ELSE "fail"
    BY <2>1, <2>2 DEF PostChecks
  <2>4. /\ "baseline" \in DOMAIN snap' /\ "removal" \notin DOMAIN snap'
    BY <2>1, <2>2 DEF WithSnapshot
  <2>5. Evidence = {"baseline"}
    BY <2>2 DEF Evidence
  <2>6. Evidence' = IF agrees THEN {"baseline", "agreeing_replay"} ELSE {"baseline"}
    BY <2>3, <2>4 DEF Evidence
  <2>7. QED
    BY <2>2, <2>5, <2>6 DEF PromiseStep, Promise!Collect, Promise!vars
<1>3. ASSUME NEW written \in [Retained(req) -> Values], NEW final \in Outputs,
             pc = "removal", Removed(written, final)
      PROVE  PromiseStep
  <2>1. /\ snap' = IF Copied(written, final)
                     THEN WithSnapshot("removal", HashesOf(Retained(req)), final)
                     ELSE snap
        /\ post' = [k \in PostChecks |->
                      IF k = "replayable_aggregation" THEN post[k]
                      ELSE IF Copied(written, final) THEN "pass" ELSE "fail"]
    BY <1>3 DEF Removed
  <2>2. /\ UNCHANGED <<action, version>> /\ action = "none"
        /\ DOMAIN snap = {"baseline", "replay"}
        /\ post["replayable_aggregation"] = "pass"
    BY <1>3 DEF Removed, Undecided, IInv, Progress, Outcome
  <2>3. post'["replayable_aggregation"] = "pass"
    BY <2>1, <2>2 DEF PostChecks
  <2>4. Evidence = {"baseline", "agreeing_replay"}
    BY <2>2 DEF Evidence
  <2>5. CASE Copied(written, final)
    <3>1. DOMAIN snap' = {"baseline", "replay", "removal"}
      BY <2>1, <2>2, <2>5 DEF WithSnapshot
    <3>2. Evidence' = Promise!AllEvidence
      BY <2>3, <3>1 DEF Evidence, Promise!AllEvidence
    <3>3. QED
      BY <2>2, <2>4, <3>2 DEF PromiseStep, Promise!Collect
  <2>6. CASE ~Copied(written, final)
    BY <2>1, <2>2, <2>3, <2>6, QuietStep
  <2>7. QED
    BY <2>5, <2>6
<1>4. CASE Raise("answer")
  BY <1>4, QuietStep DEF Raise, Undecided
<1>5. QED
  BY <1>1, <1>2, <1>3, <1>4 DEF Replay, Removal

LEMMA DecideStep ==
  ASSUME IInv, pc = "summary", Return
  PROVE  PromiseStep
<1>1. Return /\ pc = "summary"
  OBVIOUS
<1>2. action = "none" /\ version = "input" /\ Evidence' = Evidence
  BY <1>1 DEF Return, IInv, Outcome, Evidence
<1>3. CASE Valid
  <2>1. /\ Passes(req)
        /\ \A k \in PostChecks : post[k] = "pass"
    BY <1>3 DEF Valid
  <2>2. Evidence = Promise!AllEvidence
    BY <2>1 DEF IInv, ReplayEvidence, RemovalEvidence, PostChecks, Evidence,
      Promise!AllEvidence
  <2>3. action' = "REMOVE" /\ version' = "output"
    BY <1>1, <1>3 DEF Return, EffectiveVersion
  <2>4. QED
    BY <1>2, <2>2, <2>3 DEF PromiseStep, Promise!Remove
<1>4. CASE ~Valid
  <2>1. action' = "KEEP" /\ version' = version
    BY <1>1, <1>2, <1>4 DEF Return, EffectiveVersion
  <2>2. QED
    BY <1>2, <2>1 DEF PromiseStep, Promise!Keep
<1>5. QED
  BY <1>3, <1>4

\* Every call of the runner keeps the promise of a single-role removal: it
\* collects the evidence in order, decides once, removes only on complete
\* evidence, and leaves the team version alone when it abstains.
THEOREM Refinement == Spec => KeepsThePromise
<1>1. Init => Promise!Init
  BY DEF Init, Promise!Init, Evidence, PostChecks
<1>2. IInv /\ [Next]_vars => [Promise!Next]_(Promise!vars)
  <2> SUFFICES ASSUME IInv, [Next]_vars PROVE PromiseStep
    BY DEF PromiseStep, Promise!Next
  <2>1. CASE ReadIdentity
    BY <2>1, QuietStep DEF ReadIdentity, Raise, Undecided
  <2>2. CASE RunPreflight \/ Replay \/ Removal
    BY <2>2, CollectSteps
  <2>3. CASE AggregatorRaises
    <3>1. UNCHANGED <<snap, action, version>>
      BY <2>3 DEF AggregatorRaises, Undecided
    <3>2. (post'["replayable_aggregation"] = "pass")
            = (post["replayable_aggregation"] = "pass")
      BY <2>3 DEF AggregatorRaises, IInv, TypeOK, Progress, PostChecks
    <3>3. QED
      BY <3>1, <3>2, QuietStep
  <2>4. CASE Summarise
    <3>1. CASE Return
      BY <2>4, <3>1, DecideStep DEF Summarise
    <3>2. CASE Raise("validation")
      BY <3>2, QuietStep DEF Raise, Undecided
    <3>3. QED
      BY <2>4, <3>1, <3>2 DEF Summarise
  <2>5. CASE UNCHANGED vars
    BY <2>5, QuietStep DEF vars
  <2>6. QED
    BY <2>1, <2>2, <2>3, <2>4, <2>5 DEF Next
<1>3. QED
  BY <1>1, <1>2, Inductive, PTL DEF Spec, KeepsThePromise, Promise!Spec

=============================================================================
