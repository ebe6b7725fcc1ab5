---------------------------- MODULE Intervention ----------------------------
(***************************************************************************)
(* What a single-role removal promises, whatever the protocol that carries *)
(* it out: the external action is KEEP unless the evidence is complete, it *)
(* is decided once, and a KEEP leaves the team version alone.  Both the    *)
(* parallel re-aggregation and the sequential bypass are shown to          *)
(* implement this module.                                                  *)
(*                                                                         *)
(* Evidence is collected in a fixed order: the recorded baseline, a replay *)
(* of its aggregation that agrees with the record, and only then an        *)
(* aggregation without the removed role.                                   *)
(***************************************************************************)

VARIABLES
  decision,   \* "undecided", "KEEP" or "REMOVE": InterventionRecord.action
  version,    \* "input" or "output": InterventionRecord.output_team_version
  evidence    \* the aggregation evidence gathered so far

vars == <<decision, version, evidence>>

AllEvidence == {"baseline", "agreeing_replay", "counterfactual"}

TypeOK ==
  /\ decision \in {"undecided", "KEEP", "REMOVE"}
  /\ version \in {"input", "output"}
  /\ evidence \in SUBSET AllEvidence

Init ==
  /\ decision = "undecided"
  /\ version = "input"
  /\ evidence = {}

\* One more piece of evidence, in the fixed order.
Collect ==
  /\ decision = "undecided"
  /\ \/ evidence = {} /\ evidence' = {"baseline"}
     \/ evidence = {"baseline"} /\ evidence' = {"baseline", "agreeing_replay"}
     \/ evidence = {"baseline", "agreeing_replay"} /\ evidence' = AllEvidence
  /\ UNCHANGED <<decision, version>>

\* Abstain: always allowed, changes nothing but the decision.
Keep ==
  /\ decision = "undecided"
  /\ decision' = "KEEP"
  /\ UNCHANGED <<version, evidence>>

Remove ==
  /\ decision = "undecided"
  /\ evidence = AllEvidence
  /\ decision' = "REMOVE"
  /\ version' = "output"
  /\ UNCHANGED evidence

Next == Collect \/ Keep \/ Remove

Spec == Init /\ [][Next]_vars

=============================================================================
