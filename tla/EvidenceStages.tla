--------------------------- MODULE EvidenceStages ---------------------------
(***************************************************************************)
(* What a gated experiment promises about its evidence: the baseline       *)
(* answers are sealed first, then the answers after the removals, only     *)
(* then is the gold data opened, and the score compares exactly the two    *)
(* sealed sets of answers.  A stage once passed is never entered again and *)
(* what it sealed never changes.                                           *)
(***************************************************************************)
CONSTANTS
  Tasks,    \* the tasks of the experiment
  Answers   \* what a vote over role outputs can select

VARIABLES
  stage,    \* the last stage that was passed
  baseline, \* the sealed baseline answers, empty before
  removal,  \* the sealed answers after the removals, empty before
  scored    \* the pairs of answers that were scored, empty before

vars == <<stage, baseline, removal, scored>>

Empty == [t \in {} |-> {}]

Init ==
  /\ stage = "executing"
  /\ baseline = Empty /\ removal = Empty /\ scored = Empty

SealExecution ==
  /\ stage = "executing" /\ stage' = "executed"
  /\ baseline' \in [Tasks -> Answers]
  /\ UNCHANGED <<removal, scored>>

SealRemovals ==
  /\ stage = "executed" /\ stage' = "removed"
  /\ removal' \in [Tasks -> Answers]
  /\ UNCHANGED <<baseline, scored>>

OpenGold ==
  /\ stage = "removed" /\ stage' = "gold"
  /\ UNCHANGED <<baseline, removal, scored>>

Score ==
  /\ stage = "gold" /\ stage' = "scored"
  /\ scored' = [t \in Tasks |-> <<baseline[t], removal[t]>>]
  /\ UNCHANGED <<baseline, removal>>

Complete ==
  /\ stage = "scored" /\ stage' = "complete"
  /\ UNCHANGED <<baseline, removal, scored>>

Next == SealExecution \/ SealRemovals \/ OpenGold \/ Score \/ Complete

Spec == Init /\ [][Next]_vars
=============================================================================
