---------------------------- MODULE ScoreSignal -----------------------------
(***************************************************************************)
(* The structured-score signal: every role gives each option a score, the  *)
(* team's answer is the option with the highest total, and what a role is  *)
(* worth is read off the totals with and without it.                       *)
(*                                                                         *)
(* outputs maps the roles to their parsed outputs, None for one that did   *)
(* not parse; S is the set of roles that are aggregated; order ranks the   *)
(* options of the task.                                                    *)
(***************************************************************************)
EXTENDS Integers, FiniteSets, FiniteSetsExt

CONSTANTS
  L,     \* number of options
  Total, \* what the scores of an output add up to
  None   \* an output that did not parse, an answer that is not there

Letters == 1..L

\* OptionScoreVector: a score for every option, adding up to the total.
ScoreVector == {v \in [Letters -> 0..Total] : MapThenSumSet(LAMBDA o : v[o], Letters) = Total}

\* deterministic_tie_order: some permutation, the same for every aggregation
\* of the task.
TieOrder == {f \in [Letters -> Letters] : \A o, p \in Letters : f[o] = f[p] => o = p}

Scorable(outputs, S) == \A r \in S : outputs[r] # None

TotalScore(outputs, S) ==
  [o \in Letters |-> MapThenSumSet(LAMBDA r : outputs[r].scores[o], S)]

TiedOptions(total) == {o \in Letters : \A p \in Letters : total[p] <= total[o]}
Selected(total, order) ==
  CHOOSE o \in TiedOptions(total) : \A p \in TiedOptions(total) : order[o] <= order[p]

Aggregation(outputs, S, order) ==
  IF ~Scorable(outputs, S) THEN None
  ELSE LET total == TotalScore(outputs, S) IN
       [total |-> total, roles |-> Cardinality(S),
        selected |-> Selected(total, order), tie |-> Cardinality(TiedOptions(total)) > 1]

\* The mean score of gold above the best wrong option; the numerator over the
\* number of roles.
GoldMargin(total, gold) == total[gold] - Max({total[o] : o \in Letters \ {gold}})

\* Mutant: the totals are compared as if they were means.
SoftKeepValueOfTotals(b, r, gold) == GoldMargin(b.total, gold) - GoldMargin(r.total, gold)

\* Margin with the role minus margin without it, over the product of the two
\* numbers of roles.
SoftKeepValue(b, r, gold) ==
  GoldMargin(b.total, gold) * r.roles - GoldMargin(r.total, gold) * b.roles

Correct(a, gold) == IF a.selected = gold THEN 1 ELSE 0
HardKeepValue(b, r, gold) == Correct(b, gold) - Correct(r, gold)

Evaluation(b, r, gold) ==
  [hard |-> HardKeepValue(b, r, gold), soft |-> SoftKeepValue(b, r, gold),
   tie |-> b.tie \/ r.tie]
=============================================================================
