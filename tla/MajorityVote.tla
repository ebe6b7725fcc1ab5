---------------------------- MODULE MajorityVote ----------------------------
(***************************************************************************)
(* One call of DeterministicMajorityAggregator.aggregate: check the role   *)
(* outputs, count the valid votes, select the answer and hand it to the    *)
(* schema of the result.                                                   *)
(*                                                                         *)
(* A response names its role, carries a vote, and is sound when its output *)
(* hashes to the recorded hash, names the role and was parsed with the     *)
(* options of the task.                                                    *)
(***************************************************************************)
EXTENDS Vote, Sequences

\* valid_votes and invalid_role_ids.
ValidVotes(responses) ==
  LET valid == {k \in DOMAIN responses : responses[k].vote # NoVote} IN
  [r \in {responses[k].role : k \in valid} |->
     responses[Max({k \in valid : responses[k].role = r})].vote]
InvalidRoles(responses) ==
  {responses[k].role : k \in {j \in DOMAIN responses : responses[j].vote = NoVote}}

(* MajorityVoteResult.validate_vote_evidence: the parts that do not repeat *)
(* the computation.                                                        *)
ResultAccepted(responses) ==
  LET roles == {responses[k].role : k \in DOMAIN responses} IN
  /\ responses # <<>>
  /\ Cardinality(roles) = Len(responses)
  /\ DOMAIN ValidVotes(responses) \cap InvalidRoles(responses) = {}

\* Mutant: the outputs are not checked against their hashes.
AggregatesUnchecked(responses) == ResultAccepted(responses)

\* The call returns, and what it returns; otherwise it raises.
Aggregates(responses) ==
  (\A k \in DOMAIN responses : responses[k].sound) /\ ResultAccepted(responses)
Aggregate(responses) == Decide(ValidVotes(responses))
=============================================================================
