------------------------------ MODULE MCPosthoc -----------------------------
(***************************************************************************)
(* Two tasks with three roles and three options: every vote, up to the     *)
(* order of the roles, which all are removed, in the first; a vote with an *)
(* invalid answer in the second.  Two processes, and one file that is      *)
(* changed at any time.                                                    *)
(***************************************************************************)
EXTENDS Posthoc, TLC

CONSTANTS p1, p2

MCProcs == {p1, p2}
Symmetry == Permutations(MCProcs)

Place(answer) == IF answer = NoVote THEN 0 ELSE answer
Sorted(votes) == \A q, r \in Roles : q < r => Place(votes[q]) <= Place(votes[r])
MCSources ==
  {[t \in Tasks |-> IF t = 1 THEN votes ELSE <<2, NoVote, 1>>] :
     votes \in {v \in [Roles -> Answers] : Sorted(v)}}
MCWritten == {2, NoVote}
MCGolds == {<<g, 1>> : g \in Letters}
=============================================================================
