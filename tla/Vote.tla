-------------------------------- MODULE Vote --------------------------------
(***************************************************************************)
(* How the deterministic majority decides: the most voted answer, the      *)
(* first one in the alphabet among several.                                *)
(*                                                                         *)
(* A letter is its position in the alphabet, so that the lexicographic     *)
(* order of letters is the order of numbers.  v maps the roles with a      *)
(* valid vote to their letters.                                            *)
(***************************************************************************)
EXTENDS Integers, FiniteSets, FiniteSetsExt

CONSTANTS
  L,       \* number of options of the task
  NoVote   \* the answer of an invalid parse, and of an empty vote

Letters == 1..L

NoResult == [selected |-> NoVote, strict |-> FALSE, tie |-> FALSE]

Count(v, x) == Cardinality({r \in DOMAIN v : v[r] = x})
Cast(v) == {v[r] : r \in DOMAIN v}
Maximum(v) == Max({Count(v, x) : x \in Cast(v)})
Leaders(v) == {x \in Cast(v) : Count(v, x) = Maximum(v)}

StrictMajority(v) == 2 * Maximum(v) > Cardinality(DOMAIN v)
FirstLeader(v) == Min(Leaders(v))

Decide(v) ==
  IF v = <<>> THEN NoResult
  ELSE [selected |-> FirstLeader(v), strict |-> StrictMajority(v),
        tie |-> ~StrictMajority(v) /\ Cardinality(Leaders(v)) > 1]
=============================================================================
