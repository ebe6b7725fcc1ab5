---------------------------- MODULE PosthocProofs ---------------------------
(***************************************************************************)
(* Theorems about the vote, for any number of options and of roles, and    *)
(* about Posthoc, for any number of tasks, any votes and any processes.    *)
(***************************************************************************)
EXTENDS Posthoc, FiniteSetTheorems, WellFoundedInduction, TLAPS

------------------------------------------------------------------------------
(* Min and Max of the community modules, from the well-foundedness of the   *)
(* naturals.                                                                *)

\* A set of naturals that is not empty has a least element, and Min is it.
LEMMA MinIsLeast ==
  ASSUME NEW S, S \subseteq Nat, S # {}
  PROVE  Min(S) \in S /\ \A y \in S : Min(S) <= y
<1>1. PICK x \in S : \A y \in S : <<y, x>> \notin OpToRel(<, Nat)
  BY NatLessThanWellFounded, WFMin, Zenon
<1>2. \A y \in S : ~(y < x)
  <2>1. ASSUME NEW y \in S, y < x PROVE <<y, x>> \in OpToRel(<, Nat)
    <3>1. <<y, x>> \in Nat \X Nat /\ <<y, x>>[1] < <<y, x>>[2]
      BY <2>1
    <3>2. QED
      BY <3>1, Zenon DEF OpToRel
  <2>2. QED
    BY <1>1, <2>1, Zenon
<1>3. \A y \in S : x <= y
  BY <1>2
<1>4. QED
  BY <1>3 DEF Min

\* A bounded set of naturals that is not empty has a greatest element.
LEMMA MaxIsGreatest ==
  ASSUME NEW n \in Nat, NEW S, S \subseteq 0..n, S # {}
  PROVE  Max(S) \in S /\ \A y \in S : y <= Max(S)
<1> DEFINE T == {n - x : x \in S}
<1>1. T \subseteq Nat /\ T # {}
  <2>1. \A x \in S : n - x \in Nat
    OBVIOUS
  <2>2. QED
    BY <2>1
<1>2. Min(T) \in T /\ \A y \in T : Min(T) <= y
  BY <1>1, MinIsLeast
<1>3. PICK x \in S : Min(T) = n - x
  BY <1>2
<1>4. \A y \in S : y <= x
  <2>1. ASSUME NEW y \in S PROVE y <= x
    <3>1. n - y \in T
      OBVIOUS
    <3>2. n - x <= n - y
      BY <1>2, <1>3, <3>1
    <3>3. QED
      BY <3>2
  <2>2. QED
    BY <2>1
<1>5. QED
  BY <1>4 DEF Max

------------------------------------------------------------------------------
(* What the vote decides.                                                   *)

\* The votes of finitely many roles, at least one.
Ballot(v) == IsFiniteSet(DOMAIN v) /\ DOMAIN v # {} /\ Cast(v) \subseteq Letters

LEMMA CountBounds ==
  ASSUME NEW v, Ballot(v), NEW x
  PROVE  /\ Count(v, x) \in 0..Cardinality(DOMAIN v)
         /\ Cardinality(DOMAIN v) \in Nat
<1> DEFINE S == {r \in DOMAIN v : v[r] = x}
<1>1. Cardinality(DOMAIN v) \in Nat
  BY FS_CardinalityType DEF Ballot
<1>2. IsFiniteSet(S) /\ Cardinality(S) <= Cardinality(DOMAIN v)
  BY FS_Subset DEF Ballot
<1>3. Cardinality(S) \in Nat
  BY <1>2, FS_CardinalityType
<1>4. QED
  BY <1>1, <1>2, <1>3 DEF Count

\* Some letter was cast as often as any.
LEMMA MaximumIsReached ==
  ASSUME NEW v, Ballot(v)
  PROVE  /\ \E x \in Cast(v) : Count(v, x) = Maximum(v)
         /\ \A x \in Cast(v) : Count(v, x) <= Maximum(v)
<1> DEFINE Counts == {Count(v, x) : x \in Cast(v)}
<1>1. Cast(v) # {}
  BY DEF Ballot, Cast
<1>2. Counts \subseteq 0..Cardinality(DOMAIN v) /\ Counts # {}
  BY <1>1, CountBounds
<1>3. Cardinality(DOMAIN v) \in Nat
  BY CountBounds
<1>4. Max(Counts) \in Counts /\ \A y \in Counts : y <= Max(Counts)
  BY <1>2, <1>3, MaxIsGreatest
<1>5. QED
  BY <1>4 DEF Maximum

(***************************************************************************)
(* What DeterministicMajorityAggregator decides is the letter that most of *)
(* the valid votes name, the first in the alphabet among several, and it   *)
(* calls a majority strict exactly when more than half of them name it.    *)
(***************************************************************************)
THEOREM DecidesThePlurality ==
  ASSUME NEW v, Ballot(v), L \in Nat
  PROVE  /\ Decide(v).selected \in Letters \cap Cast(v)
         /\ \A x \in Cast(v) :
              \/ Count(v, x) < Count(v, Decide(v).selected)
              \/ /\ Count(v, x) = Count(v, Decide(v).selected)
                 /\ Decide(v).selected <= x
         /\ Decide(v).strict <=>
              2 * Count(v, Decide(v).selected) > Cardinality(DOMAIN v)
<1>1. v # <<>>
  BY DEF Ballot
<1>2. Decide(v).selected = FirstLeader(v) /\ Decide(v).strict = StrictMajority(v)
  BY <1>1 DEF Decide
<1>3. Leaders(v) # {} /\ Leaders(v) \subseteq Nat /\ Leaders(v) \subseteq Letters
  BY MaximumIsReached DEF Leaders, Ballot, Letters
<1>4. FirstLeader(v) \in Leaders(v) /\ \A y \in Leaders(v) : FirstLeader(v) <= y
  BY <1>3, MinIsLeast DEF FirstLeader
<1>5. Count(v, FirstLeader(v)) = Maximum(v) /\ FirstLeader(v) \in Cast(v)
  BY <1>4 DEF Leaders
<1>6. ASSUME NEW x \in Cast(v)
      PROVE  \/ Count(v, x) < Maximum(v)
             \/ Count(v, x) = Maximum(v) /\ FirstLeader(v) <= x
  <2>1. Count(v, x) \in Nat /\ Maximum(v) \in Nat /\ Count(v, x) <= Maximum(v)
    BY <1>5, CountBounds, MaximumIsReached
  <2>2. CASE Count(v, x) = Maximum(v)
    BY <1>4, <2>2 DEF Leaders
  <2>3. QED
    BY <2>1, <2>2
<1>7. QED
  BY <1>2, <1>3, <1>4, <1>5, <1>6 DEF StrictMajority

\* A set is of more than one element when it has two that differ.
LEMMA TwoElements ==
  ASSUME NEW S, IsFiniteSet(S)
  PROVE  Cardinality(S) > 1 <=> \E x, y \in S : x # y
<1>1. Cardinality(S) \in Nat
  BY FS_CardinalityType
<1>2. ASSUME NEW x \in S, \A y \in S : y = x PROVE ~(Cardinality(S) > 1)
  <2>1. S = {x}
    BY <1>2
  <2>2. Cardinality(S) = 1
    BY <2>1, FS_Singleton
  <2>3. QED
    BY <2>2
<1>3. ASSUME S = {} PROVE ~(Cardinality(S) > 1)
  BY <1>3, FS_EmptySet
<1>4. ASSUME NEW x \in S, NEW y \in S, x # y PROVE Cardinality(S) > 1
  <2>1. Cardinality(S) # 0
    BY FS_EmptySet
  <2>2. Cardinality(S) # 1
    BY <1>4, FS_Singleton
  <2>3. QED
    BY <1>1, <2>1, <2>2
<1>5. QED
  BY <1>2, <1>3, <1>4

\* Two letters that lead leave no strict majority.
LEMMA TwoLeaders ==
  ASSUME NEW v, Ballot(v), NEW x \in Leaders(v), NEW y \in Leaders(v), x # y
  PROVE  ~StrictMajority(v)
<1> DEFINE X == {r \in DOMAIN v : v[r] = x}
           Y == {r \in DOMAIN v : v[r] = y}
<1>1. Cardinality(X) = Maximum(v) /\ Cardinality(Y) = Maximum(v)
  BY DEF Leaders, Count
<1>2. IsFiniteSet(X) /\ IsFiniteSet(Y)
  BY FS_Subset DEF Ballot
<1>3. X \cap Y = {} /\ X \cup Y \subseteq DOMAIN v
  OBVIOUS
<1> HIDE DEF X, Y
<1>4. Cardinality(X \cup Y) = Cardinality(X) + Cardinality(Y) - Cardinality(X \cap Y)
  BY <1>2, FS_Union
<1>5. Cardinality(X \cap Y) = 0
  BY <1>3, FS_EmptySet
<1>6. Cardinality(X \cup Y) <= Cardinality(DOMAIN v)
  BY <1>3, FS_Subset DEF Ballot
<1>7. Maximum(v) \in Nat /\ Cardinality(DOMAIN v) \in Nat
  BY <1>1, <1>2, FS_CardinalityType DEF Ballot
<1>8. QED
  BY <1>1, <1>4, <1>5, <1>6, <1>7 DEF StrictMajority

------------------------------------------------------------------------------
(* The vote of a set of roles, seen from the votes of the task.             *)

LEMMA RolesAreFinite ==
  /\ IsFiniteSet(Roles)
  /\ \A S \in SUBSET Roles : IsFiniteSet(S)
<1>1. IsFiniteSet(Roles)
  BY PosthocAssumption, FS_Interval DEF Roles
<1>2. QED
  BY <1>1, FS_Subset, Zenon

LEMMA TallyIsNat ==
  ASSUME NEW votes, NEW S \in SUBSET Roles, NEW x
  PROVE  Tally(votes, S, x) \in Nat
<1>1. IsFiniteSet({r \in S : votes[r] = x})
  BY RolesAreFinite, FS_Subset
<1>2. QED
  BY <1>1, FS_CardinalityType DEF Tally

\* Nobody else wins.
LEMMA OneWins ==
  ASSUME NEW votes, NEW S \in SUBSET Roles, NEW x \in Answers, NEW y \in Answers,
         Wins(votes, S, x), Wins(votes, S, y)
  PROVE  x = y
<1>1. CASE \A r \in S : votes[r] = NoVote
  BY <1>1 DEF Wins
<1>2. CASE ~(\A r \in S : votes[r] = NoVote)
  <2>1. x \in Letters /\ y \in Letters
    BY <1>2 DEF Wins, Answers
  <2>2. /\ \/ Tally(votes, S, y) < Tally(votes, S, x)
           \/ Tally(votes, S, y) = Tally(votes, S, x) /\ y >= x
        /\ \/ Tally(votes, S, x) < Tally(votes, S, y)
           \/ Tally(votes, S, x) = Tally(votes, S, y) /\ x >= y
    BY <1>2, <2>1 DEF Wins
  <2>3. x \in Int /\ y \in Int
    BY <2>1, PosthocAssumption DEF Letters
  <2>4. QED
    BY <2>2, <2>3, TallyIsNat
<1>3. QED
  BY <1>1, <1>2

\* The valid votes of the roles of S.
Valid(votes, S) == [r \in {q \in S : votes[q] # NoVote} |-> votes[r]]

\* Decide gives the winner, and marks the tie that decided.
LEMMA DecideWins ==
  ASSUME NEW votes \in [Roles -> Answers], NEW S \in SUBSET Roles
  PROVE  LET d == Decide(Valid(votes, S)) IN
         /\ Wins(votes, S, d.selected) /\ d.selected \in Answers
         /\ d.tie \in BOOLEAN /\ (d.tie <=> TiedIn(votes, S))
<1> DEFINE v == Valid(votes, S)
           D == {q \in S : votes[q] # NoVote}
<1>1. DOMAIN v = D /\ \A r \in D : v[r] = votes[r]
  BY DEF Valid
<1>2. D \subseteq Roles /\ IsFiniteSet(D)
  BY RolesAreFinite
<1>3. Cast(v) \subseteq Letters
  <2>1. ASSUME NEW r \in D PROVE v[r] \in Letters
    <3>1. votes[r] \in Answers /\ votes[r] # NoVote
      OBVIOUS
    <3>2. QED
      BY <1>1, <3>1 DEF Answers
  <2>2. QED
    BY <1>1, <2>1 DEF Cast
<1>4. v = <<>> <=> D = {}
  BY DEF Valid
<1>5. ASSUME NEW x \in Letters PROVE Count(v, x) = Tally(votes, S, x)
  <2>1. {r \in D : v[r] = x} = {r \in S : votes[r] = x}
    BY <1>1, PosthocAssumption
  <2>2. QED
    BY <1>1, <2>1 DEF Count, Tally
<1>6. CASE D = {}
  <2>1. \A r \in S : votes[r] = NoVote
    BY <1>6
  <2>2. Decide(v) = NoResult
    BY <1>4, <1>6 DEF Decide
  <2>3. ~TiedIn(votes, S)
    BY <2>1, PosthocAssumption DEF TiedIn, Wins
  <2>4. QED
    BY <2>1, <2>2, <2>3 DEF NoResult, Wins, Answers
<1>7. CASE D # {}
  <2>1. Ballot(v) /\ v # <<>>
    BY <1>1, <1>2, <1>3, <1>4, <1>7 DEF Ballot
  <2> DEFINE w == FirstLeader(v)
  <2>2. Decide(v).selected = w /\ Decide(v).tie = (~StrictMajority(v) /\ Cardinality(Leaders(v)) > 1)
    BY <2>1 DEF Decide
  <2> HIDE DEF v, D
  <2>3. /\ w \in Letters /\ w \in Cast(v)
        /\ \A x \in Cast(v) : Count(v, x) < Count(v, w) \/ (Count(v, x) = Count(v, w) /\ w <= x)
    <3>1. L \in Nat
      BY PosthocAssumption
    <3>2. /\ Decide(v).selected \in Letters \cap Cast(v)
          /\ \A x \in Cast(v) :
               \/ Count(v, x) < Count(v, Decide(v).selected)
               \/ /\ Count(v, x) = Count(v, Decide(v).selected)
                  /\ Decide(v).selected <= x
      BY <2>1, <3>1, DecidesThePlurality
    <3>3. QED
      BY <2>2, <3>2, Zenon
  <2> HIDE DEF w
  <2>4. ASSUME NEW x \in Letters PROVE x \in Cast(v) <=> Tally(votes, S, x) > 0
    <3>1. x \in Cast(v) <=> {r \in DOMAIN v : v[r] = x} # {}
      BY DEF Cast
    <3>2. IsFiniteSet({r \in DOMAIN v : v[r] = x})
      BY <1>1, <1>2, FS_Subset
    <3>3. Cardinality({r \in DOMAIN v : v[r] = x}) \in Nat
          /\ (Cardinality({r \in DOMAIN v : v[r] = x}) = 0 <=> {r \in DOMAIN v : v[r] = x} = {})
      BY <3>2, FS_CardinalityType, FS_EmptySet
    <3>4. QED
      BY <1>5, <3>1, <3>3 DEF Count
  <2>5. ASSUME NEW x \in Letters
        PROVE  Tally(votes, S, x) < Tally(votes, S, w) \/ (Tally(votes, S, x) = Tally(votes, S, w) /\ x >= w)
    <3>1. Tally(votes, S, x) \in Nat /\ Tally(votes, S, w) \in Nat
      BY TallyIsNat
    <3>2. Tally(votes, S, w) > 0
      BY <2>3, <2>4
    <3>3. CASE x \in Cast(v)
      <4>1. x \in Int /\ w \in Int
        BY <2>3, PosthocAssumption DEF Letters
      <4>2. QED
        BY <1>5, <2>3, <3>3, <4>1
    <3>4. CASE x \notin Cast(v)
      <4>1. ~(Tally(votes, S, x) > 0)
        BY <2>4, <3>4
      <4>2. Tally(votes, S, x) < Tally(votes, S, w)
        BY <3>1, <3>2, <4>1
      <4>3. QED
        BY <4>2
    <3>5. QED
      BY <3>3, <3>4
  <2>6. ~(\A r \in S : votes[r] = NoVote)
    BY <1>7 DEF D
  <2>7. Wins(votes, S, w)
    BY <2>3, <2>4, <2>5, <2>6, PosthocAssumption DEF Wins
  <2>8. ASSUME NEW x \in Letters PROVE x \in Leaders(v) <=> Tally(votes, S, x) = Tally(votes, S, w)
    <3>1. Maximum(v) = Count(v, w)
      <4>1. PICK z \in Cast(v) : Count(v, z) = Maximum(v)
        BY <2>1, MaximumIsReached
      <4>2. Count(v, w) <= Maximum(v)
        BY <2>1, <2>3, MaximumIsReached
      <4>3. Count(v, z) <= Count(v, w)
        BY <2>1, <2>3, CountBounds
      <4>4. Count(v, w) \in Nat /\ Count(v, z) \in Nat
        BY <2>1, CountBounds
      <4>5. QED
        BY <4>1, <4>2, <4>3, <4>4
    <3>2. Tally(votes, S, x) = Tally(votes, S, w) => x \in Cast(v)
      BY <2>3, <2>4
    <3>3. QED
      BY <1>5, <2>3, <3>1, <3>2 DEF Leaders
  <2>9. Leaders(v) \subseteq Letters /\ IsFiniteSet(Leaders(v))
    <3>1. Leaders(v) \subseteq Letters
      BY <1>3 DEF Leaders, v
    <3>2. IsFiniteSet(Letters)
      <4>1. 1 \in Int /\ L \in Int
        BY PosthocAssumption
      <4>2. QED
        BY <4>1, FS_Interval DEF Letters
    <3>3. QED
      BY <3>1, <3>2, FS_Subset
  <2>10. TiedIn(votes, S) <=> \E x, y \in Leaders(v) : x # y
    <3>1. ASSUME NEW x \in Letters, Wins(votes, S, x) PROVE x = w
      <4>1. x \in Answers /\ w \in Answers
        BY <2>3 DEF Answers
      <4>2. QED
        BY <2>7, <3>1, <4>1, OneWins
    <3>2. ASSUME TiedIn(votes, S) PROVE \E x, y \in Leaders(v) : x # y
      <4>1. PICK x \in Letters, y \in Letters :
              x # y /\ Wins(votes, S, x) /\ Tally(votes, S, y) = Tally(votes, S, x)
        BY <3>2 DEF TiedIn
      <4>2. x \in Leaders(v) /\ y \in Leaders(v)
        BY <2>8, <3>1, <4>1
      <4>3. QED
        BY <4>1, <4>2
    <3>3. ASSUME NEW x \in Leaders(v), NEW y \in Leaders(v), x # y PROVE TiedIn(votes, S)
      <4>1. PICK z \in Leaders(v) : z # w
        BY <3>3
      <4>2. z \in Letters /\ Tally(votes, S, z) = Tally(votes, S, w)
        BY <2>8, <2>9, <4>1
      <4>3. QED
        BY <2>3, <2>7, <4>1, <4>2 DEF TiedIn
    <3>4. QED
      BY <3>2, <3>3
  <2>11. Decide(v).tie <=> TiedIn(votes, S)
    <3>1. Cardinality(Leaders(v)) > 1 <=> TiedIn(votes, S)
      BY <2>9, <2>10, TwoElements
    <3>2. TiedIn(votes, S) => ~StrictMajority(v)
      BY <2>1, <2>10, TwoLeaders
    <3>3. QED
      BY <2>2, <3>1, <3>2
  <2>12. Decide(v).tie \in BOOLEAN
    BY <2>2
  <2>13. w \in Answers
    BY <2>3 DEF Answers
  <2>14. QED
    BY <2>2, <2>7, <2>11, <2>12, <2>13 DEF v
<1>8. QED
  BY <1>6, <1>7

------------------------------------------------------------------------------
(* The inductive invariant of Posthoc.                                      *)

Places ==
  {"idle", "make_root", "build", "write_state", "open_gold", "make_evaluation",
   "label", "seal_root"}
Building == {"build", "write_state"}
Evaluating == {"open_gold", "make_evaluation", "label", "seal_root"}

Checkpoint == [vote : Answers, sound : BOOLEAN]
RecordFiles == UNION {[S -> CounterfactualRecord] : S \in SUBSET Pairs}
LabelFiles == UNION {[S -> EvaluationRecord] : S \in SUBSET Pairs}
Memory ==
  [hash : RecordFiles \cup {None}, gold : [Tasks -> Letters] \cup {None}, next : Nat \ {0}]

TypeInv ==
  /\ source \in [votes : [Tasks -> [Roles -> Answers]], gold : [Tasks -> Letters]]
  /\ ckpts \in [Tasks -> [Roles -> Checkpoint]]
  /\ gold \in [Tasks -> Letters]
  /\ records \in RecordFiles \cup {None}
  /\ labels \in LabelFiles \cup {None}
  /\ pc \in [Procs -> Places]
  /\ mem \in [Procs -> Memory]
  /\ struck \in Change \cup {None}

\* What was not changed on disk is what Gate 6 sealed.
Intact ==
  /\ \A t \in Tasks :
       \/ ckpts[t] = Sealed(t)
       \/ Struck("replaced_checkpoint", t, 0)
       \/ \E r \in Roles : ~ckpts[t][r].sound
  /\ \A t \in Tasks : gold[t] = source.gold[t] \/ Struck("gold", t, 0)

\* The records of a task, as far as they are written, are of one vote.
OfOneVote(t, files) ==
  \E votes \in Readable(t) : \A r \in Roles :
    <<t, r>> \in DOMAIN files =>
      Struck("unsealed_record", t, r) \/ Follows(votes, r, files[<<t, r>>])
RecordsFollow ==
  /\ records # None /\ cfSeal = None => \A t \in Tasks : OfOneVote(t, records)
  /\ cfSeal # None => DOMAIN cfSeal = Pairs /\ \A t \in Tasks : OfOneVote(t, cfSeal)

\* One process builds, the one that made the output root, and it goes through
\* the tasks in their order.
OneBuilds ==
  \A p \in Procs :
    /\ pc[p] \in Building =>
         records # None /\ \A q \in Procs : pc[q] \in Building => q = p
    /\ pc[p] = "make_root" => mem[p].next = 1
    /\ pc[p] = "build" =>
         /\ cfSeal = None /\ mem[p].next <= N + 1
         /\ DOMAIN records = (1..(mem[p].next - 1)) \X Roles
    /\ pc[p] = "write_state" => cfSeal # None

\* What is sealed is whole.
SealedIsWhole == cfSeal # None => records # None /\ DOMAIN records = Pairs

\* Evaluation comes after the build that sealed the records, and ends it.
Evaluated ==
  state # None \/ goldOpened \/ labels # None \/ \E p \in Procs : pc[p] \in Evaluating
BuildComesFirst ==
  Evaluated => cfSeal # None /\ \A p \in Procs : pc[p] # "write_state"

\* One process labels, the one that made the evaluation directory, and it goes
\* through the pairs in the order of the record files.
OneLabels ==
  \A p \in Procs :
    /\ pc[p] \in {"open_gold", "make_evaluation"} => mem[p].next = 1
    /\ pc[p] \in {"make_evaluation", "label"} => mem[p].gold \in [Tasks -> Letters]
    /\ pc[p] \in {"label", "seal_root"} => labels # None
    /\ pc[p] = "label" =>
         /\ mem[p].next <= N * R + 1
         /\ DOMAIN labels = {Pair(k) : k \in 1..(mem[p].next - 1)}
         /\ \A q \in Procs : pc[q] = "label" => q = p

\* A record an evaluation reads is the sealed one, and gold data it holds that
\* which Gate 6 sealed, but for the change on disk.
OfTheSeal(x, record) == record = cfSeal[x] \/ Struck("checked_record", x[1], x[2])
OfTheSource(t, g) == g = source.gold[t] \/ (Struck("gold", t, 0) /\ g = gold[t])
Traced ==
  \A p \in Procs :
    /\ pc[p] \in {"open_gold", "make_evaluation"} => \A x \in Pairs : OfTheSeal(x, records[x])
    /\ pc[p] = "label" => \A x \in Pairs \ DOMAIN labels : OfTheSeal(x, records[x])
    /\ pc[p] \in {"make_evaluation", "label"} =>
         \A t \in Tasks : OfTheSource(t, mem[p].gold[t])

\* A label is that of the record it holds and of the gold answer.
LabelsFollow ==
  labels # None =>
    \A x \in DOMAIN labels :
      /\ OfTheSeal(x, labels[x].record)
      /\ \E g \in Letters :
           OfTheSource(x[1], g) /\ labels[x].keep = KeepValue(labels[x].record, g)
      /\ labels[x].tie = labels[x].record.tie

\* The root is sealed, and what it seals is verified, with labels.
LabelsAreSealed ==
  /\ VerifiedLabelsAreTraced
  /\ rootSeal # None => rootSeal.labels # None
  /\ report # None => cfSeal # None

IInv ==
  /\ TypeInv /\ Intact /\ RecordsFollow /\ OneBuilds /\ SealedIsWhole
  /\ BuildComesFirst /\ OneLabels /\ Traced /\ LabelsFollow /\ LabelsAreSealed

------------------------------------------------------------------------------
(* The records a build writes.                                              *)

\* The votes of a checkpoint.
Held(t) == [r \in Roles |-> ckpts[t][r].vote]

\* What the aggregator counts of the checkpoint of a task.
LEMMA CountsTheHeldVotes ==
  ASSUME NEW t \in Tasks, NEW n \in Nat, NEW roles \in [1..n -> Roles],
         \A i, j \in 1..n : roles[i] = roles[j] => i = j
  PROVE  ValidVotes(Responses(t, roles)) = Valid(Held(t), {roles[k] : k \in 1..n})
<1> DEFINE res == Responses(t, roles)
           S == {roles[k] : k \in 1..n}
           held == Held(t)
<1>1. /\ DOMAIN res = 1..n
      /\ \A k \in 1..n : res[k].role = roles[k] /\ res[k].vote = ckpts[t][roles[k]].vote
  BY DEF Responses
<1>2. ASSUME NEW k \in 1..n PROVE res[k].vote = held[roles[k]]
  BY <1>1 DEF Held
<1> HIDE DEF res, held
<1> DEFINE valid == {k \in DOMAIN res : res[k].vote # NoVote}
<1>3. {res[k].role : k \in valid} = {r \in S : held[r] # NoVote}
  <2>1. ASSUME NEW k \in valid PROVE res[k].role \in S /\ held[res[k].role] # NoVote
    BY <1>1, <1>2
  <2>2. ASSUME NEW r \in S, held[r] # NoVote PROVE \E k \in valid : r = res[k].role
    <3>1. PICK k \in 1..n : r = roles[k]
      OBVIOUS
    <3>2. k \in valid
      BY <1>1, <1>2, <2>2, <3>1
    <3>3. QED
      BY <1>1, <3>1, <3>2
  <2>3. QED
    BY <2>1, <2>2
<1>4. ASSUME NEW r \in {q \in S : held[q] # NoVote}
      PROVE  res[Max({k \in valid : res[k].role = r})].vote = held[r]
  <2>1. PICK k \in valid : res[k].role = r
    BY <1>3
  <2>2. {j \in valid : res[j].role = r} = {k}
    BY <1>1, <2>1
  <2>3. Max({k}) = k
    BY <1>1, <2>1 DEF Max
  <2>4. res[k].vote = held[r]
    BY <1>1, <1>2, <2>1
  <2>5. QED
    BY <2>2, <2>3, <2>4
<1>5. ValidVotes(res) =
        [r \in {res[k].role : k \in valid} |->
           res[Max({k \in valid : res[k].role = r})].vote]
  BY DEF ValidVotes
<1> HIDE DEF valid, S
<1>6. QED
  BY <1>3, <1>4, <1>5 DEF Valid, S, res, held

\* The team without a role.
LEMMA Rosters ==
  ASSUME NEW r \in Roles
  PROVE  /\ AllRoles \in [1..R -> Roles] /\ R \in Nat
         /\ \A i, j \in 1..R : AllRoles[i] = AllRoles[j] => i = j
         /\ {AllRoles[k] : k \in 1..R} = Roles
         /\ Retained(r) \in [1..(R - 1) -> Roles] /\ R - 1 \in Nat
         /\ \A i, j \in 1..(R - 1) : Retained(r)[i] = Retained(r)[j] => i = j
         /\ {Retained(r)[k] : k \in 1..(R - 1)} = Roles \ {r}
<1>1. R \in Nat /\ R >= 1 /\ R - 1 \in Nat /\ Roles = 1..R
  BY PosthocAssumption DEF Roles
<1>2. /\ AllRoles \in [1..R -> Roles]
      /\ \A i, j \in 1..R : AllRoles[i] = AllRoles[j] => i = j
      /\ {AllRoles[k] : k \in 1..R} = Roles
  BY <1>1 DEF AllRoles
<1>3. \A k \in 1..(R - 1) : Retained(r)[k] = IF k < r THEN k ELSE k + 1
  BY DEF Retained
<1>4. \A k \in 1..(R - 1) : Retained(r)[k] \in Roles \ {r}
  BY <1>1, <1>3
<1>5. Retained(r) \in [1..(R - 1) -> Roles]
  BY <1>4 DEF Retained
<1>6. \A i, j \in 1..(R - 1) : Retained(r)[i] = Retained(r)[j] => i = j
  BY <1>1, <1>3
<1>7. ASSUME NEW q \in Roles \ {r} PROVE \E k \in 1..(R - 1) : Retained(r)[k] = q
  <2>1. CASE q < r
    <3>1. q \in 1..(R - 1)
      BY <1>1, <2>1
    <3>2. QED
      BY <1>3, <2>1, <3>1
  <2>2. CASE q > r
    <3>1. q - 1 \in 1..(R - 1) /\ ~(q - 1 < r) /\ q - 1 + 1 = q
      BY <1>1, <2>2
    <3>2. QED
      BY <1>3, <3>1
  <2>3. QED
    BY <1>1, <2>1, <2>2
<1>8. {Retained(r)[k] : k \in 1..(R - 1)} = Roles \ {r}
  BY <1>4, <1>7
<1>9. QED
  BY <1>1, <1>2, <1>5, <1>6, <1>8

\* A record follows the votes of the checkpoint.
LEMMA RecordFollows ==
  ASSUME TypeInv, NEW t \in Tasks, NEW r \in Roles
  PROVE  Record(t, r) \in CounterfactualRecord /\ Follows(Held(t), r, Record(t, r))
<1> DEFINE b == Aggregate(Responses(t, AllRoles))
           m == Aggregate(Responses(t, Retained(r)))
           rec == Record(t, r)
<1>1. b = Decide(Valid(Held(t), Roles)) /\ m = Decide(Valid(Held(t), Roles \ {r}))
  <2>1. ValidVotes(Responses(t, AllRoles)) = Valid(Held(t), Roles)
    <3>1. ValidVotes(Responses(t, AllRoles)) = Valid(Held(t), {AllRoles[k] : k \in 1..R})
      <4> HIDE DEF b, m, rec
      <4>1. /\ R \in Nat /\ AllRoles \in [1..R -> Roles]
            /\ \A i, j \in 1..R : AllRoles[i] = AllRoles[j] => i = j
        BY Rosters
      <4>2. QED
        BY <4>1, CountsTheHeldVotes
    <3>2. QED
      BY <3>1, Rosters
  <2>2. ValidVotes(Responses(t, Retained(r))) = Valid(Held(t), Roles \ {r})
    <3>1. ValidVotes(Responses(t, Retained(r)))
            = Valid(Held(t), {Retained(r)[k] : k \in 1..(R - 1)})
      <4> HIDE DEF b, m, rec
      <4>1. /\ R - 1 \in Nat /\ Retained(r) \in [1..(R - 1) -> Roles]
            /\ \A i, j \in 1..(R - 1) : Retained(r)[i] = Retained(r)[j] => i = j
        BY Rosters
      <4>2. QED
        BY <4>1, CountsTheHeldVotes
    <3>2. QED
      BY <3>1, Rosters
  <2>3. QED
    BY <2>1, <2>2 DEF Aggregate
<1>2. Held(t) \in [Roles -> Answers] /\ Roles \in SUBSET Roles
      /\ Roles \ {r} \in SUBSET Roles
  BY DEF TypeInv, Held, Checkpoint
<1>3. /\ Wins(Held(t), Roles, b.selected) /\ b.selected \in Answers
      /\ b.tie \in BOOLEAN /\ (b.tie <=> TiedIn(Held(t), Roles))
  BY <1>1, <1>2, DecideWins
<1>4. /\ Wins(Held(t), Roles \ {r}, m.selected) /\ m.selected \in Answers
      /\ m.tie \in BOOLEAN /\ (m.tie <=> TiedIn(Held(t), Roles \ {r}))
  BY <1>1, <1>2, DecideWins
<1>5. rec = [baseline |-> b.selected, removal |-> m.selected, tie |-> b.tie \/ m.tie,
             invalid |-> InvalidRoles(Responses(t, AllRoles)) # {}]
  BY DEF Record
<1> HIDE DEF b, m, rec
<1>6. rec \in CounterfactualRecord
  BY <1>3, <1>4, <1>5 DEF CounterfactualRecord
<1>7. rec.baseline = b.selected /\ rec.removal = m.selected /\ (rec.tie <=> b.tie \/ m.tie)
  BY <1>5
<1>8. Follows(Held(t), r, rec)
  BY <1>3, <1>4, <1>7 DEF Follows
<1>9. QED
  BY <1>6, <1>8 DEF rec

\* The aggregator refuses an output that does not hash, so that a build reads
\* the votes Gate 6 sealed or those that took their place.
LEMMA HeldIsReadable ==
  ASSUME TypeInv, Intact, NEW t \in Tasks, Aggregates(Responses(t, AllRoles))
  PROVE  Held(t) \in Readable(t)
<1>1. \A r \in Roles : ckpts[t][r].sound
  <2>1. ASSUME NEW r \in Roles PROVE ckpts[t][r].sound
    <3>1. r \in 1..R /\ AllRoles[r] = r
      BY DEF Roles, AllRoles
    <3>2. r \in DOMAIN Responses(t, AllRoles)
          /\ Responses(t, AllRoles)[r].sound = ckpts[t][AllRoles[r]].sound
      BY <3>1 DEF Responses, AllRoles
    <3>3. QED
      BY <3>1, <3>2 DEF Aggregates
  <2>2. QED
    BY <2>1
<1>2. CASE ckpts[t] = Sealed(t)
  <2>1. \A r \in Roles : ckpts[t][r].vote = source.votes[t][r]
    BY <1>2 DEF Sealed
  <2>2. source.votes[t] = [r \in Roles |-> source.votes[t][r]]
    BY DEF TypeInv
  <2>3. Held(t) = source.votes[t]
    BY <2>1, <2>2 DEF Held
  <2>4. QED
    BY <2>3 DEF Readable
<1>3. CASE Struck("replaced_checkpoint", t, 0)
  BY <1>3 DEF Readable, Held
<1>4. QED
  BY <1>1, <1>2, <1>3 DEF Intact

\* Before a change on disk there is one vote to read of a task.
LEMMA BeforeTheStrike ==
  ASSUME struck = None
  PROVE  /\ \A kind \in Kinds, t \in Tasks, r \in 0..R : ~Struck(kind, t, r)
         /\ \A t \in Tasks : Readable(t) = {source.votes[t]}
<1>1. ASSUME NEW kind \in Kinds, NEW t \in Tasks, NEW r \in 0..R
      PROVE  ~Struck(kind, t, r)
  <2>1. [kind |-> kind, task |-> t, role |-> r] \in Change
    BY DEF Change
  <2>2. None \notin Change
    BY PosthocAssumption
  <2>3. QED
    BY <2>1, <2>2 DEF Struck
<1>2. ASSUME NEW t \in Tasks PROVE ~Struck("replaced_checkpoint", t, 0)
  BY <1>1, PosthocAssumption DEF Kinds
<1>3. QED
  BY <1>1, <1>2 DEF Readable

------------------------------------------------------------------------------
(* The value of a role.                                                     *)

\* What a role adds to a tally.
LEMMA TallyWithout ==
  ASSUME NEW votes, NEW r \in Roles, NEW y
  PROVE  Tally(votes, Roles, y)
           = Tally(votes, Roles \ {r}, y) + (IF votes[r] = y THEN 1 ELSE 0)
<1> DEFINE All == {q \in Roles : votes[q] = y}
           Others == {q \in Roles \ {r} : votes[q] = y}
<1>1. IsFiniteSet(Others) /\ Cardinality(Others) \in Nat
  <2>1. Others \in SUBSET Roles
    OBVIOUS
  <2>2. QED
    BY <2>1, RolesAreFinite, FS_CardinalityType
<1>2. CASE votes[r] = y
  <2>1. All = Others \cup {r} /\ r \notin Others
    BY <1>2
  <2>2. Cardinality(Others \cup {r}) = Cardinality(Others) + 1
    BY <1>1, <2>1, FS_AddElement
  <2>3. QED
    BY <1>2, <2>1, <2>2 DEF Tally
<1>3. CASE votes[r] # y
  <2>1. All = Others
    BY <1>3
  <2>2. QED
    BY <1>1, <1>3, <2>1 DEF Tally
<1>4. QED
  BY <1>2, <1>3

\* A removal that changes the answer, and leaves one, is that of a role that
\* voted for the answer, and a tie is decided before or after it.
LEMMA OnlySupportersDecide ==
  ASSUME NEW votes, NEW r \in Roles, NEW b \in Letters, NEW m \in Letters, b # m,
         Wins(votes, Roles, b), Wins(votes, Roles \ {r}, m)
  PROVE  /\ votes[r] = b
         /\ TiedIn(votes, Roles) \/ TiedIn(votes, Roles \ {r})
<1> DEFINE others == Roles \ {r}
           Before(y) == Tally(votes, Roles, y)
           After(y) == Tally(votes, others, y)
<1>1. \A y : Before(y) \in Nat /\ After(y) \in Nat
  BY TallyIsNat
<1>2. \A y : Before(y) = After(y) + (IF votes[r] = y THEN 1 ELSE 0)
  BY TallyWithout
<1>3. b \in Int /\ m \in Int /\ b # NoVote /\ m # NoVote
  BY PosthocAssumption DEF Letters
<1>4. \A y \in Letters : Before(y) < Before(b) \/ (Before(y) = Before(b) /\ y >= b)
  BY <1>3 DEF Wins
<1>5. \A y \in Letters : After(y) < After(m) \/ (After(y) = After(m) /\ y >= m)
  BY <1>3 DEF Wins
<1> HIDE DEF Before, After
<1>6. votes[r] = b
  <2>1. SUFFICES ASSUME votes[r] # b PROVE FALSE
    OBVIOUS
  <2>2. After(b) = Before(b) /\ After(m) <= Before(m)
    BY <1>1, <1>2, <2>1
  <2>3. /\ Before(m) < Before(b) \/ (Before(m) = Before(b) /\ m >= b)
        /\ After(b) < After(m) \/ (After(b) = After(m) /\ b >= m)
    BY <1>4, <1>5
  <2>4. QED
    BY <1>1, <1>3, <2>2, <2>3
<1>7. CASE Before(m) = Before(b)
  BY <1>6, <1>7 DEF TiedIn, Before
<1>8. CASE Before(m) # Before(b)
  <2>1. After(b) + 1 = Before(b) /\ After(m) = Before(m)
    BY <1>1, <1>2, <1>6
  <2>2. /\ Before(m) < Before(b)
        /\ After(b) <= After(m)
    BY <1>1, <1>4, <1>5, <1>8
  <2>3. After(b) = After(m)
    BY <1>1, <2>1, <2>2
  <2>4. QED
    BY <1>6, <2>3 DEF TiedIn, After
<1>9. QED
  BY <1>6, <1>7, <1>8

\* A role without which no valid vote is left: exactly then a winner is missing.
LEMMA NoVoteLeft ==
  ASSUME NEW votes, NEW r \in Roles, NEW record \in CounterfactualRecord,
         Follows(votes, r, record)
  PROVE  NoVote \in {record.baseline, record.removal} <=>
           \A q \in Roles \ {r} : votes[q] = NoVote
<1> DEFINE others == Roles \ {r}
<1>1. Wins(votes, Roles, record.baseline) /\ Wins(votes, others, record.removal)
  BY DEF Follows
<1>2. ASSUME record.baseline = NoVote PROVE \A q \in others : votes[q] = NoVote
  BY <1>1, <1>2 DEF Wins
<1>3. record.removal = NoVote <=> \A q \in others : votes[q] = NoVote
  BY <1>1 DEF Wins
<1>4. QED
  BY <1>2, <1>3

------------------------------------------------------------------------------
(* The order in which the pairs are labelled.                               *)

LEMMA Division ==
  ASSUME NEW a \in Int, NEW n \in Int, n > 0
  PROVE  a = n * (a \div n) + (a % n)
BY Z3

LEMMA DivMod ==
  ASSUME NEW a \in Nat, NEW n \in Nat, n > 0
  PROVE  \E q \in Nat, m \in 0..(n - 1) :
           q = a \div n /\ m = a % n /\ a = n * q + m
<1>1. a \div n \in Nat
  BY Z3
<1>2. a % n \in 0..(n - 1)
  BY Z3
<1>3. a = n * (a \div n) + (a % n)
  BY Division
<1>4. QED
  BY <1>1, <1>2, <1>3

\* The k-th pair in the order of the record files.
LEMMA PairOf ==
  ASSUME NEW k \in Nat \ {0}
  PROVE  \E q \in Nat, m \in 0..(R - 1) :
           Pair(k) = <<q + 1, m + 1>> /\ k - 1 = R * q + m
<1>1. k - 1 \in Nat /\ R \in Nat /\ R > 0
  BY PosthocAssumption
<1>2. PICK q \in Nat, m \in 0..(R - 1) :
        q = (k - 1) \div R /\ m = (k - 1) % R /\ k - 1 = R * q + m
  BY <1>1, DivMod
<1>3. QED
  BY <1>2 DEF Pair

LEMMA PairIsPair ==
  ASSUME NEW k \in 1..(N * R)
  PROVE  Pair(k) \in Pairs
<1>1. N \in Nat /\ R \in Nat /\ N * R \in Nat
  BY PosthocAssumption
<1>2. k \in Nat \ {0} /\ k - 1 < N * R
  BY <1>1
<1>3. PICK q \in Nat, m \in 0..(R - 1) :
        Pair(k) = <<q + 1, m + 1>> /\ k - 1 = R * q + m
  BY <1>2, PairOf
<1>4. q < N
  <2>1. SUFFICES ASSUME q >= N PROVE FALSE
    BY <1>1
  <2>2. PICK e \in Nat : q = N + e
    <3>1. q - N \in Nat /\ q = N + (q - N)
      BY <1>1, <2>1
    <3>2. QED
      BY <3>1
  <2>3. R * q = N * R + R * e /\ R * e \in Nat /\ R * q \in Nat
    BY <1>1, <2>2
  <2>4. QED
    BY <1>1, <1>2, <1>3, <2>3
<1>5. q + 1 \in Tasks /\ m + 1 \in Roles
  BY <1>1, <1>4 DEF Tasks, Roles
<1>6. QED
  BY <1>3, <1>5 DEF Pairs

LEMMA PairsDiffer ==
  ASSUME NEW j \in Nat \ {0}, NEW k \in Nat \ {0}, Pair(j) = Pair(k)
  PROVE  j = k
<1>1. PICK q \in Nat, m \in 0..(R - 1) :
        Pair(j) = <<q + 1, m + 1>> /\ j - 1 = R * q + m
  BY PairOf
<1>2. PICK s \in Nat, n \in 0..(R - 1) :
        Pair(k) = <<s + 1, n + 1>> /\ k - 1 = R * s + n
  BY PairOf
<1>3. q + 1 = s + 1 /\ m + 1 = n + 1
  <2>1. <<q + 1, m + 1>> = <<s + 1, n + 1>>
    BY <1>1, <1>2, Zenon
  <2>2. QED
    BY <2>1
<1>4. q = s /\ m = n
  BY <1>3, PosthocAssumption
<1>5. j - 1 = k - 1
  BY <1>1, <1>2, <1>4
<1>6. QED
  BY <1>5

------------------------------------------------------------------------------
(* The invariant is inductive: what a step leaves alone, then one lemma per *)
(* action.                                                                  *)

LEMMA FilesAreThere ==
  /\ None \notin RecordFiles /\ None \notin LabelFiles
  /\ Nothing \in RecordFiles /\ Nothing \in LabelFiles /\ DOMAIN Nothing = {}
<1>1. \A S \in SUBSET Pairs :
        None \notin [S -> CounterfactualRecord] /\ None \notin [S -> EvaluationRecord]
  BY PosthocAssumption
<1>2. None \notin RecordFiles
  BY <1>1 DEF RecordFiles
<1>3. None \notin LabelFiles
  BY <1>1 DEF LabelFiles
<1>4. Nothing \in [{} -> CounterfactualRecord] /\ Nothing \in [{} -> EvaluationRecord]
  BY DEF Nothing
<1>5. {} \in SUBSET Pairs
  OBVIOUS
<1>6. Nothing \in RecordFiles /\ Nothing \in LabelFiles
  BY <1>4, <1>5, Zenon DEF RecordFiles, LabelFiles
<1>7. QED
  BY <1>2, <1>3, <1>6 DEF Nothing

LEMMA Moves ==
  ASSUME pc \in [Procs -> Places], NEW p \in Procs, NEW place \in Places,
         pc' = [pc EXCEPT ![p] = place]
  PROVE  /\ pc' \in [Procs -> Places] /\ pc'[p] = place
         /\ \A q \in Procs : q # p => pc'[q] = pc[q]
OBVIOUS

\* What each part of the invariant depends on.
LEMMA StaysIntact ==
  ASSUME IInv, UNCHANGED <<source, ckpts, gold, struck>>
  PROVE  Intact'
BY DEF IInv, Intact, Sealed, Struck

LEMMA RecordsStay ==
  ASSUME IInv, UNCHANGED <<source, ckpts, records, cfSeal, struck>>
  PROVE  RecordsFollow' /\ SealedIsWhole'
<1>1. \A t \in Tasks : Readable(t)' = Readable(t)
  BY DEF Readable, Struck
<1>2. \A t \in Tasks : \A files : OfOneVote(t, files)' <=> OfOneVote(t, files)
  BY <1>1 DEF OfOneVote, Struck
<1>3. RecordsFollow'
  BY <1>2 DEF IInv, RecordsFollow
<1>4. QED
  BY <1>3 DEF IInv, SealedIsWhole

LEMMA LabelsStay ==
  ASSUME IInv, UNCHANGED <<source, gold, cfSeal, labels, struck>>
  PROVE  LabelsFollow'
BY DEF IInv, LabelsFollow, OfTheSeal, OfTheSource, Struck

LEMMA ReportStays ==
  ASSUME IInv, UNCHANGED <<source, gold, cfSeal, report, struck>>,
         rootSeal' # rootSeal => rootSeal'.labels # None
  PROVE  LabelsAreSealed'
BY DEF IInv, LabelsAreSealed, VerifiedLabelsAreTraced, Struck

\* No process comes to read records or to hold gold data.
LEMMA TraceStays ==
  ASSUME IInv, UNCHANGED <<source, gold, records, cfSeal, labels, struck>>,
         \A q \in Procs : pc'[q] \in {"open_gold", "make_evaluation", "label"} =>
           pc'[q] = pc[q] /\ mem'[q].gold = mem[q].gold
  PROVE  Traced'
BY DEF IInv, Traced, OfTheSeal, OfTheSource, Struck

\* A step that leaves the evidence alone.
LEMMA Frame ==
  ASSUME IInv,
         UNCHANGED <<source, ckpts, gold, records, cfSeal, labels, rootSeal, report, struck>>,
         pc' \in [Procs -> Places], mem' \in [Procs -> Memory]
  PROVE  /\ TypeInv' /\ Intact' /\ RecordsFollow' /\ SealedIsWhole'
         /\ LabelsFollow' /\ LabelsAreSealed'
<1>1. TypeInv'
  BY DEF IInv, TypeInv
<1>2. QED
  BY <1>1, StaysIntact, RecordsStay, LabelsStay, ReportStays

LEMMA InitIInv == Init => IInv
<1> SUFFICES ASSUME Init PROVE IInv
  OBVIOUS
<1> USE DEF Init
<1>1. TypeInv
  <2>1. /\ source \in [votes : [Tasks -> [Roles -> Answers]], gold : [Tasks -> Letters]]
        /\ gold \in [Tasks -> Letters]
    BY PosthocAssumption
  <2>2. ckpts \in [Tasks -> [Roles -> Checkpoint]]
    BY <2>1 DEF Checkpoint, Sealed
  <2>3. pc \in [Procs -> Places]
    BY DEF Places
  <2>4. Fresh \in Memory
    BY DEF Fresh, Memory
  <2>5. mem \in [Procs -> Memory]
    BY <2>4
  <2>6. QED
    BY <2>1, <2>2, <2>3, <2>5 DEF TypeInv
<1>2. Intact
  BY DEF Intact
<1>3. RecordsFollow /\ SealedIsWhole /\ LabelsFollow /\ LabelsAreSealed
  BY DEF RecordsFollow, SealedIsWhole, LabelsFollow, LabelsAreSealed, VerifiedLabelsAreTraced
<1>4. OneBuilds /\ BuildComesFirst /\ OneLabels /\ Traced
  BY DEF OneBuilds, BuildComesFirst, OneLabels, Traced, Building, Evaluated, Evaluating
<1>5. QED
  BY <1>1, <1>2, <1>3, <1>4 DEF IInv

LEMMA StartBuildIInv == ASSUME IInv, NEW p \in Procs, StartBuild(p) PROVE IInv'
<1> USE DEF StartBuild, Goto, disk
<1>1. /\ pc' \in [Procs -> Places] /\ pc'[p] = "make_root"
      /\ \A q \in Procs : q # p => pc'[q] = pc[q]
  BY Moves DEF IInv, TypeInv, Places
<1>2. /\ mem' \in [Procs -> Memory] /\ mem'[p].next = 1
      /\ \A q \in Procs : q # p => mem'[q] = mem[q]
  <2>1. Fresh \in Memory /\ Fresh.next = 1
    BY DEF Fresh, Memory
  <2>2. QED
    BY <2>1 DEF IInv, TypeInv
<1>3. /\ TypeInv' /\ Intact' /\ RecordsFollow' /\ SealedIsWhole'
      /\ LabelsFollow' /\ LabelsAreSealed'
  BY <1>1, <1>2, Frame
<1>4. OneBuilds'
  BY <1>1, <1>2 DEF IInv, OneBuilds, Building
<1>5. BuildComesFirst'
  BY <1>1 DEF IInv, BuildComesFirst, Evaluated, Evaluating
<1>6. OneLabels'
  BY <1>1, <1>2 DEF IInv, OneLabels
<1>7. Traced'
  BY <1>1, <1>2, TraceStays
<1>8. QED
  BY <1>3, <1>4, <1>5, <1>6, <1>7 DEF IInv

LEMMA MakeRootIInv == ASSUME IInv, NEW p \in Procs, MakeRoot(p) PROVE IInv'
<1> USE DEF MakeRoot, Goto
<1>1. /\ pc' \in [Procs -> Places] /\ pc'[p] = "build" /\ pc[p] = "make_root"
      /\ \A q \in Procs : q # p => pc'[q] = pc[q]
  BY Moves DEF IInv, TypeInv, Places
<1>2. cfSeal = None /\ \A q \in Procs : pc[q] \notin Building
  BY DEF IInv, SealedIsWhole, OneBuilds
<1>3. records' # None /\ records' \in RecordFiles /\ DOMAIN records' = {}
  BY FilesAreThere
<1>4. TypeInv'
  BY <1>1, <1>3 DEF IInv, TypeInv
<1>5. Intact' /\ LabelsFollow' /\ LabelsAreSealed'
  BY StaysIntact, LabelsStay, ReportStays
<1>6. RecordsFollow'
  <2>1. \A t \in Tasks : OfOneVote(t, records)'
    BY <1>3 DEF OfOneVote, Readable
  <2>2. QED
    BY <1>2, <2>1 DEF RecordsFollow
<1>7. OneBuilds'
  <2>1. mem[p].next = 1
    BY <1>1 DEF IInv, OneBuilds
  <2>2. (1..(1 - 1)) \X Roles = {}
    OBVIOUS
  <2>3. 1 <= N + 1
    BY PosthocAssumption
  <2>4. /\ cfSeal' = None /\ mem'[p].next <= N + 1
        /\ DOMAIN records' = (1..(mem'[p].next - 1)) \X Roles
    BY <1>2, <1>3, <2>1, <2>2, <2>3
  <2>5. \A q \in Procs : pc'[q] \in Building => q = p
    BY <1>1, <1>2
  <2>6. ASSUME NEW q \in Procs
        PROVE /\ pc'[q] = "make_root" => mem'[q].next = 1
              /\ pc'[q] # "write_state"
    BY <1>1, <1>2 DEF IInv, OneBuilds, Building
  <2>7. QED
    BY <1>3, <2>4, <2>5, <2>6 DEF OneBuilds, Building
<1>8. SealedIsWhole'
  BY <1>2 DEF SealedIsWhole
<1>9. BuildComesFirst'
  BY <1>1, <1>2 DEF IInv, BuildComesFirst, Evaluated, Evaluating
<1>10. OneLabels'
  BY <1>1 DEF IInv, OneLabels
<1>11. Traced'
  <2>1. \A q \in Procs : pc[q] \notin Evaluating
    BY <1>2 DEF IInv, BuildComesFirst, Evaluated
  <2>2. QED
    BY <1>1, <2>1 DEF Traced, Evaluating
<1>12. QED
  BY <1>4, <1>5, <1>6, <1>7, <1>8, <1>9, <1>10, <1>11 DEF IInv

LEMMA BuildTaskIInv == ASSUME IInv, NEW p \in Procs, BuildTask(p) PROVE IInv'
<1> USE DEF BuildTask
<1> DEFINE t == mem[p].next
<1>1. /\ pc[p] = "build" /\ t \in Tasks /\ t \in Nat \ {0} /\ t <= N
      /\ Aggregates(Responses(t, AllRoles))
      /\ \A r \in Roles : Aggregates(Responses(t, Retained(r)))
      /\ records' = [x \in DOMAIN records \cup ({t} \X Roles) |->
                       IF x[1] = t THEN Record(t, x[2]) ELSE records[x]]
  BY PosthocAssumption DEF IInv, TypeInv, Memory, Tasks
<1>2. /\ mem' \in [Procs -> Memory] /\ mem'[p].next = t + 1
      /\ \A q \in Procs : q # p => mem'[q] = mem[q]
  <2>1. mem[p] \in Memory /\ t + 1 \in Nat \ {0}
    BY <1>1 DEF IInv, TypeInv
  <2>2. [mem[p] EXCEPT !.next = t + 1] \in Memory
    BY <2>1 DEF Memory
  <2>3. mem' = [mem EXCEPT ![p] = [mem[p] EXCEPT !.next = t + 1]]
    OBVIOUS
  <2>4. mem \in [Procs -> Memory] /\ [mem[p] EXCEPT !.next = t + 1].next = t + 1
    BY <2>1 DEF IInv, TypeInv, Memory
  <2>5. QED
    BY <2>2, <2>3, <2>4
<1>3. /\ records # None /\ records \in RecordFiles /\ cfSeal = None
      /\ DOMAIN records = (1..(t - 1)) \X Roles
      /\ \A q \in Procs : pc[q] \in Building => q = p
  BY <1>1 DEF IInv, TypeInv, OneBuilds, Building
<1> HIDE DEF t
<1>4. ASSUME NEW r \in Roles
      PROVE  Record(t, r) \in CounterfactualRecord /\ Follows(Held(t), r, Record(t, r))
  BY <1>1, RecordFollows DEF IInv
<1>5. DOMAIN records' = (1..t) \X Roles
  <2>1. 1..t = (1..(t - 1)) \cup {t}
    BY <1>1
  <2>2. DOMAIN records' = DOMAIN records \cup ({t} \X Roles)
    BY <1>1
  <2>3. QED
    BY <1>3, <2>1, <2>2
<1>6. ASSUME NEW x \in DOMAIN records'
      PROVE  /\ x \in Pairs /\ records'[x] \in CounterfactualRecord
             /\ x[1] = t => records'[x] = Record(t, x[2])
             /\ x[1] # t => x \in DOMAIN records /\ records'[x] = records[x]
  <2>1. x \in (1..t) \X Roles
    BY <1>5
  <2>2. x[1] \in 1..t /\ x[2] \in Roles /\ x = <<x[1], x[2]>>
    BY <2>1
  <2>3. x \in Pairs
    BY <1>1, <2>2, PosthocAssumption DEF Pairs, Tasks
  <2>4. CASE x[1] = t
    <3>1. records'[x] = Record(t, x[2])
      BY <1>1, <1>6, <2>4
    <3>2. QED
      BY <1>4, <2>2, <2>3, <2>4, <3>1
  <2>5. CASE x[1] # t
    <3>1. x \in DOMAIN records
      <4>1. x[1] \in 1..(t - 1)
        BY <1>1, <2>2, <2>5
      <4>2. <<x[1], x[2]>> \in (1..(t - 1)) \X Roles
        BY <2>2, <4>1
      <4>3. QED
        BY <1>3, <2>2, <4>2
    <3>2. records'[x] = records[x]
      BY <1>1, <1>6, <2>5
    <3>3. records[x] \in CounterfactualRecord
      BY <1>3, <3>1 DEF RecordFiles
    <3>4. QED
      BY <2>3, <2>5, <3>1, <3>2, <3>3
  <2>6. QED
    BY <2>4, <2>5
<1>7. records' \in RecordFiles /\ records' # None
  <2>1. DOMAIN records' \in SUBSET Pairs
    BY <1>6
  <2>2. records' \in [DOMAIN records' -> CounterfactualRecord]
    BY <1>1, <1>6
  <2>3. records' \in RecordFiles
    BY <2>1, <2>2, Zenon DEF RecordFiles
  <2>4. QED
    BY <2>3, FilesAreThere
<1>8. TypeInv'
  BY <1>2, <1>7 DEF IInv, TypeInv
<1>9. Intact' /\ LabelsFollow' /\ LabelsAreSealed'
  BY StaysIntact, LabelsStay, ReportStays
<1>10. RecordsFollow'
  <2>1. /\ cfSeal' = None /\ \A s \in Tasks : Readable(s)' = Readable(s)
        /\ \A s \in Tasks, r \in Roles :
             Struck("unsealed_record", s, r)' <=> Struck("unsealed_record", s, r)
    BY <1>3 DEF Readable, Struck
  <2>2. PICK u \in Tasks : u = t
    BY <1>1
  <2>3. ASSUME NEW s \in Tasks, s # u PROVE OfOneVote(s, records)'
    <3>1. PICK votes \in Readable(s) : \A r \in Roles :
            <<s, r>> \in DOMAIN records =>
              Struck("unsealed_record", s, r) \/ Follows(votes, r, records[<<s, r>>])
      BY <1>3 DEF IInv, RecordsFollow, OfOneVote
    <3>2. ASSUME NEW r \in Roles, <<s, r>> \in DOMAIN records'
          PROVE  <<s, r>> \in DOMAIN records /\ records'[<<s, r>>] = records[<<s, r>>]
      BY <1>6, <2>2, <2>3, <3>2
    <3>3. votes \in Readable(s)' /\ \A r \in Roles :
            <<s, r>> \in DOMAIN records' =>
              Struck("unsealed_record", s, r)' \/ Follows(votes, r, records'[<<s, r>>])
      BY <2>1, <3>1, <3>2
    <3>4. QED
      BY <3>3 DEF OfOneVote
  <2>4. OfOneVote(u, records)'
    <3>1. Held(u) \in Readable(u)
      BY <1>1, <2>2, HeldIsReadable DEF IInv
    <3>2. PICK votes \in Readable(u)' : votes = Held(u)
      BY <2>1, <3>1
    <3>3. ASSUME NEW r \in Roles, <<u, r>> \in DOMAIN records'
          PROVE  Follows(votes, r, records'[<<u, r>>])
      BY <1>4, <1>6, <2>2, <3>2, <3>3
    <3>4. QED
      BY <3>3 DEF OfOneVote
  <2>5. \A s \in Tasks : OfOneVote(s, records)'
    BY <2>3, <2>4
  <2>6. QED
    BY <2>1, <2>5 DEF RecordsFollow
<1>11. OneBuilds'
  <2>1. UNCHANGED <<pc, cfSeal>>
    OBVIOUS
  <2>2. mem'[p].next <= N + 1 /\ mem'[p].next - 1 = t
    <3>1. N \in Nat
      BY PosthocAssumption
    <3>2. QED
      BY <1>1, <1>2, <3>1
  <2>3. ASSUME NEW q \in Procs
        PROVE  /\ pc'[q] \in Building =>
                    records' # None /\ \A s \in Procs : pc'[s] \in Building => s = q
               /\ pc'[q] = "make_root" => mem'[q].next = 1
               /\ pc'[q] = "build" =>
                    /\ cfSeal' = None /\ mem'[q].next <= N + 1
                    /\ DOMAIN records' = (1..(mem'[q].next - 1)) \X Roles
               /\ pc'[q] = "write_state" => cfSeal' # None
    <3>1. CASE q = p
      BY <1>1, <1>3, <1>5, <1>7, <2>1, <2>2, <3>1
    <3>2. CASE q # p
      <4>1. pc[q] \notin Building /\ mem'[q] = mem[q]
        BY <1>2, <1>3, <3>2
      <4>2. pc[q] = "make_root" => mem[q].next = 1
        BY DEF IInv, OneBuilds
      <4>3. QED
        BY <2>1, <4>1, <4>2 DEF Building
    <3>3. QED
      BY <3>1, <3>2
  <2>4. QED
    BY <2>3 DEF OneBuilds
<1>12. SealedIsWhole'
  BY <1>3 DEF SealedIsWhole
<1>13. BuildComesFirst'
  BY <1>3 DEF IInv, BuildComesFirst, Evaluated
<1>14. OneLabels'
  <2>1. pc' = pc /\ labels' = labels
    OBVIOUS
  <2>2. ASSUME NEW q \in Procs, pc[q] \in Evaluating PROVE mem'[q] = mem[q]
    BY <1>1, <1>2, <2>2 DEF Evaluating
  <2>3. QED
    BY <2>1, <2>2 DEF IInv, OneLabels, Evaluating
<1>15. Traced'
  <2>1. \A q \in Procs : pc[q] \notin Evaluating
    BY <1>3 DEF IInv, BuildComesFirst, Evaluated
  <2>2. QED
    BY <2>1 DEF Traced, Evaluating
<1>16. QED
  BY <1>8, <1>9, <1>10, <1>11, <1>12, <1>13, <1>14, <1>15 DEF IInv

LEMMA SealRecordsIInv == ASSUME IInv, NEW p \in Procs, SealRecords(p) PROVE IInv'
<1> USE DEF SealRecords, Goto
<1>1. /\ pc' \in [Procs -> Places] /\ pc'[p] = "write_state" /\ pc[p] = "build"
      /\ \A q \in Procs : q # p => pc'[q] = pc[q]
  BY Moves DEF IInv, TypeInv, Places
<1>2. /\ mem' \in [Procs -> Memory]
      /\ \A q \in Procs : mem'[q].next = mem[q].next /\ mem'[q].gold = mem[q].gold
  <2>1. mem[p] \in Memory /\ records \in RecordFiles \cup {None}
    BY DEF IInv, TypeInv
  <2> DEFINE new == [mem[p] EXCEPT !.hash = records]
  <2>2. new \in Memory /\ new.next = mem[p].next /\ new.gold = mem[p].gold
    BY <2>1 DEF Memory
  <2>3. mem' = [mem EXCEPT ![p] = new] /\ mem \in [Procs -> Memory]
    BY DEF IInv, TypeInv
  <2> HIDE DEF new
  <2>4. QED
    BY <2>2, <2>3
<1>3. /\ records # None /\ cfSeal = None /\ DOMAIN records = Pairs
      /\ \A q \in Procs : pc[q] \in Building => q = p
  <2>1. mem[p].next \in Nat /\ mem[p].next > N /\ mem[p].next <= N + 1
    BY <1>1 DEF IInv, TypeInv, Memory, OneBuilds
  <2>2. mem[p].next - 1 = N
    <3>1. N \in Nat
      BY PosthocAssumption
    <3>2. QED
      BY <2>1, <3>1
  <2>3. QED
    BY <1>1, <2>2 DEF IInv, OneBuilds, Building, Pairs, Tasks
<1>4. cfSeal' = records /\ UNCHANGED <<source, ckpts, gold, records, labels, report, struck>>
  OBVIOUS
<1>5. TypeInv'
  BY <1>1, <1>2, <1>4 DEF IInv, TypeInv
<1>6. Intact' /\ LabelsFollow' /\ LabelsAreSealed' /\ Traced'
  <2>1. labels = None /\ report = None /\ \A q \in Procs : pc[q] \notin Evaluating
    BY <1>3 DEF IInv, BuildComesFirst, Evaluated, LabelsAreSealed
  <2>2. Intact'
    BY <1>4, StaysIntact
  <2>3. LabelsFollow' /\ Traced'
    BY <1>1, <1>4, <2>1 DEF LabelsFollow, Traced, Evaluating
  <2>4. LabelsAreSealed'
    BY <1>4, <2>1 DEF IInv, LabelsAreSealed, VerifiedLabelsAreTraced
  <2>5. QED
    BY <2>2, <2>3, <2>4
<1>7. RecordsFollow'
  <2>1. \A t \in Tasks : Readable(t)' = Readable(t)
    BY <1>4 DEF Readable, Struck
  <2>2. \A t \in Tasks : OfOneVote(t, cfSeal)' <=> OfOneVote(t, records)
    BY <1>4, <2>1 DEF OfOneVote, Struck
  <2>3. QED
    BY <1>3, <1>4, <2>2 DEF IInv, RecordsFollow
<1>8. OneBuilds'
  <2>1. \A q \in Procs : pc'[q] \in Building => q = p
    BY <1>1, <1>3
  <2>2. ASSUME NEW q \in Procs
        PROVE /\ pc'[q] = "make_root" => mem'[q].next = 1
              /\ pc'[q] # "build"
    BY <1>1, <1>2, <2>1 DEF IInv, OneBuilds, Building
  <2>3. QED
    BY <1>3, <1>4, <2>1, <2>2 DEF OneBuilds
<1>9. SealedIsWhole'
  BY <1>3, <1>4 DEF SealedIsWhole
<1>10. BuildComesFirst'
  BY <1>1, <1>3 DEF IInv, BuildComesFirst, Evaluated, Evaluating
<1>11. OneLabels'
  BY <1>1, <1>2, <1>4 DEF IInv, OneLabels
<1>12. QED
  BY <1>5, <1>6, <1>7, <1>8, <1>9, <1>10, <1>11 DEF IInv

LEMMA WriteStateIInv == ASSUME IInv, NEW p \in Procs, WriteState(p) PROVE IInv'
<1> USE DEF WriteState, Goto
<1>1. /\ pc' \in [Procs -> Places] /\ pc'[p] = "idle" /\ pc[p] = "write_state"
      /\ \A q \in Procs : q # p => pc'[q] = pc[q]
  BY Moves DEF IInv, TypeInv, Places
<1>2. mem' = mem /\ mem' \in [Procs -> Memory]
  BY DEF IInv, TypeInv
<1>3. /\ TypeInv' /\ Intact' /\ RecordsFollow' /\ SealedIsWhole'
      /\ LabelsFollow' /\ LabelsAreSealed'
  BY <1>1, <1>2, Frame
<1>4. cfSeal # None /\ \A q \in Procs : pc[q] \in Building => q = p
  BY <1>1 DEF IInv, OneBuilds, Building
<1>5. OneBuilds'
  BY <1>1, <1>2, <1>4 DEF IInv, OneBuilds, Building
<1>6. BuildComesFirst'
  BY <1>1, <1>4 DEF BuildComesFirst, Building
<1>7. OneLabels'
  BY <1>1, <1>2 DEF IInv, OneLabels
<1>8. Traced'
  BY <1>1, <1>2, TraceStays
<1>9. QED
  BY <1>3, <1>5, <1>6, <1>7, <1>8 DEF IInv

LEMMA StartEvaluateIInv == ASSUME IInv, NEW p \in Procs, StartEvaluate(p) PROVE IInv'
<1> USE DEF StartEvaluate, Goto, disk
<1>1. /\ pc' \in [Procs -> Places] /\ pc'[p] = "open_gold" /\ pc[p] = "idle"
      /\ \A q \in Procs : q # p => pc'[q] = pc[q]
  BY Moves DEF IInv, TypeInv, Places
<1>2. /\ mem' \in [Procs -> Memory] /\ mem'[p].next = 1
      /\ \A q \in Procs : q # p => mem'[q] = mem[q]
  <2>1. Fresh \in Memory /\ Fresh.next = 1
    BY DEF Fresh, Memory
  <2>2. QED
    BY <2>1 DEF IInv, TypeInv
<1>3. /\ TypeInv' /\ Intact' /\ RecordsFollow' /\ SealedIsWhole'
      /\ LabelsFollow' /\ LabelsAreSealed'
  BY <1>1, <1>2, Frame
<1>4. OneBuilds'
  BY <1>1, <1>2 DEF IInv, OneBuilds, Building
<1>5. BuildComesFirst'
  <2>1. cfSeal # None /\ \A q \in Procs : pc[q] # "write_state"
    BY DEF IInv, BuildComesFirst, Evaluated
  <2>2. QED
    BY <1>1, <2>1 DEF BuildComesFirst
<1>6. OneLabels'
  BY <1>1, <1>2 DEF IInv, OneLabels
<1>7. Traced'
  <2>1. \A x \in Pairs : OfTheSeal(x, records[x])'
    BY DEF SealFits, OfTheSeal
  <2>2. ASSUME NEW q \in Procs, q # p, pc[q] \in {"open_gold", "make_evaluation", "label"}
        PROVE  /\ pc[q] = "label" => \A x \in Pairs \ DOMAIN labels : OfTheSeal(x, records[x])'
               /\ pc[q] # "open_gold" => \A t \in Tasks : OfTheSource(t, mem[q].gold[t])'
    BY <2>1, <2>2 DEF IInv, Traced, OfTheSource, Struck
  <2>3. QED
    BY <1>1, <1>2, <2>1, <2>2 DEF Traced
<1>8. QED
  BY <1>3, <1>4, <1>5, <1>6, <1>7 DEF IInv

LEMMA OpenGoldIInv == ASSUME IInv, NEW p \in Procs, OpenGold(p) PROVE IInv'
<1> USE DEF OpenGold, Goto, disk
<1>1. /\ pc' \in [Procs -> Places] /\ pc'[p] = "make_evaluation" /\ pc[p] = "open_gold"
      /\ \A q \in Procs : q # p => pc'[q] = pc[q]
  BY Moves DEF IInv, TypeInv, Places
<1>2. /\ mem' \in [Procs -> Memory]
      /\ mem'[p].gold = gold /\ mem'[p].gold \in [Tasks -> Letters]
      /\ mem'[p].next = mem[p].next
      /\ \A q \in Procs : q # p => mem'[q] = mem[q]
  <2>1. mem[p] \in Memory /\ gold \in [Tasks -> Letters]
    BY DEF IInv, TypeInv
  <2> DEFINE new == [mem[p] EXCEPT !.gold = gold]
  <2>2. new \in Memory /\ new.next = mem[p].next /\ new.gold = gold
    BY <2>1 DEF Memory
  <2>3. mem' = [mem EXCEPT ![p] = new] /\ mem \in [Procs -> Memory]
    BY DEF IInv, TypeInv
  <2> HIDE DEF new
  <2>4. QED
    BY <2>1, <2>2, <2>3
<1>3. /\ TypeInv' /\ Intact' /\ RecordsFollow' /\ SealedIsWhole'
      /\ LabelsFollow' /\ LabelsAreSealed'
  BY <1>1, <1>2, Frame
<1>4. OneBuilds'
  BY <1>1, <1>2 DEF IInv, OneBuilds, Building
<1>5. BuildComesFirst'
  <2>1. cfSeal # None /\ \A q \in Procs : pc[q] # "write_state"
    BY <1>1 DEF IInv, BuildComesFirst, Evaluated, Evaluating
  <2>2. QED
    BY <1>1, <2>1 DEF BuildComesFirst
<1>6. OneLabels'
  BY <1>1, <1>2 DEF IInv, OneLabels
<1>7. Traced'
  <2>1. ASSUME NEW x \in Pairs PROVE OfTheSeal(x, records[x])'
    BY <1>1 DEF IInv, Traced, OfTheSeal, Struck
  <2>2. \A t \in Tasks : OfTheSource(t, gold[t])'
    BY DEF IInv, Intact, OfTheSource, Struck
  <2>3. ASSUME NEW q \in Procs, q # p, pc[q] \in {"make_evaluation", "label"}
        PROVE  \A t \in Tasks : OfTheSource(t, mem[q].gold[t])'
    BY <1>2, <2>3 DEF IInv, Traced, OfTheSource, Struck
  <2>4. QED
    BY <1>1, <1>2, <2>1, <2>2, <2>3 DEF Traced
<1>8. QED
  BY <1>3, <1>4, <1>5, <1>6, <1>7 DEF IInv

LEMMA MakeEvaluationIInv == ASSUME IInv, NEW p \in Procs, MakeEvaluation(p) PROVE IInv'
<1> USE DEF MakeEvaluation, EvaluationFresh, Goto
<1>1. /\ pc' \in [Procs -> Places] /\ pc'[p] = "label" /\ pc[p] = "make_evaluation"
      /\ \A q \in Procs : q # p => pc'[q] = pc[q]
  BY Moves DEF IInv, TypeInv, Places
<1>2. labels = None /\ \A q \in Procs : pc[q] # "label"
  BY DEF IInv, OneLabels
<1>3. labels' \in LabelFiles /\ labels' # None /\ DOMAIN labels' = {}
  BY FilesAreThere
<1>4. TypeInv'
  BY <1>1, <1>3 DEF IInv, TypeInv
<1>5. Intact' /\ RecordsFollow' /\ SealedIsWhole' /\ LabelsAreSealed'
  BY StaysIntact, RecordsStay, ReportStays
<1>6. LabelsFollow'
  BY <1>3 DEF LabelsFollow
<1>7. OneBuilds'
  BY <1>1 DEF IInv, OneBuilds, Building
<1>8. BuildComesFirst'
  <2>1. cfSeal # None /\ \A q \in Procs : pc[q] # "write_state"
    BY <1>1 DEF IInv, BuildComesFirst, Evaluated, Evaluating
  <2>2. QED
    BY <1>1, <2>1 DEF BuildComesFirst
<1>9. OneLabels'
  <2>1. mem[p].next = 1 /\ mem[p].gold \in [Tasks -> Letters]
    BY <1>1 DEF IInv, OneLabels
  <2>2. {Pair(k) : k \in 1..(1 - 1)} = {}
    OBVIOUS
  <2>3. 1 <= N * R + 1
    <3>1. N \in Nat /\ R \in Nat /\ N * R \in Nat
      BY PosthocAssumption
    <3>2. QED
      BY <3>1
  <2>4. /\ labels' # None /\ mem'[p].next <= N * R + 1
        /\ DOMAIN labels' = {Pair(k) : k \in 1..(mem'[p].next - 1)}
    BY <1>3, <2>1, <2>2, <2>3
  <2>5. \A q \in Procs : pc'[q] = "label" => q = p
    BY <1>1, <1>2
  <2>6. ASSUME NEW q \in Procs
        PROVE  /\ pc'[q] \in {"open_gold", "make_evaluation"} => mem'[q].next = 1
               /\ pc'[q] \in {"make_evaluation", "label"} =>
                    mem'[q].gold \in [Tasks -> Letters]
    BY <1>1, <2>1 DEF IInv, OneLabels
  <2>7. QED
    BY <2>4, <2>5, <2>6 DEF OneLabels
<1>10. Traced'
  <2>1. ASSUME NEW x \in Pairs PROVE OfTheSeal(x, records[x])'
    BY <1>1 DEF IInv, Traced, OfTheSeal, Struck
  <2>2. ASSUME NEW q \in Procs, pc'[q] \in {"make_evaluation", "label"}
        PROVE  \A t \in Tasks : OfTheSource(t, mem[q].gold[t])'
    <3>1. pc[q] \in {"make_evaluation", "label"}
      BY <1>1, <2>2
    <3>2. QED
      BY <3>1 DEF IInv, Traced, OfTheSource, Struck
  <2>3. QED
    BY <2>1, <2>2 DEF Traced
<1>11. QED
  BY <1>4, <1>5, <1>6, <1>7, <1>8, <1>9, <1>10 DEF IInv

LEMMA LabelRecordIInv == ASSUME IInv, NEW p \in Procs, LabelRecord(p) PROVE IInv'
<1> USE DEF LabelRecord
<1> DEFINE n == mem[p].next
           x == Pair(n)
           rec == records[x]
           g == mem[p].gold[x[1]]
           new == [record |-> rec, keep |-> KeepValue(rec, g), tie |-> rec.tie]
<1>1. /\ pc[p] = "label" /\ n \in 1..(N * R) /\ labels' = With(labels, x, new)
      /\ UNCHANGED <<source, ckpts, gold, records, cfSeal, state, pc, goldOpened, report, struck>>
  <2>1. N * R \in Nat
    BY PosthocAssumption
  <2>2. n \in Nat \ {0}
    BY DEF IInv, TypeInv, Memory
  <2>3. QED
    BY <2>1, <2>2
<1>2. /\ mem' \in [Procs -> Memory]
      /\ mem'[p].next = n + 1 /\ mem'[p].gold = mem[p].gold
      /\ \A q \in Procs : q # p => mem'[q] = mem[q]
  <2>1. mem[p] \in Memory /\ n + 1 \in Nat \ {0}
    BY DEF IInv, TypeInv, Memory
  <2> DEFINE m == [mem[p] EXCEPT !.next = n + 1]
  <2>2. m \in Memory /\ m.next = n + 1 /\ m.gold = mem[p].gold
    BY <2>1 DEF Memory
  <2>3. mem' = [mem EXCEPT ![p] = m] /\ mem \in [Procs -> Memory]
    BY DEF IInv, TypeInv
  <2> HIDE DEF m
  <2>4. QED
    BY <2>2, <2>3
<1>3. /\ labels # None /\ labels \in LabelFiles
      /\ DOMAIN labels = {Pair(k) : k \in 1..(n - 1)}
      /\ \A q \in Procs : pc[q] = "label" => q = p
      /\ mem[p].gold \in [Tasks -> Letters]
  BY <1>1 DEF IInv, TypeInv, OneLabels
<1>4. x \in Pairs /\ x[1] \in Tasks
  BY <1>1, PairIsPair DEF Pairs
<1>5. rec \in CounterfactualRecord
  <2>1. records # None /\ DOMAIN records = Pairs
    BY <1>1 DEF IInv, BuildComesFirst, SealedIsWhole, Evaluated, Evaluating
  <2>2. records \in RecordFiles
    BY <2>1 DEF IInv, TypeInv
  <2>3. records \in [Pairs -> CounterfactualRecord]
    BY <2>1, <2>2 DEF RecordFiles
  <2>4. QED
    BY <1>4, <2>3
<1>6. g \in Letters /\ OfTheSource(x[1], g)
  BY <1>1, <1>3, <1>4 DEF IInv, Traced
<1>18. x \notin DOMAIN labels
  <2>1. ASSUME NEW k \in 1..(n - 1), x = Pair(k) PROVE FALSE
    <3>1. k \in Nat \ {0} /\ n \in Nat \ {0} /\ k # n
      BY <1>1
    <3>2. QED
      BY <2>1, <3>1, PairsDiffer
  <2>2. QED
    BY <1>3, <2>1
<1>19. OfTheSeal(x, rec)
  BY <1>1, <1>4, <1>18 DEF IInv, Traced
<1> HIDE DEF n, x, rec, g
<1>7. new \in EvaluationRecord
  <2>1. KeepValue(rec, g) \in {-1, 0, 1, None}
    BY DEF KeepValue, Correct
  <2>2. rec.tie \in BOOLEAN
    BY <1>5 DEF CounterfactualRecord
  <2>3. QED
    BY <1>5, <2>1, <2>2 DEF EvaluationRecord
<1>8. new.record = rec /\ new.keep = KeepValue(rec, g) /\ new.tie = rec.tie
  OBVIOUS
<1> HIDE DEF new
<1>9. /\ DOMAIN labels' = DOMAIN labels \cup {x}
      /\ labels'[x] = new
      /\ \A y \in DOMAIN labels : y # x => labels'[y] = labels[y]
      /\ labels' \in [DOMAIN labels \cup {x} -> EvaluationRecord]
  <2>1. \A y \in DOMAIN labels : labels[y] \in EvaluationRecord
    BY <1>3 DEF LabelFiles
  <2>2. QED
    BY <1>1, <1>7, <2>1 DEF With
<1>10. labels' \in LabelFiles /\ labels' # None
  <2>1. DOMAIN labels \cup {x} \in SUBSET Pairs
    BY <1>3, <1>4 DEF LabelFiles
  <2>2. labels' \in LabelFiles
    BY <1>9, <2>1, Zenon DEF LabelFiles
  <2>3. QED
    BY <2>2, FilesAreThere
<1>11. TypeInv'
  BY <1>1, <1>2, <1>10 DEF IInv, TypeInv
<1>12. Intact' /\ RecordsFollow' /\ SealedIsWhole' /\ LabelsAreSealed'
  BY <1>1, StaysIntact, RecordsStay, ReportStays
<1>13. LabelsFollow'
  <2>1. ASSUME NEW y \in DOMAIN labels'
        PROVE  /\ OfTheSeal(y, labels'[y].record)
               /\ \E h \in Letters : /\ OfTheSource(y[1], h)
                                    /\ labels'[y].keep = KeepValue(labels'[y].record, h)
               /\ labels'[y].tie = labels'[y].record.tie
    <3>1. CASE y = x
      BY <1>6, <1>8, <1>9, <1>19, <3>1
    <3>2. CASE y # x
      <4>1. y \in DOMAIN labels /\ labels'[y] = labels[y]
        BY <1>9, <3>2
      <4>2. /\ OfTheSeal(y, labels[y].record)
            /\ \E h \in Letters : /\ OfTheSource(y[1], h)
                                 /\ labels[y].keep = KeepValue(labels[y].record, h)
            /\ labels[y].tie = labels[y].record.tie
        BY <1>3, <4>1 DEF IInv, LabelsFollow
      <4>3. QED
        BY <4>1, <4>2
    <3>3. QED
      BY <3>1, <3>2
  <2>2. /\ \A y, file : OfTheSeal(y, file)' <=> OfTheSeal(y, file)
        /\ \A s, h : OfTheSource(s, h)' <=> OfTheSource(s, h)
    BY <1>1 DEF OfTheSeal, OfTheSource, Struck
  <2>3. QED
    BY <2>1, <2>2 DEF LabelsFollow
<1>14. OneBuilds'
  BY <1>1, <1>2 DEF IInv, OneBuilds, Building
<1>15. BuildComesFirst'
  BY <1>1 DEF IInv, BuildComesFirst, Evaluated, Evaluating
<1>16. OneLabels'
  <2>1. DOMAIN labels' = {Pair(k) : k \in 1..n}
    <3>1. 1..n = (1..(n - 1)) \cup {n}
      BY <1>1
    <3>2. QED
      BY <1>3, <1>9, <3>1 DEF x
  <2>2. n + 1 <= N * R + 1 /\ (n + 1) - 1 = n
    <3>1. N * R \in Nat
      BY PosthocAssumption
    <3>2. QED
      BY <1>1, <3>1
  <2>3. /\ labels' # None /\ mem'[p].next <= N * R + 1
        /\ DOMAIN labels' = {Pair(k) : k \in 1..(mem'[p].next - 1)}
    BY <1>2, <1>10, <2>1, <2>2
  <2>4. \A q \in Procs : pc'[q] = "label" => q = p
    BY <1>1, <1>3
  <2>5. ASSUME NEW q \in Procs
        PROVE  /\ pc'[q] \in {"open_gold", "make_evaluation"} => mem'[q].next = 1
               /\ pc'[q] \in {"make_evaluation", "label"} =>
                    mem'[q].gold \in [Tasks -> Letters]
    BY <1>1, <1>2, <1>3 DEF IInv, OneLabels
  <2>6. QED
    BY <2>3, <2>4, <2>5 DEF OneLabels
<1>17. Traced'
  <2>1. /\ \A y, file : OfTheSeal(y, file)' <=> OfTheSeal(y, file)
        /\ \A s, h : OfTheSource(s, h)' <=> OfTheSource(s, h)
    BY <1>1 DEF OfTheSeal, OfTheSource, Struck
  <2>2. ASSUME NEW q \in Procs PROVE mem'[q].gold = mem[q].gold
    BY <1>2
  <2>3. \A y \in Pairs \ DOMAIN labels' : y \in Pairs \ DOMAIN labels
    BY <1>9
  <2>4. pc' = pc /\ records' = records
    BY <1>1
  <2>5. QED
    BY <2>1, <2>2, <2>3, <2>4 DEF IInv, Traced
<1>20. QED
  BY <1>11, <1>12, <1>13, <1>14, <1>15, <1>16, <1>17 DEF IInv

\* A step of the evaluation after the last label.
LEMMA EvaluationGoesOn ==
  ASSUME IInv, NEW p \in Procs, pc[p] \in Evaluating, NEW place \in {"idle", "seal_root"},
         Goto(p, place), mem' = mem,
         UNCHANGED <<source, ckpts, gold, records, cfSeal, labels, goldOpened, report,
                     struck>>,
         place = "seal_root" => labels # None,
         rootSeal' # rootSeal => rootSeal'.labels # None
  PROVE  IInv'
<1>1. /\ pc' \in [Procs -> Places] /\ pc'[p] = place
      /\ \A q \in Procs : q # p => pc'[q] = pc[q]
  BY Moves DEF IInv, TypeInv, Places, Goto
<1>2. mem' \in [Procs -> Memory]
  BY DEF IInv, TypeInv
<1>3. /\ TypeInv' /\ Intact' /\ RecordsFollow' /\ SealedIsWhole'
      /\ LabelsFollow' /\ LabelsAreSealed'
  <2>1. TypeInv'
    BY <1>1, <1>2 DEF IInv, TypeInv
  <2>2. QED
    BY <2>1, StaysIntact, RecordsStay, LabelsStay, ReportStays
<1>4. OneBuilds'
  BY <1>1 DEF IInv, OneBuilds, Building
<1>5. BuildComesFirst'
  <2>1. cfSeal # None /\ \A q \in Procs : pc[q] # "write_state"
    BY DEF IInv, BuildComesFirst, Evaluated
  <2>2. QED
    BY <1>1, <2>1 DEF BuildComesFirst
<1>6. OneLabels'
  BY <1>1 DEF IInv, OneLabels
<1>7. Traced'
  BY <1>1, TraceStays
<1>8. QED
  BY <1>3, <1>4, <1>5, <1>6, <1>7 DEF IInv

LEMMA CloseEvaluationIInv == ASSUME IInv, NEW p \in Procs, CloseEvaluation(p) PROVE IInv'
<1>1. labels # None
  BY DEF IInv, OneLabels, CloseEvaluation
<1>2. QED
  BY <1>1, EvaluationGoesOn DEF CloseEvaluation, Evaluating, Goto

LEMMA SealRootIInv == ASSUME IInv, NEW p \in Procs, SealRoot(p) PROVE IInv'
<1>1. labels # None
  BY DEF IInv, OneLabels, SealRoot
<1>2. rootSeal'.labels = labels
  BY DEF SealRoot
<1>3. QED
  BY <1>1, <1>2, EvaluationGoesOn DEF SealRoot, Evaluating, Goto

\* The value the code computes is the worth of the role.
LEMMA KeepIsWorth ==
  ASSUME NEW record \in CounterfactualRecord, NEW g \in Letters
  PROVE  KeepValue(record, g) = Worth(record, g)
<1>1. CASE NoVote \in {record.baseline, record.removal}
  BY <1>1 DEF KeepValue, Worth
<1>2. CASE ~(NoVote \in {record.baseline, record.removal})
  <2>1. CASE record.baseline = g /\ record.removal = g
    BY <1>2, <2>1 DEF KeepValue, Worth, Correct
  <2>2. CASE record.baseline = g /\ record.removal # g
    BY <1>2, <2>2 DEF KeepValue, Worth, Correct
  <2>3. CASE record.baseline # g /\ record.removal = g
    BY <1>2, <2>3 DEF KeepValue, Worth, Correct
  <2>4. CASE record.baseline # g /\ record.removal # g
    BY <1>2, <2>4 DEF KeepValue, Worth, Correct
  <2>5. QED
    BY <2>1, <2>2, <2>3, <2>4
<1>3. QED
  BY <1>1, <1>2

LEMMA VerifyIInv == ASSUME IInv, NEW p \in Procs, Verify(p) PROVE IInv'
<1> USE DEF Verify, disk
<1>1. /\ TypeInv' /\ Intact' /\ RecordsFollow' /\ SealedIsWhole' /\ LabelsFollow'
      /\ Traced'
  <2>1. TypeInv'
    BY DEF IInv, TypeInv
  <2>2. QED
    BY <2>1, StaysIntact, RecordsStay, LabelsStay, TraceStays
<1>2. OneBuilds' /\ OneLabels'
  BY DEF IInv, OneBuilds, OneLabels
<1>3. BuildComesFirst'
  BY DEF IInv, BuildComesFirst, Evaluated
<1>4. LabelsAreSealed'
  <2>1. /\ report' = rootSeal /\ DOMAIN records = Pairs /\ DOMAIN labels = Pairs
        /\ \A x \in Pairs : labels[x].record = records[x]
        /\ rootSeal = [records |-> records, labels |-> labels, state |-> state]
    BY DEF Verifies
  <2>2. report'.records = records /\ report'.labels = labels
    BY <2>1
  <2>3. labels # None /\ cfSeal # None
    BY <2>1 DEF IInv, LabelsAreSealed, BuildComesFirst, Evaluated
  <2>4. ASSUME NEW x \in Pairs
        PROVE  /\ OfTheSeal(x, labels[x].record)
               /\ \E g : OfTheSource(x[1], g) /\ labels[x].keep = Worth(labels[x].record, g)
    <3>1. labels[x] \in EvaluationRecord
      BY <2>1, <2>3 DEF IInv, TypeInv, LabelFiles
    <3>2. labels[x].record \in CounterfactualRecord
      BY <3>1 DEF EvaluationRecord
    <3>3. PICK g \in Letters :
            OfTheSource(x[1], g) /\ labels[x].keep = KeepValue(labels[x].record, g)
      BY <2>1, <2>3 DEF IInv, LabelsFollow
    <3>4. OfTheSeal(x, labels[x].record)
      BY <2>1, <2>3 DEF IInv, LabelsFollow
    <3>5. QED
      BY <3>2, <3>3, <3>4, KeepIsWorth
  <2>5. VerifiedLabelsAreTraced'
    <3>1. UNCHANGED <<source, gold, cfSeal, struck>>
      OBVIOUS
    <3>2. ASSUME NEW x \in Pairs
          PROVE  LET label == report'.labels[x] IN
                 /\ label.record = report'.records[x]
                 /\ label.record = cfSeal[x] \/ Struck("checked_record", x[1], x[2])
                 /\ \/ label.keep = Worth(label.record, source.gold[x[1]])
                    \/ Struck("gold", x[1], 0) /\ label.keep = Worth(label.record, gold[x[1]])
      BY <2>1, <2>2, <2>4 DEF OfTheSeal, OfTheSource
    <3>3. DOMAIN report'.records = Pairs /\ DOMAIN report'.labels = Pairs
      BY <2>1, <2>2
    <3>4. QED
      BY <3>1, <3>2, <3>3 DEF VerifiedLabelsAreTraced, Struck
  <2>6. QED
    BY <2>3, <2>5 DEF IInv, LabelsAreSealed
<1>5. QED
  BY <1>1, <1>2, <1>3, <1>4 DEF IInv

LEMMA FailIInv == ASSUME IInv, NEW p \in Procs, Fail(p) PROVE IInv'
<1> USE DEF Fail, Goto, disk
<1>1. /\ pc' \in [Procs -> Places] /\ pc'[p] = "idle"
      /\ \A q \in Procs : q # p => pc'[q] = pc[q]
  BY Moves DEF IInv, TypeInv, Places
<1>2. mem' = mem /\ mem' \in [Procs -> Memory]
  BY DEF IInv, TypeInv
<1>3. /\ TypeInv' /\ Intact' /\ RecordsFollow' /\ SealedIsWhole'
      /\ LabelsFollow' /\ LabelsAreSealed'
  BY <1>1, <1>2, Frame
<1>4. OneBuilds'
  BY <1>1, <1>2 DEF IInv, OneBuilds, Building
<1>5. BuildComesFirst'
  BY <1>1 DEF IInv, BuildComesFirst, Evaluated, Evaluating
<1>6. OneLabels'
  BY <1>1, <1>2 DEF IInv, OneLabels
<1>7. Traced'
  BY <1>1, <1>2, TraceStays
<1>8. QED
  BY <1>3, <1>4, <1>5, <1>6, <1>7 DEF IInv

\* What a change on disk was before it: everything is as Gate 6 sealed it, and
\* what was written follows it.
LEMMA BeforeDamage ==
  ASSUME IInv, Damage
  PROVE  /\ struck = None /\ struck' \in Change
         /\ \A kind \in Kinds, t \in Tasks, r \in 0..R : ~Struck(kind, t, r)
         /\ \A t \in Tasks : Readable(t) = {source.votes[t]}
         /\ UNCHANGED <<source, cfSeal, state, labels, rootSeal, pc, mem, goldOpened, report>>
<1>1. struck = None /\ struck' \in Change
  <2>1. CASE \E t \in Tasks : BreakCheckpoint(t) \/ ReplaceCheckpoint(t) \/ ChangeGold(t)
    <3>1. PICK t \in Tasks, kind \in Kinds : Strike(kind, t, 0)
      BY <2>1 DEF BreakCheckpoint, ReplaceCheckpoint, ChangeGold, Kinds
    <3>2. 0 \in 0..R
      BY PosthocAssumption
    <3>3. QED
      BY <3>1, <3>2 DEF Strike, Change
  <2>2. CASE \E x \in Pairs : ChangeRecord(x)
    <3>1. PICK x \in Pairs : Strike(RecordKind(x), x[1], x[2])
      BY <2>2 DEF ChangeRecord
    <3>2. RecordKind(x) \in Kinds /\ x[1] \in Tasks /\ x[2] \in 0..R
      BY PosthocAssumption DEF RecordKind, Kinds, Pairs, Roles
    <3>3. QED
      BY <3>1, <3>2 DEF Strike, Change
  <2>3. QED
    BY <2>1, <2>2 DEF Damage
<1>2. UNCHANGED <<source, cfSeal, state, labels, rootSeal, pc, mem, goldOpened, report>>
  BY DEF Damage
<1>3. QED
  BY <1>1, <1>2, BeforeTheStrike

\* What the labels, the report and the root seal follow, they follow after any
\* change on disk.
LEMMA DamageLeavesLabels ==
  ASSUME IInv, Damage
  PROVE  /\ LabelsFollow' /\ LabelsAreSealed' /\ BuildComesFirst' /\ OneLabels'
         /\ \A p \in Procs : pc[p] \in {"make_evaluation", "label"} =>
              \A t \in Tasks : OfTheSource(t, mem[p].gold[t])'
<1>1. /\ \A kind \in Kinds, t \in Tasks, r \in 0..R : ~Struck(kind, t, r)
      /\ UNCHANGED <<source, cfSeal, state, labels, rootSeal, pc, mem, goldOpened, report>>
  BY BeforeDamage
<1>2. \A x \in Pairs : ~Struck("checked_record", x[1], x[2]) /\ ~Struck("gold", x[1], 0)
  <2>1. 0 \in 0..R /\ \A x \in Pairs : x[1] \in Tasks /\ x[2] \in 0..R
    BY PosthocAssumption DEF Pairs, Roles
  <2>2. "checked_record" \in Kinds /\ "gold" \in Kinds
    BY DEF Kinds
  <2>3. QED
    BY <1>1, <2>1, <2>2
<1>3. \A t \in Tasks : ~Struck("gold", t, 0)
  <2>1. 0 \in 0..R /\ "gold" \in Kinds
    BY PosthocAssumption DEF Kinds
  <2>2. QED
    BY <1>1, <2>1
<1>4. LabelsFollow'
  <2>1. ASSUME labels # None, NEW x \in DOMAIN labels
        PROVE  /\ labels[x].record = cfSeal[x]
               /\ labels[x].keep = KeepValue(labels[x].record, source.gold[x[1]])
               /\ source.gold[x[1]] \in Letters
               /\ labels[x].tie = labels[x].record.tie
    <3>1. x \in Pairs /\ x[1] \in Tasks
      BY <2>1 DEF IInv, TypeInv, LabelFiles, Pairs
    <3>2. QED
      BY <1>2, <2>1, <3>1 DEF IInv, LabelsFollow, OfTheSeal, OfTheSource
  <2>2. QED
    BY <1>1, <2>1 DEF LabelsFollow, OfTheSeal, OfTheSource
<1>5. LabelsAreSealed'
  BY <1>1, <1>2 DEF IInv, LabelsAreSealed, VerifiedLabelsAreTraced
<1>6. BuildComesFirst'
  BY <1>1 DEF IInv, BuildComesFirst, Evaluated
<1>7. OneLabels'
  BY <1>1 DEF IInv, OneLabels
<1>8. \A p \in Procs : pc[p] \in {"make_evaluation", "label"} =>
        \A t \in Tasks : OfTheSource(t, mem[p].gold[t])'
  BY <1>1, <1>3 DEF IInv, Traced, OfTheSource
<1>9. QED
  BY <1>4, <1>5, <1>6, <1>7, <1>8

\* A record written before the change is of the vote it was of.
LEMMA DamageLeavesVotes ==
  ASSUME IInv, Damage, NEW files, NEW t \in Tasks, OfOneVote(t, files)
  PROVE  /\ \A r \in Roles :
              <<t, r>> \in DOMAIN files => Follows(source.votes[t], r, files[<<t, r>>])
         /\ source'.votes[t] = source.votes[t] /\ source.votes[t] \in Readable(t)'
<1>1. /\ \A kind \in Kinds, s \in Tasks, r \in 0..R : ~Struck(kind, s, r)
      /\ Readable(t) = {source.votes[t]} /\ source' = source
  BY BeforeDamage
<1>2. \A r \in Roles : ~Struck("unsealed_record", t, r)
  <2>1. "unsealed_record" \in Kinds /\ \A r \in Roles : r \in 0..R
    BY PosthocAssumption DEF Kinds, Roles
  <2>2. QED
    BY <1>1, <2>1
<1>3. source.votes[t] \in Readable(t)'
  BY <1>1 DEF Readable
<1>4. QED
  BY <1>1, <1>2, <1>3 DEF OfOneVote

LEMMA DamageOfCheckpointIInv ==
  ASSUME IInv, Damage, UNCHANGED records, NEW t \in Tasks,
         BreakCheckpoint(t) \/ ReplaceCheckpoint(t) \/ ChangeGold(t)
  PROVE  IInv'
<1>1. /\ struck = None /\ struck' \in Change
      /\ \A kind \in Kinds, s \in Tasks, r \in 0..R : ~Struck(kind, s, r)
      /\ UNCHANGED <<source, cfSeal, state, labels, rootSeal, pc, mem, goldOpened, report>>
  BY BeforeDamage
<1>2. \A s \in Tasks : ~Struck("gold", s, 0) /\ ~Struck("replaced_checkpoint", s, 0)
  <2>1. 0 \in 0..R /\ "gold" \in Kinds /\ "replaced_checkpoint" \in Kinds
    BY PosthocAssumption DEF Kinds
  <2>2. QED
    BY <1>1, <2>1
<1>3. ckpts' \in [Tasks -> [Roles -> Checkpoint]] /\ gold' \in [Tasks -> Letters] /\ Intact'
  <2>1. CASE BreakCheckpoint(t)
    <3>1. PICK r \in Roles, v \in Written :
            ckpts' = [ckpts EXCEPT ![t][r] = [vote |-> v, sound |-> FALSE]]
      BY <2>1 DEF BreakCheckpoint
    <3> DEFINE c == [vote |-> v, sound |-> FALSE]
               votes == [ckpts[t] EXCEPT ![r] = c]
    <3>2. c \in Checkpoint /\ ~c.sound
      BY PosthocAssumption DEF Checkpoint
    <3> HIDE DEF c
    <3>3. votes \in [Roles -> Checkpoint] /\ votes[r] = c
      BY <3>2 DEF IInv, TypeInv
    <3>4. ckpts' = [ckpts EXCEPT ![t] = votes] /\ ckpts \in [Tasks -> [Roles -> Checkpoint]]
      BY <3>1 DEF IInv, TypeInv, c
    <3> HIDE DEF votes
    <3>5. /\ ckpts' \in [Tasks -> [Roles -> Checkpoint]] /\ ckpts'[t] = votes
          /\ \A s \in Tasks : s # t => ckpts'[s] = ckpts[s]
      BY <3>3, <3>4
    <3>6. gold' = gold /\ ~ckpts'[t][r].sound
      BY <2>1, <3>2, <3>3, <3>5 DEF BreakCheckpoint
    <3>7. Intact'
      BY <1>1, <1>2, <3>5, <3>6 DEF IInv, Intact, Sealed
    <3>8. QED
      BY <3>5, <3>6, <3>7 DEF IInv, TypeInv
  <2>2. CASE ReplaceCheckpoint(t)
    <3>1. PICK c \in Replacements(t) : ckpts' = [ckpts EXCEPT ![t] = c]
      BY <2>2 DEF ReplaceCheckpoint
    <3>2. \A v \in Written : [vote |-> v, sound |-> TRUE] \in Checkpoint
      BY PosthocAssumption DEF Checkpoint
    <3>3. c \in [Roles -> Checkpoint]
      BY <3>1, <3>2 DEF IInv, TypeInv, Replacements
    <3>4. /\ ckpts' \in [Tasks -> [Roles -> Checkpoint]]
          /\ \A s \in Tasks : s # t => ckpts'[s] = ckpts[s]
      BY <3>1, <3>3 DEF IInv, TypeInv
    <3>5. gold' = gold /\ Struck("replaced_checkpoint", t, 0)'
      BY <2>2 DEF ReplaceCheckpoint, Strike, Struck
    <3>6. Intact'
      <4>1. source' = source /\ \A s \in Tasks : Sealed(s)' = Sealed(s)
        BY <1>1 DEF Sealed
      <4>2. \A s \in Tasks : ckpts[s] = Sealed(s) \/ \E r \in Roles : ~ckpts[s][r].sound
        BY <1>2 DEF IInv, Intact
      <4>3. \A s \in Tasks : gold'[s] = source'.gold[s]
        BY <1>2, <3>5, <4>1 DEF IInv, Intact
      <4>4. ASSUME NEW s \in Tasks
            PROVE  \/ ckpts'[s] = Sealed(s)' \/ Struck("replaced_checkpoint", s, 0)'
                   \/ \E r \in Roles : ~ckpts'[s][r].sound
        BY <3>4, <3>5, <4>1, <4>2
      <4>5. QED
        BY <4>3, <4>4 DEF Intact
    <3>7. QED
      BY <3>4, <3>5, <3>6 DEF IInv, TypeInv
  <2>3. CASE ChangeGold(t)
    <3>1. PICK g \in Letters : gold' = [gold EXCEPT ![t] = g]
      BY <2>3 DEF ChangeGold
    <3>2. /\ gold' \in [Tasks -> Letters] /\ \A s \in Tasks : s # t => gold'[s] = gold[s]
          /\ ckpts' = ckpts
      BY <2>3, <3>1 DEF ChangeGold, IInv, TypeInv
    <3>3. Struck("gold", t, 0)'
      BY <2>3 DEF ChangeGold, Strike, Struck
    <3>4. Intact'
      BY <1>1, <1>2, <3>2, <3>3 DEF IInv, Intact, Sealed
    <3>5. QED
      BY <3>2, <3>4 DEF IInv, TypeInv
  <2>4. QED
    BY <2>1, <2>2, <2>3
<1>4. TypeInv'
  BY <1>1, <1>3 DEF IInv, TypeInv
<1>5. \A s \in Tasks : \A files : OfOneVote(s, files) => OfOneVote(s, files)'
  BY DamageLeavesVotes DEF OfOneVote
<1>6. RecordsFollow'
  BY <1>1, <1>5 DEF IInv, RecordsFollow
<1>7. SealedIsWhole' /\ OneBuilds'
  BY <1>1 DEF IInv, SealedIsWhole, OneBuilds
<1>8. Traced'
  <2>1. \A x \in Pairs : ~Struck("checked_record", x[1], x[2])
    <3>1. "checked_record" \in Kinds /\ \A x \in Pairs : x[1] \in Tasks /\ x[2] \in 0..R
      BY PosthocAssumption DEF Kinds, Pairs, Roles
    <3>2. QED
      BY <1>1, <3>1
  <2>2. \A x \in Pairs : OfTheSeal(x, records[x]) => OfTheSeal(x, records[x])'
    BY <1>1, <2>1 DEF OfTheSeal
  <2>3. \A p \in Procs : pc[p] \in {"make_evaluation", "label"} =>
          \A s \in Tasks : OfTheSource(s, mem[p].gold[s])'
    BY DamageLeavesLabels
  <2>4. QED
    BY <1>1, <2>2, <2>3 DEF IInv, Traced
<1>9. QED
  BY <1>3, <1>4, <1>6, <1>7, <1>8, DamageLeavesLabels DEF IInv

LEMMA DamageOfRecordIInv ==
  ASSUME IInv, Damage, NEW x \in Pairs, ChangeRecord(x)
  PROVE  IInv'
<1>1. /\ struck = None /\ struck' \in Change
      /\ \A kind \in Kinds, s \in Tasks, r \in 0..R : ~Struck(kind, s, r)
      /\ UNCHANGED <<source, cfSeal, state, labels, rootSeal, pc, mem, goldOpened, report>>
  BY BeforeDamage
<1>2. PICK v \in Written : records' = [records EXCEPT ![x].removal = v]
  BY DEF ChangeRecord
<1>3. records # None /\ x \in DOMAIN records /\ UNCHANGED <<ckpts, gold>>
  BY DEF ChangeRecord
<1>4. PICK S \in SUBSET Pairs : records \in [S -> CounterfactualRecord]
  BY <1>3 DEF IInv, TypeInv, RecordFiles
<1> DEFINE rec == [records[x] EXCEPT !.removal = v]
<1>5. rec \in CounterfactualRecord
  <2>1. records[x] \in CounterfactualRecord /\ v \in Answers
    BY <1>3, <1>4, PosthocAssumption
  <2>2. QED
    BY <2>1 DEF CounterfactualRecord
<1>6. records' = [records EXCEPT ![x] = rec]
  BY <1>2
<1> HIDE DEF rec
<1>7. /\ records' \in [S -> CounterfactualRecord] /\ DOMAIN records' = DOMAIN records
      /\ \A y \in DOMAIN records : y # x => records'[y] = records[y]
  BY <1>4, <1>5, <1>6
<1>8. records' \in RecordFiles /\ records' # None
  <2>1. records' \in RecordFiles
    BY <1>7, Zenon DEF RecordFiles
  <2>2. QED
    BY <2>1, FilesAreThere
<1>9. TypeInv'
  BY <1>1, <1>3, <1>8 DEF IInv, TypeInv
<1>10. \A s \in Tasks : ~Struck("gold", s, 0) /\ ~Struck("replaced_checkpoint", s, 0)
  <2>1. 0 \in 0..R /\ "gold" \in Kinds /\ "replaced_checkpoint" \in Kinds
    BY PosthocAssumption DEF Kinds
  <2>2. QED
    BY <1>1, <2>1
<1>11. Intact'
  BY <1>1, <1>3, <1>10 DEF IInv, Intact, Sealed
<1>12. struck' = [kind |-> RecordKind(x), task |-> x[1], role |-> x[2]]
       /\ x = <<x[1], x[2]>> /\ x[1] \in Tasks /\ x[2] \in Roles
  BY DEF ChangeRecord, Strike, Pairs
<1>13. RecordsFollow'
  <2>1. CASE cfSeal = None
    <3>1. Struck("unsealed_record", x[1], x[2])'
      BY <1>12, <2>1 DEF RecordKind, Struck
    <3>2. ASSUME NEW t \in Tasks PROVE OfOneVote(t, records)'
      <4>1. OfOneVote(t, records)
        BY <1>3, <2>1 DEF IInv, RecordsFollow
      <4>2. /\ \A r \in Roles : <<t, r>> \in DOMAIN records =>
                 Follows(source.votes[t], r, records[<<t, r>>])
            /\ source.votes[t] \in Readable(t)'
        BY <4>1, DamageLeavesVotes
      <4>3. ASSUME NEW r \in Roles, <<t, r>> \in DOMAIN records'
            PROVE  \/ Struck("unsealed_record", t, r)'
                   \/ Follows(source.votes[t], r, records'[<<t, r>>])
        <5>1. CASE <<t, r>> = x
          <6>1. t = x[1] /\ r = x[2]
            BY <5>1
          <6>2. QED
            BY <3>1, <6>1
        <5>2. CASE <<t, r>> # x
          BY <1>7, <4>2, <4>3, <5>2
        <5>3. QED
          BY <5>1, <5>2
      <4>4. QED
        BY <4>2, <4>3 DEF OfOneVote
    <3>3. QED
      BY <1>1, <2>1, <3>2 DEF RecordsFollow
  <2>2. CASE cfSeal # None
    <3>1. \A t \in Tasks : OfOneVote(t, cfSeal) => OfOneVote(t, cfSeal)'
      BY <1>1, DamageLeavesVotes DEF OfOneVote
    <3>2. QED
      BY <1>1, <2>2, <3>1 DEF IInv, RecordsFollow
  <2>3. QED
    BY <2>1, <2>2
<1>14. OneBuilds' /\ SealedIsWhole'
  BY <1>1, <1>3, <1>7, <1>8 DEF IInv, OneBuilds, SealedIsWhole
<1>15. Traced'
  <2>1. \A y \in Pairs : ~Struck("checked_record", y[1], y[2])
    <3>1. "checked_record" \in Kinds /\ \A y \in Pairs : y[1] \in Tasks /\ y[2] \in 0..R
      BY PosthocAssumption DEF Kinds, Pairs, Roles
    <3>2. QED
      BY <1>1, <3>1
  <2>2. ASSUME NEW p \in Procs,
               \/ pc[p] \in {"open_gold", "make_evaluation"}
               \/ pc[p] = "label",
               NEW y \in Pairs, pc[p] = "label" => y \notin DOMAIN labels
        PROVE  OfTheSeal(y, records[y])'
    <3>1. /\ pc[p] \in Evaluating /\ cfSeal # None /\ DOMAIN records = Pairs
      BY <2>2 DEF IInv, Evaluating, Evaluated, BuildComesFirst, SealedIsWhole
    <3>2. records[y] = cfSeal[y]
      BY <2>1, <2>2 DEF IInv, Traced, OfTheSeal
    <3>3. CASE y # x
      BY <1>1, <1>7, <3>1, <3>2, <3>3 DEF OfTheSeal
    <3>4. CASE y = x
      <4>1. Checked(x)
        BY <2>2, <3>4 DEF Checked
      <4>2. Struck("checked_record", x[1], x[2])'
        BY <1>12, <3>1, <4>1 DEF RecordKind, Struck
      <4>3. QED
        BY <3>4, <4>2 DEF OfTheSeal
    <3>5. QED
      BY <3>3, <3>4
  <2>3. \A p \in Procs : pc[p] \in {"make_evaluation", "label"} =>
          \A s \in Tasks : OfTheSource(s, mem[p].gold[s])'
    BY DamageLeavesLabels
  <2>4. QED
    BY <1>1, <2>2, <2>3 DEF Traced
<1>16. QED
  BY <1>9, <1>11, <1>13, <1>14, <1>15, DamageLeavesLabels DEF IInv

LEMMA DamageIInv == ASSUME IInv, Damage PROVE IInv'
<1>1. CASE \E t \in Tasks : BreakCheckpoint(t) \/ ReplaceCheckpoint(t) \/ ChangeGold(t)
  <2>1. UNCHANGED records
    BY <1>1 DEF BreakCheckpoint, ReplaceCheckpoint, ChangeGold
  <2>2. QED
    BY <1>1, <2>1, DamageOfCheckpointIInv
<1>2. CASE \E x \in Pairs : ChangeRecord(x)
  BY <1>2, DamageOfRecordIInv
<1>3. QED
  BY <1>1, <1>2 DEF Damage

LEMMA StutterIInv == IInv /\ UNCHANGED vars => IInv'
<1> SUFFICES ASSUME IInv, UNCHANGED vars PROVE IInv'
  OBVIOUS
<1> USE DEF vars, disk
<1>1. /\ TypeInv' /\ Intact' /\ RecordsFollow' /\ SealedIsWhole' /\ LabelsFollow'
      /\ Traced' /\ LabelsAreSealed'
  <2>1. TypeInv'
    BY DEF IInv, TypeInv
  <2>2. QED
    BY <2>1, StaysIntact, RecordsStay, LabelsStay, TraceStays, ReportStays
<1>2. OneBuilds' /\ OneLabels'
  BY DEF IInv, OneBuilds, OneLabels
<1>3. BuildComesFirst'
  BY DEF IInv, BuildComesFirst, Evaluated
<1>4. QED
  BY <1>1, <1>2, <1>3 DEF IInv

LEMMA NextIInv == IInv /\ [Next]_vars => IInv'
<1> SUFFICES ASSUME IInv, [Next]_vars PROVE IInv'
  OBVIOUS
<1>1. ASSUME NEW p \in Procs, StartBuild(p) \/ StartEvaluate(p) \/ Verify(p) \/ Fail(p)
      PROVE  IInv'
  BY <1>1, StartBuildIInv, StartEvaluateIInv, VerifyIInv, FailIInv
<1>2. ASSUME NEW p \in Procs, Step(p) PROVE IInv'
  BY <1>2, MakeRootIInv, BuildTaskIInv, SealRecordsIInv, WriteStateIInv, OpenGoldIInv,
     MakeEvaluationIInv, LabelRecordIInv, CloseEvaluationIInv, SealRootIInv DEF Step
<1>3. CASE Damage
  BY <1>3, DamageIInv
<1>4. CASE UNCHANGED vars
  BY <1>4, StutterIInv
<1>5. QED
  BY <1>1, <1>2, <1>3, <1>4 DEF Next

\* Whatever processes are started, die and are started again, and whatever
\* file is damaged, one builds, then one labels, and what they seal is whole.
THEOREM Inductive == Spec => []IInv
<1>1. Init => IInv
  BY InitIInv
<1>2. IInv /\ [Next]_vars => IInv'
  BY NextIInv
<1>3. QED
  BY <1>1, <1>2, PTL DEF Spec

------------------------------------------------------------------------------
\* The records build seals of a task are all of one vote: the one Gate 6 sealed,
\* or that of a checkpoint that fits itself and took its place after it was
\* checked.  A checkpoint that contradicts itself is never sealed.
THEOREM RecordsAreOfTheVotes == Spec => []RecordsFollowTheVotes
<1>1. IInv => RecordsFollowTheVotes
  <2>1. ASSUME cfSeal # None, DOMAIN cfSeal = Pairs, NEW t \in Tasks, OfOneVote(t, cfSeal)
        PROVE  \E votes \in Readable(t) : \A r \in Roles :
                 Struck("unsealed_record", t, r) \/ Follows(votes, r, cfSeal[<<t, r>>])
    BY <2>1 DEF OfOneVote, Pairs
  <2>2. QED
    BY <2>1 DEF IInv, RecordsFollow, RecordsFollowTheVotes
<1>2. QED
  BY <1>1, Inductive, PTL

\* evaluate labels a role with a value only if it voted for the answer of the
\* team and a tie was decided before or after its removal, and with none only
\* if no valid vote is left.
THEOREM ValueIsOfSupporters == Spec => []OnlySupportersHaveValue
<1>1. ASSUME IInv, labels # None, NEW x \in DOMAIN labels, NEW votes,
             Follows(votes, x[2], labels[x].record)
      PROVE  /\ labels[x].keep = None <=> \A r \in Roles \ {x[2]} : votes[r] = NoVote
             /\ labels[x].keep \in {-1, 1} =>
                  labels[x].tie /\ Wins(votes, Roles, votes[x[2]])
  <2> DEFINE rec == labels[x].record
             r == x[2]
  <2>1. labels \in LabelFiles
    BY <1>1 DEF IInv, TypeInv
  <2>2. x \in Pairs /\ labels[x] \in EvaluationRecord
    BY <1>1, <2>1 DEF LabelFiles
  <2>3. r \in Roles /\ rec \in CounterfactualRecord
    BY <2>2 DEF Pairs, EvaluationRecord
  <2>4. Follows(votes, r, rec)
    BY <1>1
  <2>5. PICK g \in Letters : labels[x].keep = KeepValue(rec, g) /\ labels[x].tie = rec.tie
    BY <1>1 DEF IInv, LabelsFollow
  <2> HIDE DEF rec, r
  <2>6. labels[x].keep = None <=> NoVote \in {rec.baseline, rec.removal}
    BY <2>5, PosthocAssumption DEF KeepValue, Correct
  <2>7. labels[x].keep = None <=> \A q \in Roles \ {r} : votes[q] = NoVote
    BY <2>3, <2>4, <2>6, NoVoteLeft
  <2>8. ASSUME labels[x].keep \in {-1, 1}
        PROVE  labels[x].tie /\ Wins(votes, Roles, votes[r])
    <3>1. labels[x].keep # None
      BY <2>8, PosthocAssumption
    <3>2. rec.baseline # NoVote /\ rec.removal # NoVote
      BY <2>6, <3>1
    <3>3. rec.baseline \in Letters /\ rec.removal \in Letters
      BY <2>3, <3>2 DEF CounterfactualRecord, Answers
    <3>4. rec.baseline # rec.removal
      BY <2>5, <2>8, <3>2 DEF KeepValue, Correct
    <3>5. /\ Wins(votes, Roles, rec.baseline) /\ Wins(votes, Roles \ {r}, rec.removal)
          /\ rec.tie <=> TiedIn(votes, Roles) \/ TiedIn(votes, Roles \ {r})
      BY <2>4 DEF Follows
    <3>6. /\ votes[r] = rec.baseline
          /\ TiedIn(votes, Roles) \/ TiedIn(votes, Roles \ {r})
      BY <2>3, <3>3, <3>4, <3>5, OnlySupportersDecide
    <3>7. QED
      BY <2>5, <3>5, <3>6
  <2>9. QED
    BY <2>7, <2>8 DEF r
<1>2. IInv => OnlySupportersHaveValue
  BY <1>1 DEF OnlySupportersHaveValue
<1>3. QED
  BY <1>2, Inductive, PTL

\* What verify has passed holds one label per role of each task, on the record
\* beside it and of the gold answer; record and answer are the sealed ones but
\* for a record changed behind the check of its seal and for changed gold data.
THEOREM VerifiedLabelsHaveTheirSource == Spec => []VerifiedLabelsAreTraced
<1>1. IInv => VerifiedLabelsAreTraced
  BY DEF IInv, LabelsAreSealed
<1>2. QED
  BY <1>1, Inductive, PTL

\* A step after the gold data was opened writes no record, no seal of records
\* and no label a second time.
LEMMA AfterGold ==
  ASSUME IInv, [Next]_vars, goldOpened
  PROVE  /\ cfSeal' = cfSeal
         /\ records' # records => struck = None /\ struck' # None
         /\ labels # None => \A x \in DOMAIN labels :
                               x \in DOMAIN labels' /\ labels'[x] = labels[x]
<1>1. /\ records # None /\ cfSeal # None
      /\ \A p \in Procs : pc[p] \notin Building
  BY DEF IInv, BuildComesFirst, Evaluated, SealedIsWhole, OneBuilds, Building
<1>2. ASSUME NEW p \in Procs, LabelRecord(p)
      PROVE  /\ cfSeal' = cfSeal /\ records' = records
             /\ \A x \in DOMAIN labels : x \in DOMAIN labels' /\ labels'[x] = labels[x]
  <2> DEFINE n == mem[p].next
  <2>1. /\ DOMAIN labels = {Pair(k) : k \in 1..(n - 1)} /\ n \in Nat \ {0}
        /\ UNCHANGED <<records, cfSeal>>
    BY <1>2 DEF LabelRecord, IInv, OneLabels, TypeInv, Memory
  <2>2. PICK new : labels' = With(labels, Pair(n), new)
    BY <1>2 DEF LabelRecord
  <2> HIDE DEF n
  <2>3. Pair(n) \notin DOMAIN labels
    <3>1. ASSUME NEW k \in 1..(n - 1), Pair(n) = Pair(k) PROVE FALSE
      <4>1. k \in Nat \ {0} /\ k # n
        BY <2>1
      <4>2. QED
        BY <2>1, <3>1, <4>1, PairsDiffer
    <3>2. QED
      BY <2>1, <3>1
  <2>4. \A x \in DOMAIN labels : x \in DOMAIN labels' /\ labels'[x] = labels[x]
    BY <2>2, <2>3 DEF With
  <2>5. QED
    BY <2>1, <2>4
<1>3. ASSUME NEW p \in Procs, Step(p), ~LabelRecord(p)
      PROVE  cfSeal' = cfSeal /\ records' = records /\ (labels # None => labels' = labels)
  <2>1. ~MakeRoot(p) /\ ~BuildTask(p) /\ ~SealRecords(p) /\ ~WriteState(p)
    BY <1>1 DEF MakeRoot, BuildTask, SealRecords, WriteState, Building
  <2>2. CASE OpenGold(p)
    BY <2>2 DEF OpenGold, disk
  <2>3. CASE MakeEvaluation(p)
    BY <2>3 DEF MakeEvaluation, EvaluationFresh
  <2>4. CASE CloseEvaluation(p)
    BY <2>4 DEF CloseEvaluation
  <2>5. CASE SealRoot(p)
    BY <2>5 DEF SealRoot
  <2>6. QED
    BY <1>3, <2>1, <2>2, <2>3, <2>4, <2>5 DEF Step
<1>4. ASSUME NEW p \in Procs, StartBuild(p) \/ StartEvaluate(p) \/ Verify(p) \/ Fail(p)
      PROVE  UNCHANGED <<cfSeal, records, labels>>
  BY <1>4 DEF StartBuild, StartEvaluate, Verify, Fail, disk
<1>5. CASE Damage
  <2>1. struck = None /\ struck' # None
    BY <1>5, BeforeDamage, PosthocAssumption
  <2>2. QED
    BY <1>5, <2>1 DEF Damage
<1>6. CASE UNCHANGED vars
  BY <1>6 DEF vars, disk
<1>7. QED
  BY <1>2, <1>3, <1>4, <1>5, <1>6 DEF Next

\* Once the gold data is opened the evidence only grows by labels: whatever
\* mode is started, in whatever number of processes, nothing is rewritten.
THEOREM GoldComesLast == Spec => NothingChangesAfterGold
<1>1. IInv /\ [Next]_vars =>
        [goldOpened =>
           /\ cfSeal' = cfSeal
           /\ records' # records => struck = None /\ struck' # None
           /\ labels # None => \A x \in DOMAIN labels :
                                 x \in DOMAIN labels' /\ labels'[x] = labels[x]]_vars
  BY AfterGold
<1>2. QED
  BY <1>1, Inductive, PTL DEF Spec, NothingChangesAfterGold
=============================================================================
