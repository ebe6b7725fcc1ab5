-------------------------- MODULE Gate62SmokeProofs -------------------------
(***************************************************************************)
(* Theorems about Gate62Smoke, for any number of tasks, roles and options  *)
(* and any outputs, and about the values of ScoreSignal it computes.       *)
(***************************************************************************)
EXTENDS Gate62Smoke, FiniteSetTheorems, WellFoundedInduction, TLAPS

------------------------------------------------------------------------------
(* Min and Max of the community modules, from the well-foundedness of the   *)
(* naturals.                                                                *)

\* A set of naturals that is not empty has a least element, and Min is it.
LEMMA MinIsLeast ==
  ASSUME NEW S, S \subseteq Nat, S # {}
  PROVE  Min(S) \in S /\ \A y \in S : Min(S) <= y
<1>1. PICK x \in S : \A y \in S : <<y, x>> \notin OpToRel(<, Nat)
  BY NatLessThanWellFounded, WFMin, Zenon
<1>2. \A y \in S : ~(y < x)
  <2>1. ASSUME NEW y \in S, y < x PROVE <<y, x>> \in OpToRel(<, Nat)
    <3>1. <<y, x>> \in Nat \X Nat /\ <<y, x>>[1] < <<y, x>>[2]
      BY <2>1
    <3>2. QED
      BY <3>1, Zenon DEF OpToRel
  <2>2. QED
    BY <1>1, <2>1, Zenon
<1>3. \A y \in S : x <= y
  BY <1>2
<1>4. QED
  BY <1>3 DEF Min

\* A bounded set of naturals that is not empty has a greatest element.
LEMMA MaxIsGreatest ==
  ASSUME NEW n \in Nat, NEW S, S \subseteq 0..n, S # {}
  PROVE  Max(S) \in S /\ \A y \in S : y <= Max(S)
<1> DEFINE T == {n - x : x \in S}
<1>1. T \subseteq Nat /\ T # {}
  <2>1. \A x \in S : n - x \in Nat
    OBVIOUS
  <2>2. QED
    BY <2>1
<1>2. Min(T) \in T /\ \A y \in T : Min(T) <= y
  BY <1>1, MinIsLeast
<1>3. PICK x \in S : Min(T) = n - x
  BY <1>2
<1>4. \A y \in S : y <= x
  <2>1. ASSUME NEW y \in S PROVE y <= x
    <3>1. n - y \in T
      OBVIOUS
    <3>2. n - x <= n - y
      BY <1>2, <1>3, <3>1
    <3>3. QED
      BY <3>2
  <2>2. QED
    BY <2>1
<1>5. QED
  BY <1>4 DEF Max

------------------------------------------------------------------------------
(* The hard and the soft value of a role.                                   *)

\* What an aggregation of scorable outputs is: totals up to some bound, and
\* the selected option is one of the tied ones.
Aggregated(a) ==
  /\ a.roles \in Nat \ {0}
  /\ \E bound \in Nat : a.total \in [Letters -> 0..bound]
  /\ a.selected \in TiedOptions(a.total)
  /\ a.tie <=> Cardinality(TiedOptions(a.total)) > 1

Others(a, g) == {a.total[o] : o \in Letters \ {g}}

\* The best wrong total is a number, reached by a wrong option and by none
\* exceeded.
LEMMA BestWrong ==
  ASSUME NEW a, Aggregated(a), L \in Nat \ {0, 1}, NEW g \in Letters
  PROVE  /\ \E o \in Letters \ {g} : a.total[o] = Max(Others(a, g))
         /\ \A o \in Letters \ {g} : a.total[o] <= Max(Others(a, g))
         /\ Max(Others(a, g)) \in Nat
<1>1. PICK bound \in Nat : a.total \in [Letters -> 0..bound]
  BY DEF Aggregated
<1>2. Others(a, g) \subseteq 0..bound
  BY <1>1 DEF Others
<1>3. \E o \in Letters : o # g
  <2>1. 1 \in Letters /\ 2 \in Letters
    BY DEF Letters
  <2>2. QED
    BY <2>1
<1>4. Others(a, g) # {}
  BY <1>3 DEF Others
<1>5. /\ Max(Others(a, g)) \in Others(a, g)
      /\ \A y \in Others(a, g) : y <= Max(Others(a, g))
  BY <1>2, <1>4, MaxIsGreatest
<1>6. Max(Others(a, g)) \in Nat
  BY <1>2, <1>5
<1>7. QED
  BY <1>5, <1>6 DEF Others

\* The margin of gold is not negative when gold is selected, not positive when
\* it is not, and zero only in a tie.
LEMMA MarginFollowsTheAnswer ==
  ASSUME NEW a, Aggregated(a), L \in Nat \ {0, 1}, NEW g \in Letters
  PROVE  /\ GoldMargin(a.total, g) \in Int
         /\ Correct(a, g) \in {0, 1}
         /\ Correct(a, g) = 1 => GoldMargin(a.total, g) >= 0
         /\ Correct(a, g) = 0 => GoldMargin(a.total, g) <= 0
         /\ Correct(a, g) = 1 /\ GoldMargin(a.total, g) = 0 => a.tie
<1> DEFINE best == Max(Others(a, g))
<1>1. PICK bound \in Nat : a.total \in [Letters -> 0..bound]
  BY DEF Aggregated
<1>2. GoldMargin(a.total, g) = a.total[g] - best
  BY DEF GoldMargin, Others
<1>3. PICK o \in Letters \ {g} : a.total[o] = best
  BY BestWrong
<1>4. best \in Nat /\ \A p \in Letters \ {g} : a.total[p] <= best
  BY BestWrong
<1>5. a.total[g] \in Nat /\ \A p \in Letters : a.total[p] \in Nat
  BY <1>1
<1>6. a.selected \in Letters /\ \A p \in Letters : a.total[p] <= a.total[a.selected]
  BY DEF Aggregated, TiedOptions
<1>7. Correct(a, g) \in {0, 1} /\ (Correct(a, g) = 1 <=> a.selected = g)
  BY DEF Correct
<1>8. a.selected = g => a.total[g] >= best
  BY <1>3, <1>6
<1>9. a.selected # g => a.total[g] <= best
  <2>1. a.selected # g => a.total[g] <= a.total[a.selected] /\ a.total[a.selected] <= best
    BY <1>4, <1>6
  <2>2. QED
    BY <2>1, <1>4, <1>5, <1>6
<1>10. a.selected = g /\ a.total[g] = best => a.tie
  <2>1. SUFFICES ASSUME a.selected = g, a.total[g] = best PROVE a.tie
    OBVIOUS
  <2>2. {g, o} \subseteq TiedOptions(a.total)
    BY <2>1, <1>3, <1>6 DEF TiedOptions
  <2>3. IsFiniteSet(TiedOptions(a.total))
    <3>1. IsFiniteSet(Letters)
      BY FS_Interval DEF Letters
    <3>2. QED
      BY <3>1, FS_Subset DEF TiedOptions
  <2>4. Cardinality({g, o}) = 2
    <3>1. IsFiniteSet({o}) /\ Cardinality({o}) = 1
      BY FS_Singleton
    <3>2. g \notin {o} /\ {o} \cup {g} = {g, o}
      BY <1>3
    <3>3. Cardinality({o} \cup {g}) = Cardinality({o}) + 1
      BY <3>1, <3>2, FS_AddElement
    <3>4. QED
      BY <3>1, <3>2, <3>3
  <2>5. Cardinality({g, o}) <= Cardinality(TiedOptions(a.total))
    BY <2>2, <2>3, FS_Subset
  <2>6. Cardinality(TiedOptions(a.total)) > 1
    <3>1. Cardinality(TiedOptions(a.total)) \in Nat
      BY <2>3, FS_CardinalityType
    <3>2. QED
      BY <3>1, <2>4, <2>5
  <2>7. QED
    BY <2>6 DEF Aggregated
<1>11. QED
  BY <1>2, <1>4, <1>5, <1>7, <1>8, <1>9, <1>10

\* A product of two numbers that are not negative is none.
LEMMA ProductSign ==
  ASSUME NEW m \in Int, NEW n \in Nat \ {0}
  PROVE  /\ m * n \in Int
         /\ m >= 0 => m * n >= 0
         /\ m <= 0 => m * n <= 0
         /\ m * n = 0 => m = 0
OBVIOUS

(***************************************************************************)
(* evaluate_keep_value never contradicts itself: a role without which a    *)
(* right answer turns wrong has no negative soft value, one without which  *)
(* a wrong answer turns right no positive one, and the answer changes at   *)
(* no soft value only if a tie decided.                                    *)
(***************************************************************************)
THEOREM ValuesAgree ==
  ASSUME NEW b, NEW r, Aggregated(b), Aggregated(r),
         L \in Nat \ {0, 1}, NEW g \in Letters
  PROVE  LET row == Evaluation(b, r, g) IN
         /\ row.hard = 1 => row.soft >= 0
         /\ row.hard = -1 => row.soft <= 0
         /\ row.hard # 0 /\ row.soft = 0 => row.tie
<1> DEFINE row == Evaluation(b, r, g)
           bm == GoldMargin(b.total, g)
           rm == GoldMargin(r.total, g)
           bs == bm * r.roles
           rs == rm * b.roles
<1>1. /\ row.hard = Correct(b, g) - Correct(r, g)
      /\ row.soft = bs - rs
      /\ row.tie = (b.tie \/ r.tie)
  BY DEF Evaluation, HardKeepValue, SoftKeepValue
<1>2. b.roles \in Nat \ {0} /\ r.roles \in Nat \ {0}
  BY DEF Aggregated
<1>3. /\ bm \in Int /\ Correct(b, g) \in {0, 1}
      /\ Correct(b, g) = 1 => bm >= 0
      /\ Correct(b, g) = 0 => bm <= 0
      /\ Correct(b, g) = 1 /\ bm = 0 => b.tie
  BY MarginFollowsTheAnswer
<1>4. /\ rm \in Int /\ Correct(r, g) \in {0, 1}
      /\ Correct(r, g) = 1 => rm >= 0
      /\ Correct(r, g) = 0 => rm <= 0
      /\ Correct(r, g) = 1 /\ rm = 0 => r.tie
  BY MarginFollowsTheAnswer
<1>5. bs \in Int /\ (bm >= 0 => bs >= 0) /\ (bm <= 0 => bs <= 0) /\ (bs = 0 => bm = 0)
  BY <1>2, <1>3, ProductSign
<1>6. rs \in Int /\ (rm >= 0 => rs >= 0) /\ (rm <= 0 => rs <= 0) /\ (rs = 0 => rm = 0)
  BY <1>2, <1>4, ProductSign
<1> HIDE DEF row, bm, rm, bs, rs
<1>7. row.hard = 1 => Correct(b, g) = 1 /\ Correct(r, g) = 0
  BY <1>1, <1>3, <1>4
<1>8. row.hard = -1 => Correct(b, g) = 0 /\ Correct(r, g) = 1
  BY <1>1, <1>3, <1>4
<1>9. row.hard # 0 => row.hard = 1 \/ row.hard = -1
  BY <1>1, <1>3, <1>4
<1>10. row.hard = 1 => bs >= 0 /\ rs <= 0
  BY <1>3, <1>4, <1>5, <1>6, <1>7
<1>11. row.hard = -1 => bs <= 0 /\ rs >= 0
  BY <1>3, <1>4, <1>5, <1>6, <1>8
<1>12. row.hard = 1 /\ row.soft = 0 => b.tie
  <2>1. row.hard = 1 /\ row.soft = 0 => bs = 0
    BY <1>1, <1>5, <1>6, <1>10
  <2>2. QED
    BY <2>1, <1>3, <1>5, <1>7
<1>13. row.hard = -1 /\ row.soft = 0 => r.tie
  <2>1. row.hard = -1 /\ row.soft = 0 => rs = 0
    BY <1>1, <1>5, <1>6, <1>11
  <2>2. QED
    BY <2>1, <1>4, <1>6, <1>8
<1>14. row.hard = 1 => row.soft >= 0
  BY <1>1, <1>5, <1>6, <1>10
<1>15. row.hard = -1 => row.soft <= 0
  BY <1>1, <1>5, <1>6, <1>11
<1>16. row.hard # 0 /\ row.soft = 0 => row.tie
  BY <1>1, <1>9, <1>12, <1>13
<1>17. QED
  BY <1>14, <1>15, <1>16 DEF row

------------------------------------------------------------------------------
(* The total of an option.  A sum over a set is defined by recursion over   *)
(* its subsets; that it counts the points the roles give, the pairs of a    *)
(* role and a number up to its score, follows without induction over data:  *)
(* the counts satisfy the recursion, and two functions that satisfy it      *)
(* differ on no smallest subset.                                            *)

Points(outputs, o, S) == {p \in S \X (1..Total) : p[2] <= outputs[p[1]].scores[o]}

Sums(h, outputs, o, S) ==
  h = [s \in SUBSET S |->
         IF s = {} THEN 0
         ELSE outputs[CHOOSE x \in s : TRUE].scores[o] + h[s \ {CHOOSE x \in s : TRUE}]]

\* The scores that a total adds up.
Scores(outputs, o, S) == IsFiniteSet(S) /\ \A r \in S : outputs[r].scores[o] \in 0..Total

LEMMA PointsAreCounted ==
  ASSUME Total \in Nat, NEW outputs, NEW o, NEW S, Scores(outputs, o, S)
  PROVE  /\ IsFiniteSet(Points(outputs, o, S))
         /\ Cardinality(Points(outputs, o, S)) \in 0..(Cardinality(S) * Total)
<1>1. IsFiniteSet(1..Total) /\ Cardinality(1..Total) = Total
  BY FS_Interval
<1>2. IsFiniteSet(S)
  BY DEF Scores
<1>3. IsFiniteSet(S \X (1..Total)) /\ Cardinality(S \X (1..Total)) = Cardinality(S) * Total
  BY <1>1, <1>2, FS_Product
<1>4. Points(outputs, o, S) \in SUBSET (S \X (1..Total))
  BY DEF Points
<1>5. /\ IsFiniteSet(Points(outputs, o, S))
      /\ Cardinality(Points(outputs, o, S)) <= Cardinality(S) * Total
  BY <1>3, <1>4, FS_Subset
<1>6. Cardinality(Points(outputs, o, S)) \in Nat
  BY <1>5, FS_CardinalityType
<1>7. Cardinality(S) \in Nat
  BY <1>2, FS_CardinalityType
<1>8. Cardinality(S) * Total \in Nat
  BY <1>7
<1>9. QED
  BY <1>5, <1>6, <1>8

\* With a role go as many points as its score.
LEMMA PointsOfARole ==
  ASSUME Total \in Nat, NEW outputs, NEW o, NEW S, Scores(outputs, o, S), NEW x \in S
  PROVE  Cardinality(Points(outputs, o, S)) =
           outputs[x].scores[o] + Cardinality(Points(outputs, o, S \ {x}))
<1> DEFINE c == outputs[x].scores[o]
           own == {x} \X (1..c)
           rest == Points(outputs, o, S \ {x})
<1>1. c \in 0..Total
  BY DEF Scores
<1>2. Points(outputs, o, S) = own \cup rest
  BY <1>1 DEF Points
<1>3. own \cap rest = {}
  BY DEF Points
<1>4. Scores(outputs, o, S \ {x})
  BY FS_Subset DEF Scores
<1>5. IsFiniteSet(rest) /\ Cardinality(rest) \in Nat
  BY <1>4, PointsAreCounted, FS_CardinalityType
<1>6. IsFiniteSet(1..c) /\ Cardinality(1..c) = c
  <2>1. c \in Nat
    BY <1>1
  <2> HIDE DEF c
  <2>2. QED
    BY <2>1, FS_Interval
<1>7. IsFiniteSet({x}) /\ Cardinality({x}) = 1
  BY FS_Singleton
<1>8. IsFiniteSet(own) /\ Cardinality(own) = c
  <2>1. IsFiniteSet(own) /\ Cardinality(own) = Cardinality({x}) * Cardinality(1..c)
    BY <1>6, <1>7, FS_Product
  <2>2. QED
    BY <2>1, <1>1, <1>6, <1>7
<1>9. Cardinality(own \cup rest) = Cardinality(own) + Cardinality(rest) - Cardinality(own \cap rest)
  BY <1>5, <1>8, FS_Union
<1>10. Cardinality(own \cap rest) = 0
  BY <1>3, FS_EmptySet
<1> HIDE DEF own, rest, c
<1>11. QED
  BY <1>1, <1>2, <1>5, <1>8, <1>9, <1>10 DEF c, rest

\* The counts of the points satisfy the recursion of a sum.
LEMMA PointsAreSums ==
  ASSUME Total \in Nat, NEW outputs, NEW o, NEW S, Scores(outputs, o, S)
  PROVE  Sums([s \in SUBSET S |-> Cardinality(Points(outputs, o, s))], outputs, o, S)
<1> DEFINE h == [s \in SUBSET S |-> Cardinality(Points(outputs, o, s))]
<1>1. ASSUME NEW s \in SUBSET S
      PROVE  h[s] = IF s = {} THEN 0
                    ELSE outputs[CHOOSE x \in s : TRUE].scores[o] + h[s \ {CHOOSE x \in s : TRUE}]
  <2>1. CASE s = {}
    <3>1. Points(outputs, o, s) = {}
      BY <2>1 DEF Points
    <3>2. QED
      BY <2>1, <3>1, FS_EmptySet
  <2>2. CASE s # {}
    <3>1. PICK x : x = CHOOSE y \in s : TRUE
      OBVIOUS
    <3>2. x \in s
      BY <2>2, <3>1
    <3>3. Scores(outputs, o, s)
      BY FS_Subset DEF Scores
    <3>4. Cardinality(Points(outputs, o, s)) =
            outputs[x].scores[o] + Cardinality(Points(outputs, o, s \ {x}))
      BY <3>2, <3>3, PointsOfARole
    <3>5. s \ {x} \in SUBSET S
      OBVIOUS
    <3>6. QED
      BY <2>2, <3>1, <3>4, <3>5
  <2>3. QED
    BY <2>1, <2>2
<1>2. QED
  BY <1>1 DEF Sums

\* Two functions that satisfy it are one: of the subsets on which they differ
\* there would be a smallest.
LEMMA SumsAreOne ==
  ASSUME NEW outputs, NEW o, NEW S, IsFiniteSet(S),
         NEW g, NEW h, Sums(g, outputs, o, S), Sums(h, outputs, o, S)
  PROVE  g = h
<1> DEFINE differ == {s \in SUBSET S : g[s] # h[s]}
           sizes == {Cardinality(s) : s \in differ}
<1>1. \A s \in SUBSET S : IsFiniteSet(s) /\ Cardinality(s) \in Nat
  BY FS_Subset, FS_CardinalityType
<1>2. differ = {}
  <2>1. SUFFICES ASSUME differ # {} PROVE FALSE
    OBVIOUS
  <2>2. sizes \subseteq Nat /\ sizes # {}
    BY <1>1, <2>1
  <2>3. PICK s \in differ : \A q \in differ : Cardinality(s) <= Cardinality(q)
    <3>1. Min(sizes) \in sizes /\ \A y \in sizes : Min(sizes) <= y
      BY <2>2, MinIsLeast
    <3>2. PICK s \in differ : Min(sizes) = Cardinality(s)
      BY <3>1
    <3>3. \A q \in differ : Min(sizes) <= Cardinality(q)
      BY <3>1
    <3>4. QED
      BY <3>2, <3>3
  <2>4. s \in SUBSET S
    BY <2>3
  <2>5. CASE s = {}
    <3>1. g[s] = 0 /\ h[s] = 0
      BY <2>4, <2>5 DEF Sums
    <3>2. QED
      BY <2>3, <3>1
  <2>6. CASE s # {}
    <3>1. PICK x : x = CHOOSE y \in s : TRUE
      OBVIOUS
    <3>2. x \in s
      BY <2>6, <3>1
    <3>3. /\ g[s] = outputs[x].scores[o] + g[s \ {x}]
          /\ h[s] = outputs[x].scores[o] + h[s \ {x}]
      BY <2>4, <2>6, <3>1 DEF Sums
    <3>4. s \ {x} \in SUBSET S
      BY <2>4
    <3>5. Cardinality(s \ {x}) = Cardinality(s) - 1
      BY <1>1, <2>4, <3>2, FS_RemoveElement
    <3>6. s \ {x} \notin differ
      BY <1>1, <2>3, <2>4, <3>4, <3>5
    <3>7. g[s \ {x}] = h[s \ {x}]
      BY <3>4, <3>6
    <3>8. QED
      BY <2>3, <3>3, <3>7
  <2>7. QED
    BY <2>5, <2>6
<1>3. DOMAIN g = SUBSET S /\ DOMAIN h = SUBSET S
  BY DEF Sums
<1>4. \A s \in SUBSET S : g[s] = h[s]
  BY <1>2
<1>5. g = [s \in SUBSET S |-> g[s]] /\ h = [s \in SUBSET S |-> h[s]]
  BY DEF Sums
<1>6. QED
  BY <1>4, <1>5

\* A total is the number of the points the roles give.
LEMMA TotalCountsPoints ==
  ASSUME Total \in Nat, NEW outputs, NEW o \in Letters, NEW S, Scores(outputs, o, S)
  PROVE  TotalScore(outputs, S)[o] = Cardinality(Points(outputs, o, S))
<1> DEFINE sum == CHOOSE h : Sums(h, outputs, o, S)
           count == [s \in SUBSET S |-> Cardinality(Points(outputs, o, s))]
<1>1. TotalScore(outputs, S)[o] = sum[S]
  BY DEF TotalScore, MapThenSumSet, MapThenFoldSet, Sums
<1>2. Sums(count, outputs, o, S)
  BY PointsAreSums
<1>3. Sums(sum, outputs, o, S)
  BY <1>2
<1>4. IsFiniteSet(S)
  BY DEF Scores
<1>5. sum = count
  BY <1>2, <1>3, <1>4, SumsAreOne
<1>6. S \in SUBSET S
  OBVIOUS
<1>7. QED
  BY <1>1, <1>5, <1>6

\* Roles that give an option the same score c give it |S| times c in total.
LEMMA TotalOfEqualScores ==
  ASSUME Total \in Nat, NEW outputs, NEW o \in Letters, NEW S, IsFiniteSet(S),
         NEW c \in 0..Total, \A r \in S : outputs[r].scores[o] = c
  PROVE  TotalScore(outputs, S)[o] = Cardinality(S) * c
<1>1. Scores(outputs, o, S)
  BY DEF Scores
<1>2. Points(outputs, o, S) = S \X (1..c)
  BY DEF Points
<1>3. IsFiniteSet(1..c) /\ Cardinality(1..c) = c
  BY FS_Interval
<1>4. Cardinality(S \X (1..c)) = Cardinality(S) * c
  BY <1>3, FS_Product
<1>5. TotalScore(outputs, S)[o] = Cardinality(Points(outputs, o, S))
  BY <1>1, TotalCountsPoints
<1>6. QED
  BY <1>2, <1>4, <1>5

\* The selected option is one of those with the highest total.
LEMMA SelectedIsTied ==
  ASSUME L \in Nat \ {0, 1}, NEW n \in Nat, NEW total \in [Letters -> 0..n],
         NEW f \in TieOrder
  PROVE  Selected(total, f) \in TiedOptions(total)
<1> DEFINE totals == {total[o] : o \in Letters}
           ranks == {f[o] : o \in TiedOptions(total)}
<1>1. 1 \in Letters
  BY DEF Letters
<1>2. totals \subseteq 0..n /\ totals # {}
  BY <1>1
<1>3. Max(totals) \in totals /\ \A y \in totals : y <= Max(totals)
  BY <1>2, MaxIsGreatest
<1>4. PICK o \in Letters : total[o] = Max(totals)
  BY <1>3
<1>5. \A p \in Letters : total[p] <= total[o]
  BY <1>3, <1>4
<1>6. o \in TiedOptions(total)
  BY <1>5 DEF TiedOptions
<1>7. \A p \in TiedOptions(total) : f[p] \in Nat
  BY DEF TieOrder, TiedOptions, Letters
<1>8. ranks \subseteq Nat /\ ranks # {}
  BY <1>6, <1>7
<1>9. Min(ranks) \in ranks /\ \A y \in ranks : Min(ranks) <= y
  BY <1>8, MinIsLeast
<1>10. PICK p \in TiedOptions(total) : f[p] = Min(ranks)
  BY <1>9
<1>11. \A q \in TiedOptions(total) : f[p] <= f[q]
  BY <1>9, <1>10
<1>12. QED
  BY <1>10, <1>11 DEF Selected

LEMMA SomeRolesAreFinite ==
  ASSUME NEW S, S \subseteq Roles
  PROVE  IsFiniteSet(S)
<1>1. 1 \in Int /\ R \in Int
  BY SmokeAssumption
<1>2. IsFiniteSet(1..R)
  BY <1>1, FS_Interval
<1>3. QED
  BY <1>2, FS_Subset DEF Roles

\* The aggregation of outputs that are all scorable is what the values are
\* computed from.
LEMMA AggregationIsSound ==
  ASSUME NEW S, S \subseteq Roles, S # {},
         NEW outputs \in [Roles -> Output], Scorable(outputs, S), NEW f \in TieOrder
  PROVE  LET a == Aggregation(outputs, S, f) IN
         /\ Aggregated(a)
         /\ a.total = TotalScore(outputs, S)
         /\ a.roles = Cardinality(S)
<1> DEFINE total == TotalScore(outputs, S)
           a == Aggregation(outputs, S, f)
           n == Cardinality(S) * Total
<1>1. a = [total |-> total, roles |-> Cardinality(S), selected |-> Selected(total, f),
           tie |-> Cardinality(TiedOptions(total)) > 1]
  BY DEF Aggregation
<1>2. IsFiniteSet(S)
  BY SomeRolesAreFinite
<1>3. Cardinality(S) \in Nat \ {0}
  BY <1>2, FS_CardinalityType, FS_EmptySet
<1>4. n \in Nat
  BY <1>3, SmokeAssumption
<1>5. ASSUME NEW o \in Letters PROVE Scores(outputs, o, S)
  BY <1>2 DEF Scores, Scorable, Output, ScoreVector
<1>6. ASSUME NEW o \in Letters PROVE total[o] \in 0..n
  BY <1>5, SmokeAssumption, TotalCountsPoints, PointsAreCounted
<1>7. total \in [Letters -> 0..n]
  BY <1>6 DEF TotalScore
<1>8. Selected(total, f) \in TiedOptions(total)
  BY <1>4, <1>7, SmokeAssumption, SelectedIsTied
<1> HIDE DEF n, total
<1>9. Aggregated(a)
  <2>1. /\ a.total = total /\ a.roles = Cardinality(S) /\ a.selected = Selected(total, f)
        /\ a.tie = (Cardinality(TiedOptions(total)) > 1)
    BY <1>1
  <2>2. \E bound \in Nat : total \in [Letters -> 0..bound]
    BY <1>4, <1>7
  <2> HIDE DEF a
  <2>3. QED
    BY <1>3, <1>8, <2>1, <2>2 DEF Aggregated
<1>10. QED
  BY <1>1, <1>9 DEF total

\* A number of roles and the number left without one cancel.
LEMMA EqualMargins ==
  ASSUME NEW n \in Nat \ {0}, NEW x \in Nat, NEW y \in Nat
  PROVE  /\ n * x <= n * y => x <= y
         /\ n * x - n * y = n * (x - y)
OBVIOUS

LEMMA Cancels ==
  ASSUME NEW m \in Nat, NEW n \in Nat, NEW z \in Int
  PROVE  (m * z) * n - (n * z) * m = 0
OBVIOUS

\* The margin of totals that are a multiple of the scores c is that multiple of
\* the margin of c.
LEMMA MarginOfMultiple ==
  ASSUME L \in Nat \ {0, 1}, NEW c \in [Letters -> 0..Total], Total \in Nat,
         NEW a, Aggregated(a), \A o \in Letters : a.total[o] = a.roles * c[o],
         NEW g \in Letters,
         NEW p \in Letters \ {g}, \A o \in Letters \ {g} : c[o] <= c[p]
  PROVE  GoldMargin(a.total, g) = a.roles * (c[g] - c[p])
<1> DEFINE best == Max(Others(a, g))
<1>1. a.roles \in Nat \ {0}
  BY DEF Aggregated
<1>2. GoldMargin(a.total, g) = a.total[g] - best
  BY DEF GoldMargin, Others
<1>3. PICK o \in Letters \ {g} : a.total[o] = best
  BY BestWrong
<1>4. a.total[p] <= best
  BY BestWrong
<1>5. c[o] \in Nat /\ c[p] \in Nat /\ c[g] \in Nat
  OBVIOUS
<1>6. c[p] <= c[o]
  BY <1>1, <1>3, <1>4, <1>5, EqualMargins
<1>7. c[o] = c[p]
  BY <1>5, <1>6
<1>8. a.total[g] - best = a.roles * c[g] - a.roles * c[p]
  BY <1>3, <1>7
<1>9. QED
  BY <1>1, <1>2, <1>5, <1>8, EqualMargins

\* A role of a team whose scores agree has no soft value.
LEMMA EqualScoresHaveNoValue ==
  ASSUME NEW outputs \in [Roles -> Output], Scorable(outputs, Roles),
         \A q, r \in Roles : outputs[q].scores = outputs[r].scores,
         NEW f \in TieOrder, NEW r \in Roles, NEW g \in Letters
  PROVE  SoftKeepValue(Aggregation(outputs, Roles, f),
                       Aggregation(outputs, Roles \ {r}, f), g) = 0
<1> DEFINE c == outputs[r].scores
           b == Aggregation(outputs, Roles, f)
           w == Aggregation(outputs, Roles \ {r}, f)
           wrong == {c[o] : o \in Letters \ {g}}
<1>1. c \in [Letters -> 0..Total]
  BY DEF Scorable, Output, ScoreVector
<1>2. PICK p \in Letters \ {g} : \A o \in Letters \ {g} : c[o] <= c[p]
  <2>1. \E o \in Letters : o # g
    <3>1. 1 \in Letters /\ 2 \in Letters
      BY SmokeAssumption DEF Letters
    <3>2. QED
      BY <3>1
  <2>2. wrong \subseteq 0..Total /\ wrong # {}
    BY <1>1, <2>1
  <2>3. Max(wrong) \in wrong /\ \A y \in wrong : y <= Max(wrong)
    BY <2>2, SmokeAssumption, MaxIsGreatest
  <2>4. PICK p \in Letters \ {g} : Max(wrong) = c[p]
    BY <2>3
  <2>5. \A o \in Letters \ {g} : c[o] <= Max(wrong)
    BY <2>3
  <2>6. QED
    BY <2>4, <2>5
<1>3. ASSUME NEW S, S \subseteq Roles, S # {}
      PROVE  LET a == Aggregation(outputs, S, f) IN
             /\ a.roles = Cardinality(S) /\ a.roles \in Nat
             /\ GoldMargin(a.total, g) = a.roles * (c[g] - c[p])
  <2> DEFINE a == Aggregation(outputs, S, f)
  <2>1. Scorable(outputs, S)
    BY <1>3 DEF Scorable
  <2>2. /\ Aggregated(a)
        /\ a.total = TotalScore(outputs, S)
        /\ a.roles = Cardinality(S)
    BY <1>3, <2>1, AggregationIsSound
  <2>3. IsFiniteSet(S)
    BY <1>3, SomeRolesAreFinite
  <2>4. ASSUME NEW o \in Letters PROVE a.total[o] = a.roles * c[o]
    <3>1. c[o] \in 0..Total
      BY <1>1
    <3>2. \A q \in S : outputs[q].scores[o] = c[o]
      BY <1>3
    <3>3. TotalScore(outputs, S)[o] = Cardinality(S) * c[o]
      BY <2>3, <3>1, <3>2, SmokeAssumption, TotalOfEqualScores
    <3>4. QED
      BY <2>2, <3>3
  <2>5. a.roles \in Nat
    BY <2>2 DEF Aggregated
  <2> HIDE DEF a, c
  <2>6. GoldMargin(a.total, g) = a.roles * (c[g] - c[p])
    BY <1>1, <1>2, <2>2, <2>4, SmokeAssumption, MarginOfMultiple
  <2>7. QED
    BY <2>2, <2>5, <2>6 DEF a
<1>4. Roles # {} /\ Roles \ {r} # {}
  <2>1. 1 \in Roles /\ 2 \in Roles
    BY SmokeAssumption DEF Roles
  <2>2. QED
    BY <2>1
<1>5. /\ b.roles \in Nat /\ GoldMargin(b.total, g) = b.roles * (c[g] - c[p])
      /\ w.roles \in Nat /\ GoldMargin(w.total, g) = w.roles * (c[g] - c[p])
  BY <1>3, <1>4
<1>6. c[g] - c[p] \in Int
  BY <1>1, SmokeAssumption
<1> HIDE DEF b, w, c
<1>7. SoftKeepValue(b, w, g) = 0
  BY <1>5, <1>6, Cancels DEF SoftKeepValue
<1>8. QED
  BY <1>7 DEF b, w

------------------------------------------------------------------------------
(* The run and what it leaves.                                              *)

Places ==
  {"idle", "generate", "seal_abort", "remove", "gold", "evaluate", "seal_evaluation", "seal_root"}
PastExecution == pc \in {"remove", "gold", "evaluate", "seal_evaluation", "seal_root"}

RecordsType == UNION {[S -> [Roles -> Output]] : S \in SUBSET Tasks}

\* The execution records: an output of every role for some of the tasks.
RecordsKeepType ==
  /\ records \in RecordsType \cup {None}
  /\ task \in Nat \ {0}
  /\ \A r \in DOMAIN done : done[r] \in Output

\* What has not been written yet at each place of the script; it never starts
\* twice.
Phases ==
  /\ pc \in Places
  /\ pc # "idle" => records # None /\ rootSeal = None
  /\ records = None => rootSeal = None
  /\ records = None \/ pc = "generate" =>
       ~abort /\ execSeal = None /\ removalSeal = None /\ kept = Nothing
  /\ records = None \/ pc \in {"generate", "seal_abort", "remove", "gold"} => gold = None

\* An aborted run has left nothing but its outputs; one past its execution is
\* not aborted.
Aborted ==
  /\ pc = "seal_abort" => abort /\ execSeal = None /\ removalSeal = None
  /\ rootSeal # None /\ ~rootSeal.complete =>
       abort /\ gold = None /\ execSeal = None /\ removalSeal = None
  /\ PastExecution => execSeal # None /\ ~abort
  /\ pc \in {"evaluate", "seal_evaluation", "seal_root"} => removalSeal = removals
  /\ pc = "gold" => removalSeal = removals
  /\ gold # None => removalSeal = removals /\ execSeal # None /\ ~abort

\* The rows an evaluation of the removals of the process has.
RowsOfKept ==
  [x \in DOMAIN kept |-> Evaluation(kept[x].baseline, kept[x].removal, gold[x[1]])]

\* The process remembers what it wrote, and while no record was replaced the
\* removals are of the sealed outputs.
RemovalsFit ==
  /\ PastExecution => removals = kept
  /\ records = execSeal =>
       \A x \in DOMAIN kept : kept[x] = Removal(execSeal[x[1]], x[1], x[2])
  /\ pc \in {"seal_evaluation", "seal_root"} => evaluation.rows = RowsOfKept
  /\ rootSeal # None /\ rootSeal.complete => removals = kept /\ evaluation.rows = RowsOfKept

\* Nothing a verification has seen is written again.
Reported == report # None => pc = "idle" /\ records # None

SmokeInv == RecordsKeepType /\ Phases /\ Aborted
FitInv == RemovalsFit /\ Reported /\ VerifiedRunIsOfItsSeals

------------------------------------------------------------------------------
\* Records that were written are never the absence of records.
LEMMA RecordsAreThere ==
  /\ None \notin RecordsType
  /\ Nothing \in RecordsType
<1>1. None \notin RecordsType
  BY SmokeAssumption DEF RecordsType
<1>2. Nothing \in [{} -> [Roles -> Output]]
  BY DEF Nothing
<1>3. QED
  BY <1>1, <1>2 DEF RecordsType

\* A record is added to records, or replaced in them.
LEMMA RecordWritten ==
  ASSUME NEW f \in RecordsType, NEW t \in Tasks, NEW outputs \in [Roles -> Output]
  PROVE  With(f, t, outputs) \in RecordsType
<1>1. PICK S \in SUBSET Tasks : f \in [S -> [Roles -> Output]]
  BY DEF RecordsType
<1>2. With(f, t, outputs) \in [S \cup {t} -> [Roles -> Output]]
  BY <1>1 DEF With
<1>3. S \cup {t} \in SUBSET Tasks
  OBVIOUS
<1>4. QED
  BY <1>2, <1>3 DEF RecordsType

LEMMA RecordReplaced ==
  ASSUME NEW f \in RecordsType, NEW t \in Tasks, NEW r \in Roles, NEW output \in Output
  PROVE  [f EXCEPT ![t][r] = output] \in RecordsType
<1>1. PICK S \in SUBSET Tasks : f \in [S -> [Roles -> Output]]
  BY DEF RecordsType
<1>2. [f EXCEPT ![t][r] = output] \in [S -> [Roles -> Output]]
  BY <1>1
<1>3. QED
  BY <1>2 DEF RecordsType

\* A generation keeps the types of what it writes.
LEMMA GenerationKeepsType ==
  ASSUME RecordsKeepType, Phases, Generate
  PROVE  RecordsKeepType' /\ records' # None
<1>1. records \in RecordsType /\ task \in Tasks
  BY RecordsAreThere, SmokeAssumption DEF RecordsKeepType, Phases, Generate, Tasks
<1>2. PICK output \in Outputs[task] :
        LET outputs == With(done, Cardinality(DOMAIN done) + 1, output) IN
        IF DOMAIN outputs = Roles
          THEN /\ records' = With(records, task, outputs)
               /\ task' = task + 1 /\ done' = Nothing
          ELSE done' = outputs /\ UNCHANGED <<records, task>>
  BY DEF Generate
<1> DEFINE outputs == With(done, Cardinality(DOMAIN done) + 1, output)
<1>3. output \in Output
  BY <1>1, SmokeAssumption
<1>4. \A r \in DOMAIN outputs : outputs[r] \in Output
  BY <1>3 DEF With, RecordsKeepType
<1>5. CASE DOMAIN outputs = Roles
  <2>1. outputs \in [Roles -> Output]
    BY <1>4, <1>5 DEF With
  <2>2. records' \in RecordsType
    BY <1>1, <1>2, <1>5, <2>1, RecordWritten
  <2>3. task' \in Nat \ {0} /\ done' = Nothing
    BY <1>2, <1>5 DEF RecordsKeepType
  <2>4. QED
    BY <2>2, <2>3, RecordsAreThere DEF RecordsKeepType, Nothing
<1>6. CASE DOMAIN outputs # Roles
  <2>1. done' = outputs /\ UNCHANGED <<records, task>>
    BY <1>2, <1>6
  <2>2. QED
    BY <1>1, <1>4, <2>1, RecordsAreThere DEF RecordsKeepType
<1>7. QED
  BY <1>5, <1>6

\* Damage replaces a record by a record.
LEMMA DamageKeepsType ==
  ASSUME RecordsKeepType, Damage
  PROVE  RecordsKeepType' /\ records # None /\ records' # None
<1>1. PICK t \in Tasks, r \in Roles : \E output \in Outputs[t] :
        records' = [records EXCEPT ![t][r] = output]
  BY DEF Damage
<1>2. PICK output \in Outputs[t] : records' = [records EXCEPT ![t][r] = output]
  BY <1>1
<1>3. output \in Output
  BY SmokeAssumption
<1>4. records \in RecordsType
  BY DEF RecordsKeepType, Damage
<1>5. records' \in RecordsType
  BY <1>2, <1>3, <1>4, RecordReplaced
<1>6. QED
  BY <1>4, <1>5, RecordsAreThere DEF RecordsKeepType, Damage, memory

------------------------------------------------------------------------------
LEMMA SmokeInit ==
  ASSUME Init
  PROVE  SmokeInv /\ FitInv
<1>1. SmokeInv
  BY DEF Init, SmokeInv, RecordsKeepType, Phases, Places, Aborted, PastExecution, Nothing
<1>2. FitInv
  BY DEF Init, FitInv, RemovalsFit, PastExecution, Reported, VerifiedRunIsOfItsSeals, Nothing
<1>3. QED
  BY <1>1, <1>2

\* No step breaks what is known of the phases of the script.
LEMMA SmokeStep ==
  ASSUME SmokeInv, [Next]_vars
  PROVE  SmokeInv'
<1> USE DEF SmokeInv, Phases, Places, Aborted, PastExecution, disk, memory
<1>1. CASE Start
  BY <1>1, RecordsAreThere DEF Start, RecordsKeepType
<1>2. CASE Generate
  <2>1. RecordsKeepType' /\ records' # None
    BY <1>2, GenerationKeepsType
  <2>2. UNCHANGED <<execSeal, removals, removalSeal, abort, rootSeal, pc, kept, gold>>
    BY <1>2 DEF Generate
  <2>3. pc = "generate"
    BY <1>2 DEF Generate
  <2>4. QED
    BY <2>1, <2>2, <2>3
<1>3. CASE AbortRun
  BY <1>3 DEF AbortRun, RecordsKeepType
<1>4. CASE SealAbort
  BY <1>4 DEF SealAbort, RecordsKeepType
<1>5. CASE SealExecution
  BY <1>5 DEF SealExecution, RecordsKeepType
<1>6. CASE RemoveRoles
  <2>1. /\ pc = "remove" /\ task' = task + 1
        /\ UNCHANGED <<records, execSeal, removalSeal, abort, rootSeal, pc, done, gold>>
    BY <1>6 DEF RemoveRoles
  <2>2. QED
    BY <2>1 DEF RecordsKeepType
<1>7. CASE SealRemovals
  BY <1>7 DEF SealRemovals, RecordsKeepType
<1>8. CASE OpenGold
  BY <1>8 DEF OpenGold, RecordsKeepType
<1>9. CASE Evaluate
  BY <1>9 DEF Evaluate, RecordsKeepType
<1>10. CASE SealEvaluation
  BY <1>10 DEF SealEvaluation, RecordsKeepType
<1>11. CASE SealRoot
  BY <1>11 DEF SealRoot, RecordsKeepType
<1>12. CASE Stop
  BY <1>12 DEF Stop, RecordsKeepType
<1>13. CASE Damage
  <2>1. RecordsKeepType' /\ records # None /\ records' # None
    BY <1>13, DamageKeepsType
  <2>2. /\ execSeal # None
        /\ UNCHANGED <<execSeal, removals, removalSeal, abort, rootSeal, pc, kept, gold>>
    BY <1>13 DEF Damage
  <2>3. QED
    BY <2>1, <2>2
<1>14. CASE Verify
  BY <1>14 DEF Verify, RecordsKeepType
<1>15. CASE UNCHANGED vars
  BY <1>15 DEF vars, RecordsKeepType
<1>16. QED
  BY <1>1, <1>2, <1>3, <1>4, <1>5, <1>6, <1>7, <1>8, <1>9, <1>10, <1>11, <1>12, <1>13,
     <1>14, <1>15 DEF Next, Script

(***************************************************************************)
(* AbortedRunSeesNoGold: the script opens the gold data behind the last    *)
(* seal of the removals and nowhere else, and a run that is sealed as      *)
(* aborted had sealed nothing before.                                      *)
(***************************************************************************)
THEOREM AbortedRunIsBlind == Spec => []AbortedRunSeesNoGold
<1>1. Init => SmokeInv
  BY SmokeInit
<1>2. SmokeInv /\ [Next]_vars => SmokeInv'
  BY SmokeStep
<1>3. SmokeInv => AbortedRunSeesNoGold
  BY DEF SmokeInv, Aborted, AbortedRunSeesNoGold
<1>4. QED
  BY <1>1, <1>2, <1>3, PTL DEF Spec

------------------------------------------------------------------------------
\* The removals of a task are those of its record, and go to the disk and to
\* the memory alike.
LEMMA RemovalsOfATask ==
  ASSUME SmokeInv, FitInv, RemoveRoles
  PROVE  /\ removals' = kept'
         /\ records = execSeal =>
              \A x \in DOMAIN kept' : kept'[x] = Removal(execSeal[x[1]], x[1], x[2])
<1> DEFINE whole == Baseline(records[task], task)
           more == [x \in DOMAIN removals \cup ({task} \X Roles) |->
                      IF x[1] = task THEN Removal(records[task], task, x[2]) ELSE removals[x]]
<1>1. removals = kept
  BY DEF RemoveRoles, FitInv, RemovalsFit, PastExecution
<1>2. IF whole = None THEN UNCHANGED <<removals, kept>> ELSE removals' = more /\ kept' = removals'
  BY DEF RemoveRoles
<1>3. CASE whole = None
  BY <1>1, <1>2, <1>3 DEF FitInv, RemovalsFit
<1>4. CASE whole # None
  <2>1. kept' = more /\ removals' = more
    BY <1>2, <1>4
  <2>2. ASSUME records = execSeal, NEW x \in DOMAIN more
        PROVE  more[x] = Removal(execSeal[x[1]], x[1], x[2])
    <3>1. CASE x[1] = task
      BY <2>2, <3>1
    <3>2. CASE x[1] # task
      <4>1. x \in DOMAIN kept /\ more[x] = kept[x]
        BY <1>1, <3>2
      <4>2. QED
        BY <2>2, <4>1 DEF FitInv, RemovalsFit
    <3>3. QED
      BY <3>1, <3>2
  <2>3. QED
    BY <2>1, <2>2
<1>5. QED
  BY <1>3, <1>4

\* A verification that passes has found the sealed records and what is of
\* them.
LEMMA VerifiedNow ==
  ASSUME SmokeInv, FitInv, Verify
  PROVE  FitInv'
<1>1. /\ rootSeal # None /\ rootSeal.complete /\ pc = "idle"
      /\ records = execSeal /\ DOMAIN removals = Pairs
      /\ report' = Present /\ UNCHANGED <<order, disk, pc, memory>>
  BY DEF Verify, SealsFit
<1>2. removals = kept /\ evaluation.rows = RowsOfKept
  BY <1>1 DEF FitInv, RemovalsFit
<1>3. RemovalsFit' /\ Reported'
  <2>1. records # None
    BY <1>1 DEF SmokeInv, Phases
  <2>2. QED
    BY <1>1, <2>1 DEF FitInv, RemovalsFit, PastExecution, Reported, RowsOfKept, disk, memory,
                      Removal, Baseline
<1>4. report' = [records |-> records, removals |-> kept, evaluation |-> evaluation]
  BY <1>1, <1>2 DEF Present
<1>5. ASSUME NEW x \in Pairs
      PROVE  /\ kept[x] = Removal(execSeal[x[1]], x[1], x[2])
             /\ evaluation.rows[x] = Evaluation(kept[x].baseline, kept[x].removal, gold[x[1]])
  <2>1. x \in DOMAIN kept
    BY <1>1, <1>2
  <2>2. QED
    BY <1>1, <1>2, <2>1 DEF FitInv, RemovalsFit, RowsOfKept
<1>6. ASSUME NEW x \in Pairs
      PROVE  /\ kept[x].baseline = Baseline(execSeal[x[1]], x[1])
             /\ kept[x].removal = Aggregation(execSeal[x[1]], Roles \ {x[2]}, order[x[1]])
  <2>1. kept[x] = [baseline |-> Baseline(execSeal[x[1]], x[1]),
                   removal |-> Aggregation(execSeal[x[1]], Roles \ {x[2]}, order[x[1]])]
    BY <1>5 DEF Removal, Retained
  <2>2. QED
    BY <2>1
<1>7. VerifiedRunIsOfItsSeals'
  <2>1. execSeal' = execSeal /\ order' = order /\ gold' = gold
    BY <1>1 DEF disk, memory
  <2>2. report'.records = execSeal /\ report'.removals = kept /\ report'.evaluation = evaluation
    BY <1>1, <1>4
  <2>3. ASSUME NEW x \in Pairs
        PROVE  /\ report'.removals[x].baseline = Baseline(execSeal[x[1]], x[1])'
               /\ report'.removals[x].removal =
                    Aggregation(execSeal[x[1]], Roles \ {x[2]}, order[x[1]])'
               /\ report'.evaluation.rows[x] =
                    Evaluation(kept[x].baseline, kept[x].removal, gold[x[1]])
    BY <1>5, <1>6, <2>1, <2>2 DEF Baseline
  <2>4. QED
    BY <2>1, <2>2, <2>3 DEF VerifiedRunIsOfItsSeals
<1>8. QED
  BY <1>3, <1>7 DEF FitInv

\* A step that leaves what a report speaks of leaves the report right.
LEMMA ReportKept ==
  ASSUME VerifiedRunIsOfItsSeals, report' = report,
         report # None => UNCHANGED <<order, execSeal, gold>>
  PROVE  VerifiedRunIsOfItsSeals'
BY DEF VerifiedRunIsOfItsSeals, Baseline

\* No step puts the removals, the rows or the report at odds with the seals.
LEMMA FitStep ==
  ASSUME SmokeInv, FitInv, [Next]_vars
  PROVE  FitInv'
<1> USE DEF FitInv, RemovalsFit, PastExecution, Reported, disk, memory, Removal, Baseline,
            RowsOfKept
<1>1. CASE Start
  <2>1. kept = Nothing /\ kept' = kept /\ pc' = "generate"
        /\ report = None /\ report' = None /\ rootSeal' = None
    BY <1>1 DEF Start, SmokeInv, Phases
  <2>2. QED
    BY <2>1, ReportKept DEF Nothing
<1>2. CASE Generate
  <2>1. kept = Nothing /\ kept' = kept /\ pc' = "generate"
        /\ report = None /\ report' = None /\ rootSeal' = None
    BY <1>2 DEF Generate, SmokeInv, Phases
  <2>2. QED
    BY <2>1, ReportKept DEF Nothing
<1>3. CASE AbortRun
  BY <1>3, ReportKept DEF AbortRun
<1>4. CASE SealAbort
  BY <1>4, ReportKept DEF SealAbort
<1>5. CASE SealExecution
  <2>1. kept = Nothing /\ kept' = kept /\ pc' = "remove" /\ removals' = Nothing
        /\ report = None /\ report' = None /\ rootSeal' = None
    BY <1>5 DEF SealExecution, SmokeInv, Phases
  <2>2. QED
    BY <2>1, ReportKept DEF Nothing
<1>6. CASE RemoveRoles
  <2>1. /\ pc = "remove" /\ pc' = "remove" /\ report = None /\ report' = None
        /\ rootSeal' = None
        /\ UNCHANGED <<order, records, execSeal>>
    BY <1>6 DEF RemoveRoles, SmokeInv, Phases
  <2>2. QED
    BY <1>6, <2>1, RemovalsOfATask, ReportKept
<1>7. CASE SealRemovals
  BY <1>7, ReportKept DEF SealRemovals
<1>8. CASE OpenGold
  BY <1>8, ReportKept DEF OpenGold, SmokeInv, Phases
<1>9. CASE Evaluate
  BY <1>9, ReportKept DEF Evaluate, SmokeInv, Phases
<1>10. CASE SealEvaluation
  BY <1>10, ReportKept DEF SealEvaluation
<1>11. CASE SealRoot
  BY <1>11, ReportKept DEF SealRoot
<1>12. CASE Stop
  BY <1>12, ReportKept DEF Stop
<1>13. CASE Damage
  <2>1. records = execSeal /\ records' # None
        /\ UNCHANGED <<order, execSeal, removals, evaluation, rootSeal, pc, kept, gold, report>>
    BY <1>13, DamageKeepsType DEF Damage, SmokeInv
  <2>2. QED
    BY <2>1, ReportKept
<1>14. CASE Verify
  BY <1>14, VerifiedNow
<1>15. CASE UNCHANGED vars
  BY <1>15, ReportKept DEF vars
<1>16. QED
  BY <1>1, <1>2, <1>3, <1>4, <1>5, <1>6, <1>7, <1>8, <1>9, <1>10, <1>11, <1>12, <1>13,
     <1>14, <1>15 DEF Next, Script

(***************************************************************************)
(* VerifiedRunIsOfItsSeals: whatever is damaged while the script works,    *)
(* what verify accepts are the removals of the very outputs that the       *)
(* execution sealed, and the values of these removals.                     *)
(***************************************************************************)
THEOREM VerifiedIsOfItsSeals == Spec => []VerifiedRunIsOfItsSeals
<1>1. Init => SmokeInv /\ FitInv
  BY SmokeInit
<1>2. SmokeInv /\ FitInv /\ [Next]_vars => SmokeInv' /\ FitInv'
  BY SmokeStep, FitStep
<1>3. SmokeInv /\ FitInv => VerifiedRunIsOfItsSeals
  BY DEF FitInv
<1>4. QED
  BY <1>1, <1>2, <1>3, PTL DEF Spec

------------------------------------------------------------------------------
(* What keeps the values apart from contradiction in a run.                 *)

WholeOutputs == {outputs \in [Roles -> Output] : Scorable(outputs, Roles)}

\* The records of an execution that is over are of all tasks.
RecordsAreWhole ==
  /\ order \in Orders
  /\ records = None => task = 1
  /\ pc = "generate" => DOMAIN records = 1..(task - 1)
  /\ PastExecution => DOMAIN records = Tasks

\* Every removal is from a team whose outputs were all scorable, and as long
\* as no record is replaced from the one that is recorded.
KeptIsOfWholeTeams ==
  \A x \in DOMAIN kept :
    /\ x \in Pairs
    /\ \E outputs \in WholeOutputs : kept[x] = Removal(outputs, x[1], x[2])
    /\ records = execSeal => records[x[1]] \in WholeOutputs

\* Nothing is evaluated before the gold data is there, and the rows stay those
\* of the removals of the process.
EvaluatedLast ==
  /\ records = None \/ pc \in {"generate", "seal_abort", "remove", "gold", "evaluate"} =>
       evaluation = None
  /\ pc \in {"evaluate", "seal_evaluation", "seal_root"} => gold \in Golds
  /\ evaluation # None => gold \in Golds /\ evaluation.rows = RowsOfKept

ValueInv == RecordsAreWhole /\ KeptIsOfWholeTeams /\ EvaluatedLast

LEMMA ValueInit ==
  ASSUME Init
  PROVE  ValueInv
BY DEF Init, ValueInv, RecordsAreWhole, KeptIsOfWholeTeams, EvaluatedLast, PastExecution, Nothing

\* What is kept is looked at through the order and the records alone.
LEMMA KeptStays ==
  ASSUME KeptIsOfWholeTeams, UNCHANGED <<order, kept>>,
         UNCHANGED <<records, execSeal>> \/ kept = Nothing
  PROVE  KeptIsOfWholeTeams'
<1>1. CASE kept = Nothing
  BY <1>1 DEF KeptIsOfWholeTeams, Nothing
<1>2. CASE UNCHANGED <<records, execSeal>>
  BY <1>2 DEF KeptIsOfWholeTeams, Removal, Baseline
<1>3. QED
  BY <1>1, <1>2

\* The roles of a task are removed from the record of the task, which is whole
\* as its team was aggregated.
LEMMA WholeTeamsAreKept ==
  ASSUME SmokeInv, FitInv, ValueInv, RemoveRoles
  PROVE  KeptIsOfWholeTeams'
<1> DEFINE outputs == records[task]
           added == {task} \X Roles
           more == [x \in DOMAIN removals \cup added |->
                      IF x[1] = task THEN Removal(outputs, task, x[2]) ELSE removals[x]]
<1>1. /\ pc = "remove" /\ task <= N /\ removals = kept
      /\ UNCHANGED <<order, records, execSeal>>
      /\ IF Baseline(outputs, task) = None THEN UNCHANGED <<removals, kept>>
         ELSE removals' = more /\ kept' = removals'
  BY DEF RemoveRoles, FitInv, RemovalsFit, PastExecution
<1>2. CASE Baseline(outputs, task) = None
  BY <1>1, <1>2, KeptStays DEF ValueInv
<1>3. CASE Baseline(outputs, task) # None
  <2>1. kept' = more
    BY <1>1, <1>3
  <2>2. outputs \in WholeOutputs
    <3>1. task \in Tasks
      BY <1>1, SmokeAssumption DEF SmokeInv, RecordsKeepType, Tasks
    <3>2. records # None /\ DOMAIN records = Tasks
      BY <1>1 DEF SmokeInv, Phases, ValueInv, RecordsAreWhole, PastExecution
    <3>3. records \in RecordsType
      BY <3>2 DEF SmokeInv, RecordsKeepType
    <3>4. outputs \in [Roles -> Output]
      BY <3>1, <3>2, <3>3 DEF RecordsType
    <3>5. Scorable(outputs, Roles)
      BY <1>3 DEF Baseline, Aggregation
    <3>6. QED
      BY <3>4, <3>5 DEF WholeOutputs
  <2>3. task \in Tasks
    BY <1>1, SmokeAssumption DEF SmokeInv, RecordsKeepType, Tasks
  <2>4. ASSUME NEW x \in DOMAIN more
        PROVE  /\ x \in Pairs
               /\ \E f \in WholeOutputs : more[x] = Removal(f, x[1], x[2])
               /\ records = execSeal => records[x[1]] \in WholeOutputs
    <3>1. CASE x[1] = task
      <4>1. x \in Pairs
        BY <1>1, <2>3 DEF ValueInv, KeptIsOfWholeTeams, Pairs
      <4>2. more[x] = Removal(outputs, x[1], x[2])
        BY <3>1
      <4>3. QED
        BY <2>2, <3>1, <4>1, <4>2
    <3>2. CASE x[1] # task
      <4>1. x \in DOMAIN kept /\ more[x] = kept[x]
        BY <1>1, <3>2
      <4>2. QED
        BY <4>1 DEF ValueInv, KeptIsOfWholeTeams
    <3>3. QED
      BY <3>1, <3>2
  <2>5. ASSUME NEW x \in DOMAIN more
        PROVE  /\ x \in Pairs
               /\ \E f \in WholeOutputs : more[x] = Removal(f, x[1], x[2])'
               /\ (records = execSeal => records[x[1]] \in WholeOutputs)'
    BY <1>1, <2>4 DEF Removal, Baseline
  <2>6. QED
    BY <2>1, <2>5 DEF KeptIsOfWholeTeams
<1>4. QED
  BY <1>2, <1>3

\* A record written by a generation is the next one.
LEMMA GenerationIsNext ==
  ASSUME SmokeInv, ValueInv, Generate
  PROVE  DOMAIN records' = 1..(task' - 1)
<1>1. /\ records # None /\ DOMAIN records = 1..(task - 1) /\ task \in Nat \ {0}
  BY DEF Generate, SmokeInv, Phases, RecordsKeepType, ValueInv, RecordsAreWhole
<1>2. PICK output \in Outputs[task] :
        LET outputs == With(done, Cardinality(DOMAIN done) + 1, output) IN
        IF DOMAIN outputs = Roles
          THEN /\ records' = With(records, task, outputs)
               /\ task' = task + 1 /\ done' = Nothing
          ELSE done' = outputs /\ UNCHANGED <<records, task>>
  BY DEF Generate
<1> DEFINE outputs == With(done, Cardinality(DOMAIN done) + 1, output)
<1>3. CASE DOMAIN outputs = Roles
  <2>1. records' = With(records, task, outputs) /\ task' = task + 1
    BY <1>2, <1>3
  <2>2. DOMAIN records' = 1..(task - 1) \cup {task}
    BY <1>1, <2>1 DEF With
  <2>3. task \in Nat \ {0} /\ task' - 1 = task
    BY <1>1, <2>1
  <2>4. 1..(task - 1) \cup {task} = 1..task
    BY <2>3
  <2>5. QED
    BY <2>2, <2>3, <2>4
<1>4. CASE DOMAIN outputs # Roles
  BY <1>1, <1>2, <1>4
<1>5. QED
  BY <1>3, <1>4

\* No step breaks what keeps the values right.
LEMMA ValueStep ==
  ASSUME SmokeInv, FitInv, ValueInv, [Next]_vars
  PROVE  ValueInv'
<1> USE DEF ValueInv, RecordsAreWhole, EvaluatedLast, PastExecution, RowsOfKept, disk, memory
<1>1. CASE Start
  <2>1. kept = Nothing
    BY <1>1 DEF Start, SmokeInv, Phases
  <2>2. KeptIsOfWholeTeams'
    BY <1>1, <2>1, KeptStays DEF Start
  <2>3. DOMAIN Nothing = {} /\ 1..(1 - 1) = {}
    BY DEF Nothing
  <2>4. Nothing # None
    BY RecordsAreThere
  <2>5. QED
    BY <1>1, <2>2, <2>3, <2>4 DEF Start
<1>2. CASE Generate
  <2>1. kept = Nothing /\ pc = "generate" /\ evaluation = None
    BY <1>2 DEF Generate, SmokeInv, Phases
  <2>2. UNCHANGED <<order, execSeal, evaluation, pc, kept, gold>>
    BY <1>2 DEF Generate
  <2>3. KeptIsOfWholeTeams'
    BY <2>1, <2>2, KeptStays
  <2>4. records' # None
    BY <1>2, GenerationKeepsType DEF SmokeInv
  <2>5. DOMAIN records' = 1..(task' - 1)
    BY <1>2, GenerationIsNext
  <2>6. QED
    BY <2>1, <2>2, <2>3, <2>4, <2>5
<1>3. CASE AbortRun
  BY <1>3, KeptStays DEF AbortRun
<1>4. CASE SealAbort
  BY <1>4, KeptStays DEF SealAbort
<1>5. CASE SealExecution
  <2>1. kept = Nothing /\ records # None /\ evaluation = None
    BY <1>5 DEF SealExecution, SmokeInv, Phases
  <2>2. DOMAIN records = Tasks
    <3>1. PICK S \in SUBSET Tasks : records \in [S -> [Roles -> Output]]
      BY <2>1 DEF SmokeInv, RecordsKeepType, RecordsType
    <3>2. DOMAIN records = 1..(task - 1) /\ task > N /\ task \in Nat
      BY <1>5 DEF SealExecution, SmokeInv, RecordsKeepType
    <3>3. DOMAIN records \subseteq 1..N
      BY <3>1 DEF Tasks
    <3>4. QED
      BY <3>2, <3>3, SmokeAssumption DEF Tasks
  <2>3. KeptIsOfWholeTeams'
    BY <1>5, <2>1, KeptStays DEF SealExecution
  <2>4. QED
    BY <1>5, <2>1, <2>2, <2>3 DEF SealExecution
<1>6. CASE RemoveRoles
  <2>1. KeptIsOfWholeTeams'
    BY <1>6, WholeTeamsAreKept
  <2>2. /\ pc = "remove" /\ records # None
        /\ UNCHANGED <<order, records, evaluation, pc, gold>>
    BY <1>6 DEF RemoveRoles, SmokeInv, Phases
  <2>3. QED
    BY <2>1, <2>2
<1>7. CASE SealRemovals
  BY <1>7, KeptStays DEF SealRemovals
<1>8. CASE OpenGold
  BY <1>8, KeptStays DEF OpenGold, SmokeInv, Phases
<1>9. CASE Evaluate
  BY <1>9, KeptStays DEF Evaluate, SmokeInv, Phases
<1>10. CASE SealEvaluation
  BY <1>10, KeptStays DEF SealEvaluation, SmokeInv, Phases
<1>11. CASE SealRoot
  BY <1>11, KeptStays DEF SealRoot, SmokeInv, Phases
<1>12. CASE Stop
  BY <1>12, KeptStays DEF Stop, SmokeInv, Phases
<1>13. CASE Damage
  <2>1. /\ records = execSeal /\ records # None /\ records' # None
        /\ UNCHANGED <<order, execSeal, evaluation, pc, kept, gold, task>>
    BY <1>13, DamageKeepsType DEF Damage, SmokeInv
  <2>2. DOMAIN records' = DOMAIN records
    BY <1>13 DEF Damage
  <2>3. KeptIsOfWholeTeams'
    BY <2>1 DEF KeptIsOfWholeTeams, Removal, Baseline
  <2>4. QED
    BY <2>1, <2>2, <2>3
<1>14. CASE Verify
  BY <1>14, KeptStays DEF Verify
<1>15. CASE UNCHANGED vars
  BY <1>15, KeptStays DEF vars
<1>16. QED
  BY <1>1, <1>2, <1>3, <1>4, <1>5, <1>6, <1>7, <1>8, <1>9, <1>10, <1>11, <1>12, <1>13,
     <1>14, <1>15 DEF Next, Script

\* The values of a removal from a whole team agree.
LEMMA RemovalsAgree ==
  ASSUME NEW outputs \in WholeOutputs, NEW f \in TieOrder, NEW r \in Roles, NEW g \in Letters
  PROVE  LET row == Evaluation(Aggregation(outputs, Roles, f),
                               Aggregation(outputs, Roles \ {r}, f), g)
         IN  /\ row.hard = 1 => row.soft >= 0
             /\ row.hard = -1 => row.soft <= 0
             /\ row.hard # 0 /\ row.soft = 0 => row.tie
             /\ row.soft # 0 => \E p, q \in Roles : outputs[p].scores # outputs[q].scores
<1> DEFINE b == Aggregation(outputs, Roles, f)
           w == Aggregation(outputs, Roles \ {r}, f)
           row == Evaluation(b, w, g)
<1>1. outputs \in [Roles -> Output] /\ Scorable(outputs, Roles) /\ Scorable(outputs, Roles \ {r})
  BY DEF WholeOutputs, Scorable
<1>2. Roles # {} /\ Roles \ {r} # {}
  <2>1. 1 \in Roles /\ 2 \in Roles
    BY SmokeAssumption DEF Roles
  <2>2. QED
    BY <2>1
<1>3. Aggregated(b) /\ Aggregated(w)
  BY <1>1, <1>2, AggregationIsSound
<1>4. row.soft # 0 => \E p, q \in Roles : outputs[p].scores # outputs[q].scores
  <2>1. row.soft = SoftKeepValue(b, w, g)
    BY DEF Evaluation
  <2>2. QED
    BY <1>1, <2>1, EqualScoresHaveNoValue
<1> HIDE DEF b, w
<1>5. /\ row.hard = 1 => row.soft >= 0
      /\ row.hard = -1 => row.soft <= 0
      /\ row.hard # 0 /\ row.soft = 0 => row.tie
  BY <1>3, SmokeAssumption, ValuesAgree
<1>6. QED
  BY <1>4, <1>5 DEF b, w

(***************************************************************************)
(* KeepValuesAgree: whatever the script has written as the values of its   *)
(* removals, the hard and the soft value of a role do not contradict each  *)
(* other, an answer changes at no soft value only by a tie, and a role of  *)
(* a team whose scores agree is worth nothing.                             *)
(***************************************************************************)
THEOREM ValuesNeverContradict == Spec => []KeepValuesAgree
<1>1. Init => SmokeInv /\ FitInv /\ ValueInv
  BY SmokeInit, ValueInit
<1>2. SmokeInv /\ FitInv /\ ValueInv /\ [Next]_vars => SmokeInv' /\ FitInv' /\ ValueInv'
  BY SmokeStep, FitStep, ValueStep
<1>3. SmokeInv /\ FitInv /\ ValueInv => KeepValuesAgree
  <2> SUFFICES ASSUME SmokeInv, FitInv, ValueInv, evaluation # None,
                      NEW x \in DOMAIN evaluation.rows
               PROVE  LET row == evaluation.rows[x] IN
                      /\ row.hard = 1 => row.soft >= 0
                      /\ row.hard = -1 => row.soft <= 0
                      /\ row.hard # 0 /\ row.soft = 0 => row.tie
                      /\ row.soft # 0 /\ records = execSeal =>
                           \E q, r \in Roles :
                             records[x[1]][q].scores # records[x[1]][r].scores
    BY DEF KeepValuesAgree
  <2> DEFINE row == evaluation.rows[x]
  <2>1. gold \in Golds /\ evaluation.rows = RowsOfKept
    BY DEF ValueInv, EvaluatedLast
  <2>2. x \in DOMAIN kept /\ row = Evaluation(kept[x].baseline, kept[x].removal, gold[x[1]])
    BY <2>1 DEF RowsOfKept
  <2>3. x \in Pairs
    BY <2>2 DEF ValueInv, KeptIsOfWholeTeams
  <2>4. x[1] \in Tasks /\ x[2] \in Roles
    BY <2>3 DEF Pairs
  <2>5. gold[x[1]] \in Letters /\ order[x[1]] \in TieOrder
    BY <2>1, <2>4, SmokeAssumption DEF ValueInv, RecordsAreWhole
  <2>6. ASSUME NEW f \in WholeOutputs, kept[x] = Removal(f, x[1], x[2])
        PROVE  /\ row.hard = 1 => row.soft >= 0
               /\ row.hard = -1 => row.soft <= 0
               /\ row.hard # 0 /\ row.soft = 0 => row.tie
               /\ row.soft # 0 => \E q, r \in Roles : f[q].scores # f[r].scores
    <3>1. /\ kept[x].baseline = Aggregation(f, Roles, order[x[1]])
          /\ kept[x].removal = Aggregation(f, Roles \ {x[2]}, order[x[1]])
      BY <2>6 DEF Removal, Baseline, Retained
    <3>2. row = Evaluation(Aggregation(f, Roles, order[x[1]]),
                           Aggregation(f, Roles \ {x[2]}, order[x[1]]), gold[x[1]])
      BY <2>2, <3>1
    <3> HIDE DEF row
    <3>3. QED
      BY <2>4, <2>5, <3>2, RemovalsAgree
  <2>7. PICK f \in WholeOutputs : kept[x] = Removal(f, x[1], x[2])
    BY <2>2 DEF ValueInv, KeptIsOfWholeTeams
  <2>8. records = execSeal =>
          /\ records[x[1]] \in WholeOutputs
          /\ kept[x] = Removal(records[x[1]], x[1], x[2])
    BY <2>2 DEF ValueInv, KeptIsOfWholeTeams, FitInv, RemovalsFit
  <2> HIDE DEF row
  <2>9. row.soft # 0 /\ records = execSeal =>
          \E q, r \in Roles : records[x[1]][q].scores # records[x[1]][r].scores
    BY <2>6, <2>8
  <2>10. QED
    BY <2>6, <2>7, <2>9 DEF row
<1>4. QED
  BY <1>1, <1>2, <1>3, PTL DEF Spec
=============================================================================
