-------------------------- MODULE NormalizerProofs --------------------------
(***************************************************************************)
(* Theorems about Normalizer, for prompts of any lines and any length and  *)
(* for callers that state anything.                                        *)
(***************************************************************************)
EXTENDS Normalizer, FiniteSetTheorems, WellFoundedInduction, TLAPS

------------------------------------------------------------------------------
(***************************************************************************)
(* The inductive invariant: what the scan keeps is what the layout of the  *)
(* lines read says, and the result follows from what the scan kept.        *)
(***************************************************************************)
StateTypes ==
  /\ prompt \in Seq(Lines)
  /\ current \in Fields \cup {None}
  /\ collected \in [Fields -> Seq(Nat)] /\ sections \in [Fields -> Nat]

\* The fence the scan is in is the one that is open after the lines read.
FenceIsTracked(p, open) ==
  IF open = None THEN \A i \in DOMAIN p : ~OpenAt(p, i, Len(p))
  ELSE \E i \in DOMAIN p : /\ OpenAt(p, i, Len(p))
                           /\ open = [char |-> p[i].char, length |-> p[i].length]

\* current_field is the section the last line stands in, and a fence is in none.
SectionIsTracked(p, field, open) ==
  /\ field # None => open = None /\ InSection(p, Len(p), field)
  /\ \A f \in Fields : InSection(p, Len(p), f) => field = f

Increasing(s) == \A a, b \in DOMAIN s : a < b => s[a] < s[b]

\* Each field has its sources, in their order.
SourcesAreCollected(p, spans) ==
  \A f \in Fields : ToSet(spans[f]) = Sources(p, f) /\ Increasing(spans[f])

\* The lines that are the source of a field or head a section.
Recognizable(p) ==
  {k \in DOMAIN p : \E f \in Fields : IsSource(p, k, f) \/ Heads(p, k, f)}

\* section_counts, as far as it matters whether a field has none, one or more.
SectionsAreCounted(p, counts) ==
  \A f \in Fields :
    /\ counts[f] = 0 => \A h \in DOMAIN p : ~Heads(p, h, f)
    /\ counts[f] = 1 => \A g, h \in DOMAIN p : Heads(p, g, f) /\ Heads(p, h, f) => g = h

ResultIsDerived == result # None => \E e \in Explicit : result = NormalizationResult(e)

IInv ==
  /\ StateTypes
  /\ FenceIsTracked(prompt, fence) /\ SectionIsTracked(prompt, current, fence)
  /\ SourcesAreCollected(prompt, collected)
  /\ recognized = Recognizable(prompt)
  /\ SectionsAreCounted(prompt, sections)
  /\ ResultIsDerived

------------------------------------------------------------------------------
\* A set of naturals that is not empty has a least element.
LEMMA LeastExists ==
  ASSUME NEW S, S \subseteq Nat, S # {}
  PROVE  \E x \in S : \A y \in S : x <= y
<1>1. PICK x \in S : \A y \in S : <<y, x>> \notin OpToRel(<, Nat)
  BY NatLessThanWellFounded, WFMin, Zenon
<1>2. ASSUME NEW y \in S, y < x PROVE FALSE
  <2>1. <<y, x>> \in Nat \X Nat /\ <<y, x>>[1] < <<y, x>>[2]
    BY <1>2
  <2>2. <<y, x>> \in OpToRel(<, Nat)
    BY <2>1, Zenon DEF OpToRel
  <2>3. QED
    BY <1>1, <2>2, Zenon
<1>3. QED
  BY <1>2

\* What Opens says of line k, for any function o in the place of Opens.
OpensRule(o, p, k) ==
  /\ p[k].kind = "fence"
  /\ ~\E i \in 1..(k - 1) : o[i] /\ ~ClosedBetween(p, i, i + 1, k - 1)

\* Opens up to line n: the rule refers to earlier lines only, so such a function
\* exists for every n, one line at a time.
OpensUpTo(p, n) == \E o : o = [k \in 1..n |-> OpensRule(o, p, k)]

LEMMA OpensExtends ==
  ASSUME NEW p, NEW n \in Nat, OpensUpTo(p, n)
  PROVE  OpensUpTo(p, n + 1)
<1>1. PICK o : o = [k \in 1..n |-> OpensRule(o, p, k)]
  BY DEF OpensUpTo
<1>. DEFINE q == [k \in 1..(n + 1) |-> IF k = n + 1 THEN OpensRule(o, p, k) ELSE o[k]]
<1>2. \A i \in 1..n : q[i] = o[i]
  BY SMT
<1>3. ASSUME NEW k \in 1..(n + 1) PROVE OpensRule(q, p, k) = OpensRule(o, p, k)
  <2>1. \A i \in 1..(k - 1) : q[i] = o[i]
    BY <1>2
  <2>2. QED
    BY <2>1, Zenon DEF OpensRule
<1>4. ASSUME NEW k \in 1..(n + 1) PROVE q[k] = OpensRule(q, p, k)
  <2>1. CASE k = n + 1
    BY <1>3, <2>1, Zenon
  <2>2. CASE k # n + 1
    <3>1. k \in 1..n
      BY <2>2
    <3>2. q[k] = o[k] /\ o[k] = OpensRule(o, p, k)
      BY <1>1, <1>2, <3>1, Zenon
    <3>3. QED
      BY <1>3, <3>2, Zenon
  <2>3. QED
    BY <2>1, <2>2
<1>5. q = [k \in 1..(n + 1) |-> q[k]]
  BY Zenon
<1>6. [k \in 1..(n + 1) |-> q[k]] = [k \in 1..(n + 1) |-> OpensRule(q, p, k)]
  <2>. HIDE DEF q
  <2>1. QED BY <1>4, Zenon
<1>7. q = [k \in 1..(n + 1) |-> OpensRule(q, p, k)]
  BY <1>5, <1>6, Zenon
<1>8. QED
  BY <1>7, Zenon DEF OpensUpTo

LEMMA OpensExists ==
  ASSUME NEW p, NEW n \in Nat
  PROVE  OpensUpTo(p, n)
<1>. DEFINE S == {m \in Nat : ~OpensUpTo(p, m)}
<1>1. SUFFICES ASSUME n \in S PROVE FALSE
  OBVIOUS
<1>2. PICK m \in S : \A y \in S : m <= y
  <2>1. S \subseteq Nat /\ S # {}
    BY <1>1
  <2>2. QED
    BY <2>1, LeastExists, Zenon
<1>3. m # 0
  <2>. DEFINE o == [k \in {} |-> FALSE]
  <2>1. 1..0 = {}
    OBVIOUS
  <2>2. o = [k \in 1..0 |-> OpensRule(o, p, k)]
    BY <2>1
  <2>3. OpensUpTo(p, 0)
    BY <2>2, Zenon DEF OpensUpTo
  <2>4. QED
    BY <2>3
<1>4. m - 1 \in Nat /\ m = (m - 1) + 1 /\ ~(m <= m - 1)
  BY <1>3
<1>5. OpensUpTo(p, m - 1)
  BY <1>2, <1>4
<1>6. OpensUpTo(p, m)
  BY <1>4, <1>5, OpensExtends, Zenon
<1>7. QED
  BY <1>6

\* Opens is the function its definition describes.
LEMMA OpensIsDefined ==
  ASSUME NEW p \in Seq(Line)
  PROVE  \A k \in DOMAIN p : Opens(p)[k] = OpensRule(Opens(p), p, k)
<1>1. DOMAIN p = 1..Len(p) /\ Len(p) \in Nat
  OBVIOUS
<1>2. PICK o : o = [k \in DOMAIN p |-> OpensRule(o, p, k)]
  <2>1. PICK o : o = [k \in 1..Len(p) |-> OpensRule(o, p, k)]
    BY <1>1, OpensExists, Zenon DEF OpensUpTo
  <2>2. o = [k \in DOMAIN p |-> OpensRule(o, p, k)]
    BY <1>1, <2>1, Zenon
  <2>3. QED
    BY <2>2, Zenon
<1>3. Opens(p) = CHOOSE x : x = [k \in DOMAIN p |-> OpensRule(x, p, k)]
  BY Zenon DEF Opens, OpensRule
<1>4. Opens(p) = [k \in DOMAIN p |-> OpensRule(Opens(p), p, k)]
  BY <1>2, <1>3, Zenon
<1>5. QED
  BY <1>4, Zenon

------------------------------------------------------------------------------
(* The layout of the lines read does not depend on the lines that follow.    *)

LEMMA OneMoreLine ==
  ASSUME NEW p \in Seq(Line), NEW line \in Line
  PROVE  /\ Append(p, line) \in Seq(Line) /\ Len(Append(p, line)) = Len(p) + 1
         /\ Append(p, line)[Len(p) + 1] = line
         /\ \A k \in 1..Len(p) : Append(p, line)[k] = p[k]
  OBVIOUS

LEMMA ClosedStays ==
  ASSUME NEW p \in Seq(Line), NEW line \in Line,
         NEW i \in 1..Len(p), NEW m \in 1..(Len(p) + 1), NEW k \in 0..Len(p)
  PROVE  ClosedBetween(Append(p, line), i, m, k) <=> ClosedBetween(p, i, m, k)
<1>1. \A c \in m..k : c \in 1..Len(p)
  OBVIOUS
<1>2. \A c \in m..k : Append(p, line)[c] = p[c]
  BY <1>1, OneMoreLine
<1>3. QED
  BY <1>2, OneMoreLine, Zenon DEF ClosedBetween

LEMMA OpensStay ==
  ASSUME NEW p \in Seq(Line), NEW line \in Line
  PROVE  \A k \in 1..Len(p) : Opens(Append(p, line))[k] = Opens(p)[k]
<1>. DEFINE q == Append(p, line)
            D == {k \in 1..Len(p) : Opens(q)[k] # Opens(p)[k]}
<1>1. SUFFICES ASSUME D # {} PROVE FALSE
  OBVIOUS
<1>2. PICK k \in D : \A j \in D : k <= j
  <2>1. D \subseteq Nat
    OBVIOUS
  <2>2. QED
    BY <1>1, <2>1, LeastExists, Zenon
<1>3. \A i \in 1..(k - 1) : /\ i \in 1..Len(p) /\ i + 1 \in 1..(Len(p) + 1)
                            /\ k - 1 \in 0..Len(p) /\ Opens(q)[i] = Opens(p)[i]
  BY <1>2
<1>4. \A i \in 1..(k - 1) : ClosedBetween(q, i, i + 1, k - 1) <=> ClosedBetween(p, i, i + 1, k - 1)
  BY <1>3, ClosedStays, Zenon
<1>5. k \in DOMAIN p /\ k \in DOMAIN q /\ q[k] = p[k] /\ q \in Seq(Line)
  BY <1>2, OneMoreLine
<1>6. OpensRule(Opens(q), q, k) = OpensRule(Opens(p), p, k)
  <2>. HIDE DEF q
  <2>1. QED
    BY <1>3, <1>4, <1>5, Zenon DEF OpensRule
<1>7. Opens(q)[k] = Opens(p)[k]
  <2>. HIDE DEF q
  <2>1. QED
    BY <1>5, <1>6, OpensIsDefined, Zenon
<1>8. QED
  BY <1>2, <1>7

LEMMA OpenStays ==
  ASSUME NEW p \in Seq(Line), NEW line \in Line, NEW i \in 1..Len(p), NEW k \in 0..Len(p)
  PROVE  OpenAt(Append(p, line), i, k) <=> OpenAt(p, i, k)
<1>1. i + 1 \in 1..(Len(p) + 1)
  OBVIOUS
<1>2. QED
  BY <1>1, ClosedStays, OpensStay, Zenon DEF OpenAt

LEMMA FencedStays ==
  ASSUME NEW p \in Seq(Line), NEW line \in Line, NEW k \in 1..Len(p)
  PROVE  Fenced(Append(p, line), k) <=> Fenced(p, k)
<1>1. k - 1 \in 0..Len(p) /\ \A i \in 1..(k - 1) : i \in 1..Len(p)
  OBVIOUS
<1>2. \A i \in 1..(k - 1) : OpenAt(Append(p, line), i, k - 1) <=> OpenAt(p, i, k - 1)
  BY <1>1, OpenStays, Zenon
<1>3. QED
  BY <1>2, OneMoreLine, Zenon DEF Fenced

LEMMA HeadsStay ==
  ASSUME NEW p \in Seq(Line), NEW line \in Line, NEW k \in 1..Len(p), NEW f
  PROVE  Heads(Append(p, line), k, f) <=> Heads(p, k, f)
BY FencedStays, OneMoreLine, Zenon DEF Heads

LEMMA InSectionStays ==
  ASSUME NEW p \in Seq(Line), NEW line \in Line, NEW k \in 0..Len(p), NEW f
  PROVE  InSection(Append(p, line), k, f) <=> InSection(p, k, f)
<1>1. \A h \in 1..k : h \in 1..Len(p) /\ \A i \in (h + 1)..k : i \in 1..Len(p)
  OBVIOUS
<1>2. \A h \in 1..k : Heads(Append(p, line), h, f) <=> Heads(p, h, f)
  BY <1>1, HeadsStay, Zenon
<1>3. \A h \in 1..k : \A i \in (h + 1)..k : Append(p, line)[i] = p[i]
  BY <1>1, OneMoreLine, Zenon
<1>4. QED
  BY <1>2, <1>3, Zenon DEF InSection

LEMMA IsSourceStays ==
  ASSUME NEW p \in Seq(Line), NEW line \in Line, NEW k \in 1..Len(p), NEW f
  PROVE  IsSource(Append(p, line), k, f) <=> IsSource(p, k, f)
<1>1. k \in 0..Len(p)
  OBVIOUS
<1>2. \A g : InSection(Append(p, line), k, g) <=> InSection(p, k, g)
  BY <1>1, InSectionStays, Zenon
<1>3. Loose(Append(p, line), k) <=> Loose(p, k)
  BY <1>2, FencedStays, Zenon DEF Loose
<1>4. QED
  BY <1>2, <1>3, OneMoreLine, Zenon DEF IsSource

------------------------------------------------------------------------------
(* What one more line opens, closes, heads and continues.                    *)

\* No two fences are open at once.
LEMMA OneOpenFence ==
  ASSUME NEW p \in Seq(Line), NEW i \in 1..Len(p), NEW j \in 1..Len(p),
         OpenAt(p, i, Len(p)), OpenAt(p, j, Len(p))
  PROVE  i = j
<1>1. ASSUME NEW x \in 1..Len(p), NEW y \in 1..Len(p), x < y,
             OpenAt(p, x, Len(p)), OpenAt(p, y, Len(p))
      PROVE  FALSE
  <2>1. x \in 1..(y - 1) /\ y \in DOMAIN p
    BY <1>1
  <2>2. OpensRule(Opens(p), p, y)
    BY <1>1, <2>1, OpensIsDefined, Zenon DEF OpenAt
  <2>3. ClosedBetween(p, x, x + 1, y - 1)
    BY <1>1, <2>1, <2>2, Zenon DEF OpensRule, OpenAt
  <2>4. \A c \in (x + 1)..(y - 1) : c \in (x + 1)..Len(p)
    BY <1>1
  <2>5. ClosedBetween(p, x, x + 1, Len(p))
    BY <2>3, <2>4, Zenon DEF ClosedBetween
  <2>6. QED
    BY <1>1, <2>5, Zenon DEF OpenAt
<1>2. i = j \/ i < j \/ j < i
  OBVIOUS
<1>3. QED
  BY <1>1, <1>2, Zenon

\* The new line closes the fence of line i.
ClosesFenceOf(line, start) ==
  line.kind = "fence" /\ line.char = start.char /\ line.length >= start.length

LEMMA OldFenceAfterLine ==
  ASSUME NEW p \in Seq(Line), NEW line \in Line, NEW i \in 1..Len(p)
  PROVE  OpenAt(Append(p, line), i, Len(p) + 1) <=>
           OpenAt(p, i, Len(p)) /\ ~ClosesFenceOf(line, p[i])
<1>. DEFINE q == Append(p, line)
            n == Len(p)
<1>1. \A c : c \in (i + 1)..(n + 1) <=> c \in (i + 1)..n \/ c = n + 1
  OBVIOUS
<1>2. q[n + 1] = line /\ q[i] = p[i]
  BY OneMoreLine
<1>3. ClosedBetween(q, i, i + 1, n + 1) <=>
        ClosedBetween(q, i, i + 1, n) \/ ClosesFenceOf(line, p[i])
  <2>. HIDE DEF q, n
  <2>1. QED
    BY <1>1, <1>2, Zenon DEF ClosedBetween, ClosesFenceOf
<1>4. i + 1 \in 1..(n + 1) /\ n \in 0..n
  OBVIOUS
<1>5. ClosedBetween(q, i, i + 1, n) <=> ClosedBetween(p, i, i + 1, n)
  BY <1>4, ClosedStays, Zenon
<1>6. Opens(q)[i] = Opens(p)[i]
  BY OpensStay, Zenon
<1>7. QED
  <2>. HIDE DEF q
  <2>1. OpenAt(q, i, n + 1) <=> OpenAt(p, i, n) /\ ~ClosesFenceOf(line, p[i])
    BY <1>3, <1>5, <1>6, Zenon DEF OpenAt
  <2>2. QED
    BY <2>1, Zenon DEF q

LEMMA NewFenceAfterLine ==
  ASSUME NEW p \in Seq(Line), NEW line \in Line
  PROVE  OpenAt(Append(p, line), Len(p) + 1, Len(p) + 1) <=>
           line.kind = "fence" /\ \A i \in 1..Len(p) : ~OpenAt(p, i, Len(p))
<1>. DEFINE q == Append(p, line)
            n == Len(p) + 1
<1>1. q[n] = line /\ q \in Seq(Line) /\ n \in DOMAIN q /\ n - 1 = Len(p)
  BY OneMoreLine
<1>2. ~ClosedBetween(q, n, n + 1, n)
  <2>1. \A c : c \notin (n + 1)..n
    OBVIOUS
  <2>2. QED
    BY <2>1, Zenon DEF ClosedBetween
<1>3. OpenAt(q, n, n) <=> OpensRule(Opens(q), q, n)
  <2>. HIDE DEF q, n
  <2>1. QED
    BY <1>1, <1>2, OpensIsDefined, Zenon DEF OpenAt
<1>4. \A i \in 1..Len(p) : OpenAt(q, i, Len(p)) <=> OpenAt(p, i, Len(p))
  <2>1. Len(p) \in 0..Len(p)
    OBVIOUS
  <2>2. QED
    BY <2>1, OpenStays, Zenon
<1>5. OpensRule(Opens(q), q, n) <=>
        line.kind = "fence" /\ ~\E i \in 1..Len(p) : OpenAt(q, i, Len(p))
  <2>. HIDE DEF q, n
  <2>1. QED
    BY <1>1, Zenon DEF OpensRule, OpenAt
<1>6. QED
  BY <1>3, <1>4, <1>5, Zenon

\* The new line is fenced when it is a fence line or the scan is in a fence.
LEMMA LineIsFenced ==
  ASSUME NEW p \in Seq(Line), NEW line \in Line, NEW open, FenceIsTracked(p, open)
  PROVE  Fenced(Append(p, line), Len(p) + 1) <=> line.kind = "fence" \/ open # None
<1>. DEFINE q == Append(p, line)
            n == Len(p) + 1
<1>1. q[n] = line /\ n - 1 = Len(p) /\ DOMAIN p = 1..Len(p) /\ Len(p) \in 0..Len(p)
  BY OneMoreLine
<1>2. \A i \in 1..Len(p) : OpenAt(q, i, Len(p)) <=> OpenAt(p, i, Len(p))
  BY <1>1, OpenStays, Zenon
<1>3. open # None <=> \E i \in 1..Len(p) : OpenAt(p, i, Len(p))
  BY <1>1, Zenon DEF FenceIsTracked
<1>4. QED
  <2>. HIDE DEF q, n
  <2>1. Fenced(q, n) <=> line.kind = "fence" \/ open # None
    BY <1>1, <1>2, <1>3, Zenon DEF Fenced
  <2>2. QED
    BY <2>1, Zenon DEF q, n

LEMMA LineHeads ==
  ASSUME NEW p \in Seq(Line), NEW line \in Line, NEW open, FenceIsTracked(p, open), NEW f
  PROVE  Heads(Append(p, line), Len(p) + 1, f) <=>
           line.kind \in {"heading", "label"} /\ line.field = f /\ open = None
<1>1. Append(p, line)[Len(p) + 1] = line
  BY OneMoreLine
<1>2. "fence" \notin {"heading", "label"}
  OBVIOUS
<1>3. QED
  BY <1>1, <1>2, LineIsFenced, Zenon DEF Heads

LEMMA LineInSection ==
  ASSUME NEW p \in Seq(Line), NEW line \in Line, NEW f
  PROVE  InSection(Append(p, line), Len(p) + 1, f) <=>
           \/ Heads(Append(p, line), Len(p) + 1, f)
           \/ line.kind = "text" /\ InSection(p, Len(p), f)
<1>. DEFINE q == Append(p, line)
            n == Len(p) + 1
            Under(h, k) == Heads(q, h, f) /\ \A i \in (h + 1)..k : q[i].kind = "text"
<1>1. \A h : h \in 1..n <=> h \in 1..Len(p) \/ h = n
  OBVIOUS
<1>2. Under(n, n) <=> Heads(q, n, f)
  <2>1. \A i : i \notin (n + 1)..n
    OBVIOUS
  <2>2. QED
    BY <2>1, Zenon
<1>3. \A h \in 1..Len(p) : Under(h, n) <=> line.kind = "text" /\ Under(h, Len(p))
  <2>1. \A h \in 1..Len(p) : \A i : i \in (h + 1)..n <=> i \in (h + 1)..Len(p) \/ i = n
    OBVIOUS
  <2>2. q[n] = line
    BY OneMoreLine
  <2>. HIDE DEF q, n
  <2>3. QED
    BY <2>1, <2>2, Zenon
<1>4. InSection(q, n, f) <=> \E h \in 1..n : Under(h, n)
  BY Zenon DEF InSection
<1>5. InSection(q, Len(p), f) <=> \E h \in 1..Len(p) : Under(h, Len(p))
  BY Zenon DEF InSection
<1>6. InSection(q, Len(p), f) <=> InSection(p, Len(p), f)
  <2>1. Len(p) \in 0..Len(p)
    OBVIOUS
  <2>2. QED
    BY <2>1, InSectionStays, Zenon
<1>7. QED
  <2>. HIDE DEF q, n, Under
  <2>1. InSection(q, n, f) <=>
          Heads(q, n, f) \/ (line.kind = "text" /\ InSection(p, Len(p), f))
    BY <1>1, <1>2, <1>3, <1>4, <1>5, <1>6, Zenon
  <2>2. QED
    BY <2>1, Zenon DEF q, n

------------------------------------------------------------------------------
(* What the conjuncts of the invariant become when a line is added.          *)

LEMMA FenceOpens ==
  ASSUME NEW p \in Seq(Line), NEW line \in Line,
         FenceIsTracked(p, None), line.kind = "fence"
  PROVE  FenceIsTracked(Append(p, line), [char |-> line.char, length |-> line.length])
<1>. DEFINE q == Append(p, line)
            n == Len(p) + 1
<1>1. Len(q) = n /\ n \in DOMAIN q /\ q[n] = line /\ DOMAIN p = 1..Len(p)
  BY OneMoreLine
<1>2. OpenAt(q, n, n)
  BY <1>1, NewFenceAfterLine, Zenon DEF FenceIsTracked
<1>3. [char |-> line.char, length |-> line.length] # None
  <2>1. [char |-> line.char, length |-> line.length] \in Fence
    BY DEF Line, Fence
  <2>2. QED
    BY <2>1, NormalizerAssumption, Zenon
<1>4. QED
  <2>. HIDE DEF q, n
  <2>1. FenceIsTracked(q, [char |-> line.char, length |-> line.length])
    BY <1>1, <1>2, <1>3, Zenon DEF FenceIsTracked
  <2>2. QED
    BY <2>1, Zenon DEF q

LEMMA FenceCloses ==
  ASSUME NEW p \in Seq(Line), NEW line \in Line, NEW open, open # None,
         FenceIsTracked(p, open), ClosesFenceOf(line, open)
  PROVE  FenceIsTracked(Append(p, line), None)
<1>. DEFINE q == Append(p, line)
            n == Len(p) + 1
<1>1. Len(q) = n /\ DOMAIN p = 1..Len(p) /\ \A i : i \in DOMAIN q <=> i \in 1..Len(p) \/ i = n
  BY OneMoreLine
<1>2. PICK i \in 1..Len(p) : /\ OpenAt(p, i, Len(p))
                             /\ open = [char |-> p[i].char, length |-> p[i].length]
  BY <1>1, Zenon DEF FenceIsTracked
<1>3. ClosesFenceOf(line, p[i])
  <2>1. open.char = p[i].char /\ open.length = p[i].length
    BY <1>2
  <2>2. QED
    BY <2>1, Zenon DEF ClosesFenceOf
<1>4. \A j \in 1..Len(p) : ~OpenAt(q, j, n)
  BY <1>2, <1>3, OneOpenFence, OldFenceAfterLine, Zenon
<1>5. ~OpenAt(q, n, n)
  BY <1>2, NewFenceAfterLine, Zenon
<1>6. QED
  <2>. HIDE DEF q, n
  <2>1. FenceIsTracked(q, None)
    BY <1>1, <1>4, <1>5, Zenon DEF FenceIsTracked
  <2>2. QED
    BY <2>1, Zenon DEF q

LEMMA FenceStays ==
  ASSUME NEW p \in Seq(Line), NEW line \in Line, NEW open, FenceIsTracked(p, open),
         line.kind = "fence" => open # None /\ ~ClosesFenceOf(line, open)
  PROVE  FenceIsTracked(Append(p, line), open)
<1>. DEFINE q == Append(p, line)
            n == Len(p) + 1
<1>1. /\ Len(q) = n /\ DOMAIN p = 1..Len(p) /\ \A i : i \in DOMAIN q <=> i \in 1..Len(p) \/ i = n
      /\ \A i \in 1..Len(p) : q[i] = p[i]
  BY OneMoreLine
<1>2. CASE open = None
  <2>1. \A j \in 1..Len(p) : ~OpenAt(q, j, n)
    BY <1>1, <1>2, OldFenceAfterLine, Zenon DEF FenceIsTracked
  <2>2. ~OpenAt(q, n, n)
    BY <1>2, NewFenceAfterLine, Zenon
  <2>. HIDE DEF q, n
  <2>3. FenceIsTracked(q, open)
    BY <1>1, <1>2, <2>1, <2>2, Zenon DEF FenceIsTracked
  <2>4. QED
    BY <2>3, Zenon DEF q
<1>3. CASE open # None
  <2>1. PICK i \in 1..Len(p) : /\ OpenAt(p, i, Len(p))
                               /\ open = [char |-> p[i].char, length |-> p[i].length]
    BY <1>1, <1>3, Zenon DEF FenceIsTracked
  <2>2. ~ClosesFenceOf(line, p[i])
    <3>1. open.char = p[i].char /\ open.length = p[i].length
      BY <2>1
    <3>2. QED
      BY <3>1, Zenon DEF ClosesFenceOf
  <2>3. OpenAt(q, i, n)
    BY <2>1, <2>2, OldFenceAfterLine, Zenon
  <2>. HIDE DEF q, n
  <2>4. FenceIsTracked(q, open)
    BY <1>1, <1>3, <2>1, <2>3, Zenon DEF FenceIsTracked
  <2>5. QED
    BY <2>4, Zenon DEF q
<1>4. QED
  BY <1>2, <1>3, Zenon

\* The new line continues or opens section f of a scan that is in a section and
\* a fence.
Continues(line, field, open, f) ==
  \/ line.kind \in {"heading", "label"} /\ line.field = f /\ open = None
  \/ line.kind = "text" /\ field = f

\* The new line is a source of f.
Says(line, field, open, f) ==
  /\ line.text # None
  /\ \/ Continues(line, field, open, f)
     \/ /\ line.kind \in {"text", "label"} /\ open = None /\ line.inline = f
        /\ \A g \in Fields : ~Continues(line, field, open, g)

LEMMA LineMeans ==
  ASSUME NEW p \in Seq(Line), NEW line \in Line, NEW open, NEW field \in Fields \cup {None},
         FenceIsTracked(p, open), SectionIsTracked(p, field, open), NEW f \in Fields
  PROVE  /\ InSection(Append(p, line), Len(p) + 1, f) <=> Continues(line, field, open, f)
         /\ IsSource(Append(p, line), Len(p) + 1, f) <=> Says(line, field, open, f)
<1>1. \A g \in Fields : InSection(p, Len(p), g) <=> field = g
  <2>1. None \notin Fields
    BY NormalizerAssumption
  <2>2. QED
    BY <2>1, Zenon DEF SectionIsTracked
<1>2. \A g \in Fields :
        InSection(Append(p, line), Len(p) + 1, g) <=> Continues(line, field, open, g)
  <2>1. TAKE g \in Fields
  <2>2. InSection(Append(p, line), Len(p) + 1, g) <=>
          \/ Heads(Append(p, line), Len(p) + 1, g)
          \/ line.kind = "text" /\ InSection(p, Len(p), g)
    BY LineInSection, Zenon
  <2>3. Heads(Append(p, line), Len(p) + 1, g) <=>
          line.kind \in {"heading", "label"} /\ line.field = g /\ open = None
    BY LineHeads, Zenon
  <2>4. QED
    BY <1>1, <2>2, <2>3, Zenon DEF Continues
<1>3. Loose(Append(p, line), Len(p) + 1) <=>
        /\ line.kind # "fence" /\ open = None
        /\ \A g \in Fields : ~Continues(line, field, open, g)
  BY <1>2, LineIsFenced, Zenon DEF Loose
<1>4. Append(p, line)[Len(p) + 1] = line
  BY OneMoreLine
<1>5. "fence" \notin {"text", "label"}
  OBVIOUS
<1>6. QED
  BY <1>2, <1>3, <1>4, <1>5, Zenon DEF IsSource, Says

LEMMA SourcesKept ==
  ASSUME NEW p \in Seq(Line), NEW line \in Line, NEW spans, SourcesAreCollected(p, spans),
         \A f \in Fields : ~IsSource(Append(p, line), Len(p) + 1, f)
  PROVE  SourcesAreCollected(Append(p, line), spans)
<1>. DEFINE q == Append(p, line)
            n == Len(p) + 1
<1>1. DOMAIN p = 1..Len(p) /\ \A k : k \in DOMAIN q <=> k \in 1..Len(p) \/ k = n
  BY OneMoreLine
<1>2. ASSUME NEW f \in Fields PROVE Sources(q, f) = Sources(p, f)
  <2>1. \A k \in 1..Len(p) : IsSource(q, k, f) <=> IsSource(p, k, f)
    BY IsSourceStays, Zenon
  <2>. HIDE DEF q, n
  <2>2. ~IsSource(q, n, f)
    BY Zenon DEF q, n
  <2>3. QED
    BY <1>1, <2>1, <2>2, Zenon DEF Sources
<1>3. QED
  BY <1>2, Zenon DEF SourcesAreCollected

LEMMA ToSetOfAppend ==
  ASSUME NEW s \in Seq(Nat), NEW x \in Nat
  PROVE  ToSet(Append(s, x)) = ToSet(s) \cup {x}
<1>1. \A i : i \in DOMAIN Append(s, x) <=> i \in DOMAIN s \/ i = Len(s) + 1
  OBVIOUS
<1>2. /\ \A i \in DOMAIN s : Append(s, x)[i] = s[i]
      /\ Append(s, x)[Len(s) + 1] = x
  OBVIOUS
<1>3. \A y : y \in ToSet(Append(s, x)) <=> y \in ToSet(s) \/ y = x
  BY <1>1, <1>2, Zenon DEF ToSet
<1>4. QED
  BY <1>3, Zenon

LEMMA SourceCollected ==
  ASSUME NEW p \in Seq(Line), NEW line \in Line, NEW spans \in [Fields -> Seq(Nat)],
         SourcesAreCollected(p, spans), NEW g \in Fields,
         \A f \in Fields : IsSource(Append(p, line), Len(p) + 1, f) <=> f = g
  PROVE  SourcesAreCollected(Append(p, line),
                             [spans EXCEPT ![g] = Append(@, Len(p) + 1)])
<1>. DEFINE q == Append(p, line)
            n == Len(p) + 1
            after == [spans EXCEPT ![g] = Append(@, n)]
<1>1. DOMAIN p = 1..Len(p) /\ \A k : k \in DOMAIN q <=> k \in 1..Len(p) \/ k = n
  BY OneMoreLine
<1>2. \A f \in Fields : after[f] = IF f = g THEN Append(spans[g], n) ELSE spans[f]
  OBVIOUS
<1>3. \A f \in Fields, k \in 1..Len(p) : IsSource(q, k, f) <=> IsSource(p, k, f)
  BY IsSourceStays, Zenon
<1>4. \A f \in Fields : IsSource(q, n, f) <=> f = g
  OBVIOUS
<1>5. ASSUME NEW f \in Fields PROVE Sources(q, f) = Sources(p, f) \cup (IF f = g THEN {n} ELSE {})
  <2>. HIDE DEF q, n
  <2>1. QED
    BY <1>1, <1>3, <1>4, Zenon DEF Sources
<1>6. ASSUME NEW f \in Fields
      PROVE  ToSet(after[f]) = Sources(q, f) /\ Increasing(after[f])
  <2>1. CASE f # g
    BY <1>2, <1>5, <2>1, Zenon DEF SourcesAreCollected
  <2>2. CASE f = g
    <3>. DEFINE s == spans[g]
    <3>1. s \in Seq(Nat) /\ after[f] = Append(s, n) /\ ToSet(s) = Sources(p, g) /\ Increasing(s)
      BY <1>2, <2>2, Zenon DEF SourcesAreCollected
    <3>2. ToSet(Append(s, n)) = ToSet(s) \cup {n}
      <4>1. n \in Nat
        OBVIOUS
      <4>2. QED
        BY <3>1, <4>1, ToSetOfAppend, Zenon
    <3>3. \A a \in DOMAIN s : s[a] <= Len(p)
      <4>1. \A a \in DOMAIN s : s[a] \in ToSet(s)
        BY Zenon DEF ToSet
      <4>2. \A k \in Sources(p, g) : k \in 1..Len(p)
        BY <1>1, Zenon DEF Sources
      <4>3. QED
        BY <3>1, <4>1, <4>2
    <3>4. Increasing(Append(s, n))
      BY <3>1, <3>3 DEF Increasing
    <3>. HIDE DEF s, q, n, after
    <3>5. QED
      BY <1>5, <2>2, <3>1, <3>2, <3>4, Zenon
  <2>3. QED
    BY <2>1, <2>2, Zenon
<1>7. QED
  BY <1>6, Zenon DEF SourcesAreCollected

LEMMA LineIsRecognized ==
  ASSUME NEW p \in Seq(Line), NEW line \in Line
  PROVE  Recognizable(Append(p, line)) =
           IF \E f \in Fields : \/ IsSource(Append(p, line), Len(p) + 1, f)
                                \/ Heads(Append(p, line), Len(p) + 1, f)
             THEN Recognizable(p) \cup {Len(p) + 1} ELSE Recognizable(p)
<1>. DEFINE q == Append(p, line)
            n == Len(p) + 1
            Known == \E f \in Fields : IsSource(q, n, f) \/ Heads(q, n, f)
<1>1. DOMAIN p = 1..Len(p) /\ \A k : k \in DOMAIN q <=> k \in 1..Len(p) \/ k = n
  BY OneMoreLine
<1>2. \A f \in Fields, k \in 1..Len(p) : IsSource(q, k, f) <=> IsSource(p, k, f)
  BY IsSourceStays, Zenon
<1>3. \A f \in Fields, k \in 1..Len(p) : Heads(q, k, f) <=> Heads(p, k, f)
  BY HeadsStay, Zenon
<1>4. n \notin 1..Len(p)
  OBVIOUS
<1>5. \A k : k \in Recognizable(q) <=> k \in Recognizable(p) \/ (k = n /\ Known)
  <2>. HIDE DEF q, n
  <2>1. QED
    BY <1>1, <1>2, <1>3, <1>4, Zenon DEF Recognizable
<1>6. CASE Known
  <2>. HIDE DEF q, n, Known
  <2>1. Recognizable(q) = Recognizable(p) \cup {n}
    BY <1>5, <1>6, Zenon
  <2>2. QED
    BY <1>6, <2>1, Zenon DEF q, n, Known
<1>7. CASE ~Known
  <2>. HIDE DEF q, n, Known
  <2>1. Recognizable(q) = Recognizable(p)
    BY <1>5, <1>7, Zenon
  <2>2. QED
    BY <1>7, <2>1, Zenon DEF q, n, Known
<1>8. QED
  BY <1>6, <1>7, Zenon

LEMMA CountsKept ==
  ASSUME NEW p \in Seq(Line), NEW line \in Line, NEW counts, SectionsAreCounted(p, counts),
         \A f \in Fields : ~Heads(Append(p, line), Len(p) + 1, f)
  PROVE  SectionsAreCounted(Append(p, line), counts)
<1>. DEFINE q == Append(p, line)
            n == Len(p) + 1
<1>1. DOMAIN p = 1..Len(p) /\ \A k : k \in DOMAIN q <=> k \in 1..Len(p) \/ k = n
  BY OneMoreLine
<1>2. \A f \in Fields : \A k \in DOMAIN q : Heads(q, k, f) => k \in DOMAIN p /\ Heads(p, k, f)
  <2>1. \A f \in Fields, k \in 1..Len(p) : Heads(q, k, f) <=> Heads(p, k, f)
    BY HeadsStay, Zenon
  <2>2. \A f \in Fields : ~Heads(q, n, f)
    OBVIOUS
  <2>. HIDE DEF q, n
  <2>3. QED
    BY <1>1, <2>1, <2>2, Zenon
<1>3. QED
  <2>. HIDE DEF q
  <2>1. SectionsAreCounted(q, counts)
    BY <1>2, Zenon DEF SectionsAreCounted
  <2>2. QED
    BY <2>1, Zenon DEF q

LEMMA SectionCounted ==
  ASSUME NEW p \in Seq(Line), NEW line \in Line, NEW counts \in [Fields -> Nat],
         SectionsAreCounted(p, counts), NEW g \in Fields,
         \A f \in Fields : Heads(Append(p, line), Len(p) + 1, f) => f = g
  PROVE  SectionsAreCounted(Append(p, line), [counts EXCEPT ![g] = @ + 1])
<1>. DEFINE q == Append(p, line)
            n == Len(p) + 1
            after == [counts EXCEPT ![g] = @ + 1]
<1>1. DOMAIN p = 1..Len(p) /\ \A k : k \in DOMAIN q <=> k \in 1..Len(p) \/ k = n
  BY OneMoreLine
<1>2. \A f \in Fields : \A k \in 1..Len(p) : Heads(q, k, f) <=> Heads(p, k, f)
  BY HeadsStay, Zenon
<1>3. ASSUME NEW f \in Fields, f # g
      PROVE  /\ after[f] = 0 => \A h \in DOMAIN q : ~Heads(q, h, f)
             /\ after[f] = 1 => \A x, h \in DOMAIN q : Heads(q, x, f) /\ Heads(q, h, f) => x = h
  <2>1. after[f] = counts[f]
    BY <1>3
  <2>2. ~Heads(q, n, f)
    BY <1>3, Zenon
  <2>. HIDE DEF q, n, after
  <2>3. QED
    BY <1>1, <1>2, <2>1, <2>2, Zenon DEF SectionsAreCounted
<1>4. /\ after[g] = 0 => \A h \in DOMAIN q : ~Heads(q, h, g)
      /\ after[g] = 1 => \A x, h \in DOMAIN q : Heads(q, x, g) /\ Heads(q, h, g) => x = h
  <2>1. after[g] # 0 /\ (after[g] = 1 => counts[g] = 0)
    OBVIOUS
  <2>2. counts[g] = 0 => \A h \in 1..Len(p) : ~Heads(q, h, g)
    BY <1>1, <1>2, Zenon DEF SectionsAreCounted
  <2>. HIDE DEF q, n, after
  <2>3. QED
    BY <1>1, <2>1, <2>2, Zenon
<1>5. QED
  <2>. HIDE DEF q, after
  <2>1. SectionsAreCounted(q, after)
    BY <1>3, <1>4, Zenon DEF SectionsAreCounted
  <2>2. QED
    BY <2>1, Zenon DEF q, after

------------------------------------------------------------------------------
(* The inductive invariant.                                                  *)

LEMMA InitInv ==
  Init => IInv
<1>. SUFFICES ASSUME Init PROVE IInv
  OBVIOUS
<1>1. prompt = <<>> /\ Len(prompt) = 0 /\ DOMAIN prompt = {} /\ 1..Len(prompt) = {}
  BY DEF Init
<1>2. StateTypes
  BY DEF Init, StateTypes
<1>3. FenceIsTracked(prompt, fence)
  BY <1>1, Zenon DEF Init, FenceIsTracked
<1>4. SectionIsTracked(prompt, current, fence)
  BY <1>1, Zenon DEF Init, SectionIsTracked, InSection
<1>5. SourcesAreCollected(prompt, collected)
  <2>1. \A f \in Fields : collected[f] = <<>>
    BY DEF Init
  <2>2. DOMAIN <<>> = {}
    OBVIOUS
  <2>3. \A f \in Fields : Sources(prompt, f) = {}
    BY <1>1, Zenon DEF Sources
  <2>4. ToSet(<<>>) = {} /\ Increasing(<<>>)
    BY <2>2, Zenon DEF ToSet, Increasing
  <2>5. QED
    BY <2>1, <2>3, <2>4, Zenon DEF SourcesAreCollected
<1>6. recognized = Recognizable(prompt)
  BY <1>1, Zenon DEF Init, Recognizable
<1>7. SectionsAreCounted(prompt, sections)
  BY <1>1, Zenon DEF SectionsAreCounted
<1>8. ResultIsDerived
  BY DEF Init, ResultIsDerived
<1>9. QED
  BY <1>2, <1>3, <1>4, <1>5, <1>6, <1>7, <1>8, Zenon DEF IInv

\* What a line read in any state means, and what reading it may not disturb.
LEMMA LineRead ==
  ASSUME IInv, NEW line \in Lines
  PROVE  /\ prompt \in Seq(Line) /\ line \in Line
         /\ Append(prompt, line) \in Seq(Lines)
         /\ Len(Append(prompt, line)) = Here /\ Here \in Nat
         /\ Len(prompt) + 1 = Here
         /\ \A f \in Fields :
              /\ InSection(Append(prompt, line), Here, f) <=> Continues(line, current, fence, f)
              /\ IsSource(Append(prompt, line), Here, f) <=> Says(line, current, fence, f)
              /\ Heads(Append(prompt, line), Here, f) <=>
                   line.kind \in {"heading", "label"} /\ line.field = f /\ fence = None
<1>1. prompt \in Seq(Lines)
  BY Zenon DEF IInv, StateTypes
<1>2. prompt \in Seq(Line) /\ line \in Line
  BY <1>1, NormalizerAssumption
<1>3. Append(prompt, line) \in Seq(Lines) /\ Len(Append(prompt, line)) = Here /\ Here \in Nat
      /\ Len(prompt) + 1 = Here
  BY <1>1 DEF Here
<1>4. current \in Fields \cup {None}
  BY Zenon DEF IInv, StateTypes
<1>5. \A f \in Fields :
        /\ InSection(Append(prompt, line), Here, f) <=> Continues(line, current, fence, f)
        /\ IsSource(Append(prompt, line), Here, f) <=> Says(line, current, fence, f)
  BY <1>2, <1>4, LineMeans, Zenon DEF IInv, Here
<1>6. \A f \in Fields :
        Heads(Append(prompt, line), Here, f) <=>
          line.kind \in {"heading", "label"} /\ line.field = f /\ fence = None
  BY <1>2, LineHeads, Zenon DEF IInv, Here
<1>7. QED
  BY <1>2, <1>3, <1>5, <1>6, Zenon

\* A line that says nothing of any field, and heads none, leaves what was
\* collected and recognized as it is.
LEMMA LineIsIgnored ==
  ASSUME IInv, NEW line \in Lines, prompt' = Append(prompt, line), result' = None,
         \A f \in Fields : ~Says(line, current, fence, f),
         ~(line.kind \in {"heading", "label"} /\ line.field # None /\ fence = None),
         UNCHANGED <<collected, recognized, sections>>,
         current' \in Fields \cup {None},
         FenceIsTracked(prompt', fence'), SectionIsTracked(prompt', current', fence')
  PROVE  IInv'
<1>. DEFINE q == Append(prompt, line)
<1>1. /\ prompt \in Seq(Line) /\ line \in Line /\ q \in Seq(Lines)
      /\ \A f \in Fields : ~IsSource(q, Len(prompt) + 1, f) /\ ~Heads(q, Len(prompt) + 1, f)
  <2>1. None \notin Fields
    BY NormalizerAssumption
  <2>2. QED
    BY <2>1, LineRead, Zenon
<1>2. StateTypes'
  BY <1>1, Zenon DEF IInv, StateTypes
<1>3. SourcesAreCollected(q, collected)
  BY <1>1, SourcesKept, Zenon DEF IInv
<1>4. recognized = Recognizable(q)
  BY <1>1, LineIsRecognized, Zenon DEF IInv
<1>5. SectionsAreCounted(q, sections)
  BY <1>1, CountsKept, Zenon DEF IInv
<1>6. ResultIsDerived'
  BY Zenon DEF ResultIsDerived
<1>7. QED
  BY <1>2, <1>3, <1>4, <1>5, <1>6, Zenon DEF IInv

\* A line that heads a section or is a source of a field is recognized.
LEMMA LineIsTaken ==
  ASSUME IInv, NEW line \in Lines, prompt' = Append(prompt, line), result' = None,
         NEW g \in Fields,
         \/ Says(line, current, fence, g)
         \/ line.kind \in {"heading", "label"} /\ line.field = g /\ fence = None,
         Recognize,
         current' \in Fields \cup {None}, collected' \in [Fields -> Seq(Nat)],
         sections' \in [Fields -> Nat],
         FenceIsTracked(prompt', fence'), SectionIsTracked(prompt', current', fence'),
         SourcesAreCollected(prompt', collected'), SectionsAreCounted(prompt', sections')
  PROVE  IInv'
<1>. DEFINE q == Append(prompt, line)
<1>1. /\ prompt \in Seq(Line) /\ line \in Line /\ q \in Seq(Lines)
      /\ IsSource(q, Len(prompt) + 1, g) \/ Heads(q, Len(prompt) + 1, g)
      /\ Len(prompt) + 1 = Here
  BY LineRead, Zenon
<1>2. StateTypes'
  BY <1>1, Zenon DEF StateTypes
<1>3. recognized' = Recognizable(q)
  BY <1>1, LineIsRecognized, Zenon DEF IInv, Recognize
<1>4. ResultIsDerived'
  BY Zenon DEF ResultIsDerived
<1>5. QED
  BY <1>2, <1>3, <1>4, Zenon DEF IInv

\* Outside a section after a line that continues none.
LEMMA SectionEnds ==
  ASSUME IInv, NEW line \in Lines, NEW open,
         \A f \in Fields : ~Continues(line, current, fence, f)
  PROVE  SectionIsTracked(Append(prompt, line), None, open)
<1>1. /\ Len(Append(prompt, line)) = Here
      /\ \A f \in Fields : ~InSection(Append(prompt, line), Here, f)
  BY LineRead, Zenon
<1>2. QED
  BY <1>1, Zenon DEF SectionIsTracked

LEMMA SectionGoesOn ==
  ASSUME IInv, NEW line \in Lines, NEW g \in Fields, fence = None,
         \A f \in Fields : Continues(line, current, fence, f) <=> f = g
  PROVE  SectionIsTracked(Append(prompt, line), g, fence)
<1>1. /\ Len(Append(prompt, line)) = Here
      /\ \A f \in Fields : InSection(Append(prompt, line), Here, f) <=> f = g
  BY LineRead, Zenon
<1>2. QED
  BY <1>1, Zenon DEF SectionIsTracked

LEMMA FenceIsKept ==
  ASSUME IInv, NEW line \in Lines, line.kind # "fence"
  PROVE  FenceIsTracked(Append(prompt, line), fence)
BY LineRead, FenceStays, Zenon DEF IInv

LEMMA NothingCollected ==
  ASSUME IInv, NEW line \in Lines, \A f \in Fields : ~Says(line, current, fence, f)
  PROVE  /\ SourcesAreCollected(Append(prompt, line), collected)
         /\ collected \in [Fields -> Seq(Nat)]
<1>1. /\ prompt \in Seq(Line) /\ line \in Line
      /\ \A f \in Fields : ~IsSource(Append(prompt, line), Len(prompt) + 1, f)
  BY LineRead, Zenon
<1>2. QED
  BY <1>1, SourcesKept, Zenon DEF IInv, StateTypes

LEMMA LineCollected ==
  ASSUME IInv, NEW line \in Lines, NEW g \in Fields, Collect(g),
         \A f \in Fields : Says(line, current, fence, f) <=> f = g
  PROVE  /\ SourcesAreCollected(Append(prompt, line), collected')
         /\ collected' \in [Fields -> Seq(Nat)]
<1>1. /\ prompt \in Seq(Line) /\ line \in Line /\ Here \in Nat /\ Here = Len(prompt) + 1
      /\ \A f \in Fields : IsSource(Append(prompt, line), Len(prompt) + 1, f) <=> f = g
  BY LineRead, Zenon
<1>2. collected' = [collected EXCEPT ![g] = Append(@, Len(prompt) + 1)]
  BY DEF Collect, Here
<1>3. collected \in [Fields -> Seq(Nat)] /\ SourcesAreCollected(prompt, collected)
  BY Zenon DEF IInv, StateTypes
<1>4. SourcesAreCollected(Append(prompt, line), collected')
  BY <1>1, <1>2, <1>3, SourceCollected, Zenon
<1>5. collected' \in [Fields -> Seq(Nat)]
  BY <1>1, <1>2, <1>3
<1>6. QED
  BY <1>4, <1>5, Zenon

LEMMA NoSectionOpened ==
  ASSUME IInv, NEW line \in Lines,
         ~(line.kind \in {"heading", "label"} /\ line.field # None /\ fence = None)
  PROVE  /\ SectionsAreCounted(Append(prompt, line), sections)
         /\ sections \in [Fields -> Nat]
<1>1. /\ prompt \in Seq(Line) /\ line \in Line
      /\ \A f \in Fields : ~Heads(Append(prompt, line), Len(prompt) + 1, f)
  <2>1. None \notin Fields
    BY NormalizerAssumption
  <2>2. QED
    BY <2>1, LineRead, Zenon
<1>2. QED
  BY <1>1, CountsKept, Zenon DEF IInv, StateTypes

LEMMA SectionOpened ==
  ASSUME IInv, NEW line \in Lines, line.field \in Fields, OpenSection(line.field)
  PROVE  /\ SectionsAreCounted(Append(prompt, line), sections')
         /\ sections' \in [Fields -> Nat]
<1>1. /\ prompt \in Seq(Line) /\ line \in Line
      /\ \A f \in Fields : Heads(Append(prompt, line), Len(prompt) + 1, f) => f = line.field
  BY LineRead, Zenon
<1>2. sections \in [Fields -> Nat] /\ SectionsAreCounted(prompt, sections)
  BY Zenon DEF IInv, StateTypes
<1>3. sections' = [sections EXCEPT ![line.field] = @ + 1]
  BY DEF OpenSection
<1>4. SectionsAreCounted(Append(prompt, line), sections')
  BY <1>1, <1>2, <1>3, SectionCounted, Zenon
<1>5. sections' \in [Fields -> Nat]
  BY <1>2, <1>3
<1>6. QED
  BY <1>4, <1>5, Zenon

LEMMA ReadFenceInv ==
  ASSUME IInv, NEW line \in Lines, prompt' = Append(prompt, line), result' = None,
         ReadFence(line)
  PROVE  IInv'
<1>1. line.kind \notin {"heading", "label", "text"}
  BY DEF ReadFence
<1>2. \A f \in Fields : ~Continues(line, current, fence, f) /\ ~Says(line, current, fence, f)
  BY <1>1 DEF Continues, Says
<1>3. SectionIsTracked(prompt', current', fence')
  BY <1>2, SectionEnds, Zenon DEF ReadFence
<1>4. prompt \in Seq(Line) /\ line \in Line /\ FenceIsTracked(prompt, fence)
  BY LineRead, Zenon DEF IInv
<1>5. FenceIsTracked(prompt', fence')
  <2>1. CASE fence = None
    BY <1>4, <2>1, FenceOpens, Zenon DEF ReadFence
  <2>2. CASE fence # None /\ Closes(line)
    <3>1. ClosesFenceOf(line, fence) /\ fence' = None
      BY <2>2, Zenon DEF ReadFence, Closes, ClosesFenceOf
    <3>2. QED
      BY <1>4, <2>2, <3>1, FenceCloses, Zenon
  <2>3. CASE fence # None /\ ~Closes(line)
    <3>1. ~ClosesFenceOf(line, fence) /\ fence' = fence
      BY <2>3, Zenon DEF ReadFence, Closes, ClosesFenceOf
    <3>2. QED
      BY <1>4, <2>3, <3>1, FenceStays, Zenon
  <2>4. QED
    BY <2>1, <2>2, <2>3, Zenon
<1>6. UNCHANGED <<collected, recognized, sections>> /\ current' \in Fields \cup {None}
  BY DEF ReadFence
<1>7. QED
  BY <1>1, <1>2, <1>3, <1>5, <1>6, LineIsIgnored, Zenon

LEMMA ReadFencedInv ==
  ASSUME IInv, NEW line \in Lines, prompt' = Append(prompt, line), result' = None,
         ReadFenced(line)
  PROVE  IInv'
<1>1. line.kind # "fence" /\ fence # None /\ current = None /\ None \notin Fields
  BY NormalizerAssumption, Zenon DEF ReadFenced, IInv, SectionIsTracked
<1>2. \A f \in Fields : ~Continues(line, current, fence, f) /\ ~Says(line, current, fence, f)
  BY <1>1, Zenon DEF Continues, Says
<1>3. SectionIsTracked(prompt', current', fence')
  BY <1>1, <1>2, SectionEnds, Zenon DEF ReadFenced
<1>4. FenceIsTracked(prompt', fence')
  BY <1>1, FenceIsKept, Zenon DEF ReadFenced
<1>5. UNCHANGED <<collected, recognized, sections>> /\ current' \in Fields \cup {None}
  BY <1>1 DEF ReadFenced
<1>6. QED
  BY <1>1, <1>2, <1>3, <1>4, <1>5, LineIsIgnored, Zenon

LEMMA ReadBlankInv ==
  ASSUME IInv, NEW line \in Lines, prompt' = Append(prompt, line), result' = None,
         ReadBlank(line)
  PROVE  IInv'
<1>1. line.kind \notin {"fence", "heading", "label", "text"}
  BY DEF ReadBlank
<1>2. \A f \in Fields : ~Continues(line, current, fence, f) /\ ~Says(line, current, fence, f)
  BY <1>1 DEF Continues, Says
<1>3. SectionIsTracked(prompt', current', fence')
  BY <1>2, SectionEnds, Zenon DEF ReadBlank
<1>4. FenceIsTracked(prompt', fence')
  BY <1>1, FenceIsKept DEF ReadBlank
<1>5. UNCHANGED <<collected, recognized, sections>> /\ current' \in Fields \cup {None}
  BY DEF ReadBlank
<1>6. QED
  BY <1>1, <1>2, <1>3, <1>4, <1>5, LineIsIgnored

LEMMA ReadHeadingInv ==
  ASSUME IInv, NEW line \in Lines, prompt' = Append(prompt, line), result' = None,
         ReadHeading(line)
  PROVE  IInv'
<1>1. /\ line.kind = "heading" /\ line.kind \notin {"fence", "label", "text"}
      /\ fence = None /\ fence' = fence /\ collected' = collected
      /\ line.text = None /\ line.field \in Fields \cup {None} /\ None \notin Fields
  BY NormalizerAssumption DEF ReadHeading, Line
<1>2. FenceIsTracked(prompt', fence')
  BY <1>1, FenceIsKept
<1>3. \A f \in Fields : /\ Continues(line, current, fence, f) <=> f = line.field
                        /\ ~Says(line, current, fence, f)
  BY <1>1 DEF Continues, Says
<1>4. CASE line.field = None
  <2>1. current' = None /\ UNCHANGED <<sections, recognized>>
    BY <1>4 DEF ReadHeading
  <2>2. SectionIsTracked(prompt', current', fence')
    BY <1>1, <1>3, <1>4, <2>1, SectionEnds, Zenon
  <2>3. QED
    BY <1>1, <1>2, <1>3, <1>4, <2>1, <2>2, LineIsIgnored
<1>5. CASE line.field # None
  <2>1. /\ line.field \in Fields /\ Recognize /\ OpenSection(line.field)
        /\ current' = line.field
    BY <1>1, <1>5 DEF ReadHeading, OpenSection
  <2>2. SectionIsTracked(prompt', current', fence')
    BY <1>1, <1>3, <2>1, SectionGoesOn, Zenon
  <2>3. SourcesAreCollected(prompt', collected') /\ collected' \in [Fields -> Seq(Nat)]
    BY <1>1, <1>3, NothingCollected, Zenon
  <2>4. SectionsAreCounted(prompt', sections') /\ sections' \in [Fields -> Nat]
    BY <2>1, SectionOpened, Zenon
  <2>5. current' \in Fields \cup {None} /\ line.kind \in {"heading", "label"}
    BY <1>1, <2>1
  <2>6. QED
    BY <1>1, <1>2, <2>1, <2>2, <2>3, <2>4, <2>5, LineIsTaken, Zenon
<1>6. QED
  BY <1>4, <1>5, Zenon

LEMMA ReadLabelInv ==
  ASSUME IInv, NEW line \in Lines, prompt' = Append(prompt, line), result' = None,
         ReadLabel(line)
  PROVE  IInv'
<1>1. /\ line.kind = "label" /\ line.kind \notin {"fence", "heading", "text"}
      /\ fence = None /\ fence' = fence /\ Recognize /\ OpenSection(line.field)
      /\ line.field \in Fields /\ current' = line.field
  BY NormalizerAssumption DEF ReadLabel, Line, OpenSection
<1>2. FenceIsTracked(prompt', fence')
  BY <1>1, FenceIsKept
<1>3. \A f \in Fields : Continues(line, current, fence, f) <=> f = line.field
  BY <1>1 DEF Continues
<1>4. \A f \in Fields : Says(line, current, fence, f) <=> f = line.field /\ line.text # None
  BY <1>1, <1>3, Zenon DEF Says
<1>5. SectionIsTracked(prompt', current', fence')
  BY <1>1, <1>3, SectionGoesOn, Zenon
<1>6. SectionsAreCounted(prompt', sections') /\ sections' \in [Fields -> Nat]
  BY <1>1, SectionOpened, Zenon
<1>7. SourcesAreCollected(prompt', collected') /\ collected' \in [Fields -> Seq(Nat)]
  <2>1. CASE line.text = None
    <3>1. collected' = collected
      BY <2>1, Zenon DEF ReadLabel
    <3>2. QED
      BY <1>4, <2>1, <3>1, NothingCollected, Zenon
  <2>2. CASE line.text # None
    <3>1. Collect(line.field)
      BY <2>2, Zenon DEF ReadLabel
    <3>2. QED
      BY <1>1, <1>4, <2>2, <3>1, LineCollected, Zenon
  <2>3. QED
    BY <2>1, <2>2, Zenon
<1>8. current' \in Fields \cup {None} /\ line.kind \in {"heading", "label"}
  BY <1>1
<1>9. QED
  BY <1>1, <1>2, <1>5, <1>6, <1>7, <1>8, LineIsTaken, Zenon

LEMMA ReadSectionLineInv ==
  ASSUME IInv, NEW line \in Lines, prompt' = Append(prompt, line), result' = None,
         ReadSectionLine(line)
  PROVE  IInv'
<1>1. /\ line.kind = "text" /\ line.kind \notin {"fence", "heading", "label"}
      /\ current # None /\ fence = None /\ UNCHANGED <<current, fence, sections>>
  BY DEF ReadSectionLine
<1>2. current \in Fields /\ current \in Fields \cup {None}
  BY <1>1 DEF IInv, StateTypes
<1>3. FenceIsTracked(prompt', fence')
  BY <1>1, FenceIsKept
<1>4. \A f \in Fields : Continues(line, current, fence, f) <=> f = current
  BY <1>1 DEF Continues
<1>5. \A f \in Fields : Says(line, current, fence, f) <=> f = current /\ line.text # None
  BY <1>2, <1>4, Zenon DEF Says
<1>6. SectionIsTracked(prompt', current', fence')
  BY <1>1, <1>2, <1>4, SectionGoesOn, Zenon
<1>7. SectionsAreCounted(prompt', sections') /\ sections' \in [Fields -> Nat]
  BY <1>1, NoSectionOpened, Zenon
<1>8. CASE line.text = None
  <2>1. UNCHANGED <<collected, recognized, sections>> /\ current' \in Fields \cup {None}
    BY <1>1, <1>2, <1>8 DEF ReadSectionLine
  <2>2. QED
    BY <1>1, <1>3, <1>5, <1>6, <1>8, <2>1, LineIsIgnored, Zenon
<1>9. CASE line.text # None
  <2>1. Collect(current) /\ Recognize
    BY <1>9, Zenon DEF ReadSectionLine
  <2>2. SourcesAreCollected(prompt', collected') /\ collected' \in [Fields -> Seq(Nat)]
    BY <1>2, <1>5, <1>9, <2>1, LineCollected, Zenon
  <2>3. QED
    BY <1>1, <1>2, <1>3, <1>5, <1>6, <1>7, <1>9, <2>1, <2>2, LineIsTaken, Zenon
<1>10. QED
  BY <1>8, <1>9, Zenon

LEMMA ReadDirectiveInv ==
  ASSUME IInv, NEW line \in Lines, prompt' = Append(prompt, line), result' = None,
         ReadDirective(line)
  PROVE  IInv'
<1>1. /\ line.kind \in {"text", "label"} /\ line.kind \notin {"fence", "heading"}
      /\ line.kind = "text" => current = None
      /\ line.kind = "label" => line.field = None
      /\ fence = None /\ UNCHANGED <<fence, sections>> /\ current' = None
  BY DEF ReadDirective
<1>2. None \notin Fields /\ current' \in Fields \cup {None}
  BY <1>1, NormalizerAssumption
<1>3. FenceIsTracked(prompt', fence')
  BY <1>1, FenceIsKept
<1>4. \A f \in Fields : ~Continues(line, current, fence, f)
  BY <1>1, <1>2 DEF Continues
<1>5. \A f \in Fields : Says(line, current, fence, f) <=> f = line.inline
  <2>1. line.inline # None => line.text # None
    BY NormalizerAssumption
  <2>2. QED
    BY <1>1, <1>2, <1>4, <2>1, Zenon DEF Says
<1>6. SectionIsTracked(prompt', current', fence')
  BY <1>1, <1>4, SectionEnds, Zenon
<1>7. ~(line.kind \in {"heading", "label"} /\ line.field # None /\ fence = None)
  BY <1>1
<1>8. CASE line.inline = None
  <2>1. UNCHANGED <<collected, recognized, sections>>
    BY <1>8 DEF ReadDirective
  <2>2. \A f \in Fields : ~Says(line, current, fence, f)
    BY <1>2, <1>5, <1>8, Zenon
  <2>3. QED
    BY <1>2, <1>3, <1>6, <1>7, <2>1, <2>2, LineIsIgnored, Zenon
<1>9. CASE line.inline # None
  <2>1. Collect(line.inline) /\ Recognize
    BY <1>9, Zenon DEF ReadDirective
  <2>2. line.inline \in Fields
    <3>1. line.inline \in InlineFields
      BY <1>9, NormalizerAssumption DEF Line
    <3>2. QED
      BY <3>1, NormalizerAssumption DEF InlineFields, Fields
  <2>3. SourcesAreCollected(prompt', collected') /\ collected' \in [Fields -> Seq(Nat)]
    BY <1>5, <2>1, <2>2, LineCollected, Zenon
  <2>4. SectionsAreCounted(prompt', sections') /\ sections' \in [Fields -> Nat]
    BY <1>1, <1>7, NoSectionOpened, Zenon
  <2>5. QED
    BY <1>2, <1>3, <1>5, <1>6, <2>1, <2>2, <2>3, <2>4, LineIsTaken, Zenon
<1>10. QED
  BY <1>8, <1>9, Zenon

LEMMA ReadLineInv ==
  ASSUME IInv, ReadLine
  PROVE  IInv'
<1>1. PICK line \in Lines :
        /\ prompt' = Append(prompt, line)
        /\ \/ ReadFence(line) \/ ReadFenced(line) \/ ReadBlank(line)
           \/ ReadHeading(line) \/ ReadLabel(line)
           \/ ReadSectionLine(line) \/ ReadDirective(line)
  BY Zenon DEF ReadLine
<1>2. result' = None
  BY DEF ReadLine
<1>3. QED
  BY <1>1, <1>2, ReadFenceInv, ReadFencedInv, ReadBlankInv, ReadHeadingInv, ReadLabelInv,
     ReadSectionLineInv, ReadDirectiveInv, Zenon

LEMMA NormalizeInv ==
  ASSUME IInv, Normalize
  PROVE  IInv'
<1>1. /\ prompt' = prompt /\ current' = current /\ fence' = fence /\ collected' = collected
      /\ sections' = sections /\ recognized' = recognized
  BY DEF Normalize, scan
<1>2. PICK e \in Explicit : result' = NormalizationResult(e)
  BY Zenon DEF Normalize
<1>3. NormalizationResult(e)' = NormalizationResult(e)
  BY <1>1 DEF NormalizationResult, DraftValue, Parsed, ParsedLines, TextOf, Conflicting,
     Distinct, Saying, Slice, Status, Conflicts, Unparsed, HasText
<1>4. ResultIsDerived'
  BY <1>2, <1>3, Zenon DEF ResultIsDerived
<1>5. StateTypes'
  BY <1>1, Zenon DEF IInv, StateTypes
<1>6. QED
  BY <1>1, <1>4, <1>5, Zenon DEF IInv

LEMMA StepInv ==
  ASSUME IInv, [Next]_vars
  PROVE  IInv'
<1>1. CASE ReadLine
  BY <1>1, ReadLineInv, Zenon
<1>2. CASE Normalize
  BY <1>2, NormalizeInv, Zenon
<1>3. CASE UNCHANGED vars
  <2>1. /\ prompt' = prompt /\ current' = current /\ fence' = fence /\ collected' = collected
        /\ sections' = sections /\ recognized' = recognized /\ result' = result
    BY <1>3 DEF vars, scan
  <2>2. \A e \in Explicit : NormalizationResult(e)' = NormalizationResult(e)
    BY <2>1 DEF NormalizationResult, DraftValue, Parsed, ParsedLines, TextOf, Conflicting,
       Distinct, Saying, Slice, Status, Conflicts, Unparsed, HasText
  <2>3. ResultIsDerived'
    BY <2>1, <2>2, Zenon DEF IInv, ResultIsDerived
  <2>4. StateTypes'
    BY <2>1, Zenon DEF IInv, StateTypes
  <2>5. QED
    BY <2>1, <2>3, <2>4, Zenon DEF IInv
<1>4. QED
  BY <1>1, <1>2, <1>3, Zenon DEF Next

\* The invariant is inductive.
THEOREM Inductive ==
  Spec => []IInv
<1>1. Init => IInv
  BY InitInv
<1>2. IInv /\ [Next]_vars => IInv'
  BY StepInv
<1>3. QED
  BY <1>1, <1>2, PTL DEF Spec

------------------------------------------------------------------------------
(* What the invariant says of the prompt and of the result.                  *)

LEMMA InvExtracts ==
  IInv => ExtractsTheLayout
BY Zenon DEF IInv, SourcesAreCollected, Increasing, ExtractsTheLayout

LEMMA InvAccounts ==
  IInv => EveryLineIsAccountedFor
<1>. SUFFICES ASSUME IInv, result # None, NEW k \in DOMAIN prompt, HasText(k)
              PROVE  k \in result.unparsed <=>
                       \A f \in Fields : k \notin Sources(prompt, f) /\ ~Heads(prompt, k, f)
  BY Zenon DEF EveryLineIsAccountedFor
<1>1. PICK e \in Explicit : result = NormalizationResult(e)
  BY Zenon DEF IInv, ResultIsDerived
<1>2. result.unparsed = Unparsed
  BY <1>1 DEF NormalizationResult
<1>3. k \in Unparsed <=> k \notin Recognizable(prompt)
  BY Zenon DEF IInv, Unparsed
<1>4. QED
  BY <1>2, <1>3, Zenon DEF Recognizable, Sources


\* A scalar has no directive: its sources are lines of its sections.
LEMMA ScalarSources ==
  ASSUME IInv, NEW f \in ScalarFields
  PROVE  /\ f \in Fields /\ f \notin ListFields
         /\ collected[f] \in Seq(Nat) /\ ToSet(collected[f]) = Sources(prompt, f)
         /\ \A k \in Sources(prompt, f) : k \in DOMAIN prompt /\ InSection(prompt, k, f)
<1>1. f \in Fields /\ f \notin ListFields /\ f \notin InlineFields /\ f # None
  BY NormalizerAssumption DEF InlineFields, Fields
<1>2. \A k \in DOMAIN prompt : prompt[k].inline # f
  <2>1. \A k \in DOMAIN prompt : prompt[k] \in Line
    BY NormalizerAssumption DEF IInv, StateTypes
  <2>2. \A line \in Line : line.inline # f
    BY <1>1 DEF Line
  <2>3. QED
    BY <2>1, <2>2, Zenon
<1>3. \A k \in Sources(prompt, f) : k \in DOMAIN prompt /\ InSection(prompt, k, f)
  BY <1>2, Zenon DEF Sources, IsSource
<1>4. collected[f] \in Seq(Nat)
  BY <1>1 DEF IInv, StateTypes
<1>5. ToSet(collected[f]) = Sources(prompt, f)
  BY <1>1, Zenon DEF IInv, SourcesAreCollected
<1>6. QED
  BY <1>1, <1>3, <1>4, <1>5, Zenon

LEMMA InvScalars ==
  IInv => ScalarIsOneSection
<1>. SUFFICES ASSUME IInv, result # None, NEW f \in ScalarFields, result.lines[f] # None
              PROVE  \E h \in DOMAIN prompt :
                       /\ Heads(prompt, h, f)
                       /\ \A k \in ToSet(result.lines[f]) :
                            k >= h /\ \A i \in (h + 1)..k : prompt[i].kind = "text"
  BY Zenon DEF ScalarIsOneSection
<1>. DEFINE spans == collected[f]
            lines == result.lines[f]
            m == spans[Len(spans)]
<1>1. /\ f \in Fields /\ f \notin ListFields /\ spans \in Seq(Nat)
      /\ ToSet(spans) = Sources(prompt, f)
      /\ \A k \in Sources(prompt, f) : k \in DOMAIN prompt /\ InSection(prompt, k, f)
  BY ScalarSources, Zenon
<1>2. PICK e \in Explicit : result = NormalizationResult(e)
  BY Zenon DEF IInv, ResultIsDerived
<1>3. f \in Parsed /\ lines = ParsedLines(f)
  BY <1>1, <1>2 DEF NormalizationResult
<1>4. 1 \in DOMAIN spans /\ Len(spans) \in DOMAIN spans
  BY <1>1, <1>3 DEF Parsed
<1>5. \A x \in DOMAIN spans : InSection(prompt, spans[x], f) /\ spans[x] \in DOMAIN prompt
  <2>1. \A x \in DOMAIN spans : spans[x] \in ToSet(spans)
    BY Zenon DEF ToSet
  <2>2. QED
    BY <1>1, <2>1, Zenon
<1>6. DOMAIN prompt = 1..Len(prompt) /\ Len(prompt) \in Nat
  BY DEF IInv, StateTypes
<1>7. PICK h \in 1..spans[1] :
        Heads(prompt, h, f) /\ \A i \in (h + 1)..spans[1] : prompt[i].kind = "text"
  BY <1>4, <1>5, Zenon DEF InSection
<1>8. PICK g \in 1..m :
        Heads(prompt, g, f) /\ \A i \in (g + 1)..m : prompt[i].kind = "text"
  BY <1>4, <1>5, Zenon DEF InSection
<1>9. h \in DOMAIN prompt /\ g \in DOMAIN prompt /\ spans[1] \in Nat /\ m \in Nat
  BY <1>4, <1>5, <1>6, <1>7, <1>8
<1>10. lines = <<spans[1]>> \/ (lines = Slice(spans) /\ ~(sections[f] > 1))
  BY <1>1, <1>3, Zenon DEF ParsedLines
<1>11. CASE lines = <<spans[1]>>
  <2>1. ToSet(lines) = {spans[1]}
    BY <1>11 DEF ToSet
  <2>2. spans[1] >= h
    BY <1>7, <1>9
  <2>3. \A k \in ToSet(lines) : k = spans[1]
    BY <2>1
  <2>4. QED
    BY <1>7, <1>9, <2>2, <2>3, Zenon
<1>12. CASE lines = Slice(spans) /\ ~(sections[f] > 1)
  <2>1. sections[f] \in Nat
    BY <1>1 DEF IInv, StateTypes
  <2>2. sections[f] = 0 \/ sections[f] = 1
    BY <1>12, <2>1
  <2>3. h = g
    BY <1>1, <1>7, <1>8, <1>9, <2>2, Zenon DEF IInv, SectionsAreCounted
  <2>4. \A k \in ToSet(lines) : k \in spans[1]..m
    <3>1. lines = [k \in 1..(m - spans[1] + 1) |-> spans[1] + k - 1]
      BY <1>12 DEF Slice, Last
    <3>2. \A x \in DOMAIN lines : lines[x] \in spans[1]..m
      <4>. HIDE DEF lines, m, spans
      <4>1. QED
        BY <1>9, <3>1
    <3>3. QED
      BY <3>2, Zenon DEF ToSet
  <2>5. \A k \in spans[1]..m : k >= h /\ \A i \in (h + 1)..k : i \in (g + 1)..m
    BY <1>7, <1>9, <2>3
  <2>6. QED
    BY <1>7, <1>8, <1>9, <2>4, <2>5, Zenon
<1>13. QED
  BY <1>10, <1>11, <1>12, Zenon

LEMMA TwoAreMoreThanOne ==
  ASSUME NEW S, IsFiniteSet(S), NEW x \in S, NEW y \in S, x # y
  PROVE  Cardinality(S) > 1
<1>1. IsFiniteSet({x, y}) /\ Cardinality({x, y}) = 2
  <2>1. IsFiniteSet({y}) /\ Cardinality({y}) = 1
    BY FS_Singleton, Zenon
  <2>2. x \notin {y} /\ {y} \cup {x} = {x, y}
    BY Zenon
  <2>3. IsFiniteSet({y} \cup {x}) /\ Cardinality({y} \cup {x}) = 1 + 1
    BY <2>1, <2>2, FS_AddElement
  <2>4. QED
    BY <2>2, <2>3
<1>2. {x, y} \subseteq S
  BY Zenon
<1>3. Cardinality({x, y}) <= Cardinality(S)
  BY <1>2, FS_Subset, Zenon
<1>4. Cardinality(S) \in Nat
  BY FS_CardinalityType, Zenon
<1>5. QED
  BY <1>1, <1>3, <1>4

LEMMA InvContradictions ==
  IInv => ContradictionsStayOpen
<1>. SUFFICES ASSUME IInv, result # None, NEW f \in ScalarFields,
                     NEW i \in Sources(prompt, f), NEW j \in Sources(prompt, f),
                     NEW h \in DOMAIN prompt,
                     i < h, h <= j, Heads(prompt, h, f), prompt[i].text # prompt[j].text
              PROVE  IF f \in DOMAIN result.explicit
                       THEN result.draft[f] = result.explicit[f]
                       ELSE result.draft[f] = None /\ result.status[f] = "unknown"
  BY Zenon DEF ContradictionsStayOpen
<1>. DEFINE spans == collected[f]
<1>1. /\ f \in Fields /\ f \notin ListFields /\ spans \in Seq(Nat)
      /\ ToSet(spans) = Sources(prompt, f)
      /\ \A k \in Sources(prompt, f) : k \in DOMAIN prompt /\ InSection(prompt, k, f)
  BY ScalarSources, Zenon
<1>2. DOMAIN prompt = 1..Len(prompt) /\ Len(prompt) \in Nat
  BY DEF IInv, StateTypes
<1>3. sections[f] > 1
  <2>1. PICK g \in 1..i : Heads(prompt, g, f)
    BY <1>1, Zenon DEF InSection
  <2>2. g \in DOMAIN prompt /\ g # h
    BY <1>1, <1>2, <2>1
  <2>3. sections[f] # 0 /\ sections[f] # 1
    BY <1>1, <2>1, <2>2, Zenon DEF IInv, SectionsAreCounted
  <2>4. sections[f] \in Nat
    BY <1>1 DEF IInv, StateTypes
  <2>5. QED
    BY <2>3, <2>4
<1>4. Cardinality(Distinct(spans)) > 1
  <2>1. PICK x \in DOMAIN spans, y \in DOMAIN spans : spans[x] = i /\ spans[y] = j
    <3>1. i \in ToSet(spans) /\ j \in ToSet(spans)
      BY <1>1, Zenon
    <3>2. QED
      BY <3>1, Zenon DEF ToSet
  <2>2. Distinct(spans) = {prompt[spans[k]].text : k \in DOMAIN spans}
    BY DEF Distinct, Saying, ToSet
  <2>3. prompt[i].text \in Distinct(spans) /\ prompt[j].text \in Distinct(spans)
    BY <2>1, <2>2
  <2>4. IsFiniteSet(Distinct(spans))
    <3>1. DOMAIN spans = 1..Len(spans) /\ Len(spans) \in Nat
      BY <1>1
    <3>2. IsFiniteSet(DOMAIN spans)
      BY <3>1, FS_Interval
    <3>3. Saying(spans) \in Surjection(DOMAIN spans, Distinct(spans))
      BY <2>2 DEF Saying, Surjection
    <3>4. QED
      BY <3>2, <3>3, FS_Surjection, Zenon
  <2>5. QED
    BY <2>3, <2>4, TwoAreMoreThanOne, Zenon
<1>5. ParsedLines(f) = None
  BY <1>1, <1>3, <1>4, Zenon DEF ParsedLines, Conflicting
<1>6. f \in Parsed
  <2>1. spans # <<>>
    <3>1. i \in ToSet(spans)
      BY <1>1, Zenon
    <3>2. QED
      BY <3>1 DEF ToSet
  <2>2. QED
    BY <1>1, <2>1, Zenon DEF Parsed
<1>7. PICK e \in Explicit : result = NormalizationResult(e)
  BY Zenon DEF IInv, ResultIsDerived
<1>8. /\ result.explicit = e /\ result.draft[f] = DraftValue(f, e)
      /\ result.status[f] = Status(f, e)
  BY <1>1, <1>7 DEF NormalizationResult
<1>9. QED
  BY <1>5, <1>6, <1>8, Zenon DEF DraftValue, Status, TextOf

------------------------------------------------------------------------------
\* _extract_prompt gives every field exactly its sources, in their order: no
\* line of a fence, none after the end of a section, and all of a section's.
THEOREM LayoutIsExtracted ==
  Spec => []ExtractsTheLayout
BY Inductive, InvExtracts, PTL

\* No line with text is lost: normalize reports as not parsed exactly the lines
\* that are the source of no field and head no section.
THEOREM EveryLineHasItsPlace ==
  Spec => []EveryLineIsAccountedFor
BY Inductive, InvAccounts, PTL

\* raw_prompt[start:end] of a scalar crosses no blank line, fence or heading.
THEOREM ScalarsAreOfOneSection ==
  Spec => []ScalarIsOneSection
BY Inductive, InvScalars, PTL

\* Two sections that say different things of a scalar decide nothing: normalize
\* leaves the field open unless the caller states it.
THEOREM ContradictionsAreNotDecided ==
  Spec => []ContradictionsStayOpen
BY Inductive, InvContradictions, PTL
=============================================================================
