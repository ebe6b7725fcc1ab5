------------------------- MODULE PilotBackendProofs -------------------------
(***************************************************************************)
(* Theorems about AnswerParsing, for texts of any length, about            *)
(* PilotBackend, for any team, any texts and any reconfigurations, and     *)
(* about RuntimeAdapter, which executes a backend, for any of them.        *)
(***************************************************************************)
EXTENDS PilotBackend, RuntimeAdapter, FiniteSetTheorems, SequenceTheorems,
        WellFoundedInduction, TLAPS

------------------------------------------------------------------------------
(* Min and Max of the community modules, from the well-foundedness of the   *)
(* naturals.                                                                *)

\* A set of naturals that is not empty has a least element, and Min is it.
LEMMA MinIsLeast ==
  ASSUME NEW S, S \subseteq Nat, S # {}
  PROVE  Min(S) \in S /\ \A y \in S : Min(S) <= y
<1>1. PICK x \in S : \A y \in S : <<y, x>> \notin OpToRel(<, Nat)
  BY NatLessThanWellFounded, WFMin, Zenon
<1>2. \A y \in S : ~(y < x)
  <2>1. ASSUME NEW y \in S, y < x PROVE <<y, x>> \in OpToRel(<, Nat)
    <3>1. <<y, x>> \in Nat \X Nat /\ <<y, x>>[1] < <<y, x>>[2]
      BY <2>1
    <3>2. QED
      BY <3>1, Zenon DEF OpToRel
  <2>2. QED
    BY <1>1, <2>1, Zenon
<1>3. \A y \in S : x <= y
  BY <1>2
<1>4. QED
  BY <1>3 DEF Min

\* A bounded set of naturals that is not empty has a greatest element.
LEMMA MaxIsGreatest ==
  ASSUME NEW n \in Nat, NEW S, S \subseteq 0..n, S # {}
  PROVE  Max(S) \in S /\ \A y \in S : y <= Max(S)
<1> DEFINE T == {n - x : x \in S}
<1>1. T \subseteq Nat /\ T # {}
  <2>1. \A x \in S : n - x \in Nat
    OBVIOUS
  <2>2. QED
    BY <2>1
<1>2. Min(T) \in T /\ \A y \in T : Min(T) <= y
  BY <1>1, MinIsLeast
<1>3. PICK x \in S : Min(T) = n - x
  BY <1>2
<1>4. \A y \in S : y <= x
  <2>1. ASSUME NEW y \in S PROVE y <= x
    <3>1. n - y \in T
      OBVIOUS
    <3>2. n - x <= n - y
      BY <1>2, <1>3, <3>1
    <3>3. QED
      BY <3>2
  <2>2. QED
    BY <2>1
<1>5. QED
  BY <1>4 DEF Max

------------------------------------------------------------------------------
(* What a text votes for.                                                   *)

LEMMA TokenShape ==
  ASSUME NEW token \in Tokens, token[1] = "Answer"
  PROVE  /\ token[2] \in Alphabet
         /\ token = Answer(token[2])
<1>1. PICK x \in Alphabet : token = Answer(x)
  BY DEF Tokens, Answer
<1>2. QED
  BY <1>1 DEF Answer

LEMMA IsDark ==
  ASSUME NEW text, NEW n
  PROVE  n \in Dark(text) <=> n \in DOMAIN text /\ ~Blank(text[n])
BY DEF Dark

\* The first and the last token that is not blank.
LEMMA DarkEnds ==
  ASSUME NEW text \in Seq(Tokens), Dark(text) # {}
  PROVE  /\ Min(Dark(text)) \in Dark(text) /\ Max(Dark(text)) \in Dark(text)
         /\ \A n \in Dark(text) : Min(Dark(text)) <= n /\ n <= Max(Dark(text))
         /\ Dark(text) \subseteq 1..Len(text)
<1>1. Dark(text) \subseteq 1..Len(text) /\ Len(text) \in Nat
  BY DEF Dark
<1>2. Dark(text) \subseteq Nat /\ Dark(text) \subseteq 0..Len(text)
  BY <1>1
<1>3. QED
  BY <1>1, <1>2, MinIsLeast, MaxIsGreatest

LEMMA Stripped ==
  ASSUME NEW text \in Seq(Tokens), Dark(text) # {}
  PROVE  LET a == Min(Dark(text))
             b == Max(Dark(text))
         IN  /\ Strip(text) \in Seq(Tokens)
             /\ Len(Strip(text)) = b - a + 1
             /\ \A i \in 1..(b - a + 1) : Strip(text)[i] = text[a + i - 1]
<1> DEFINE a == Min(Dark(text))
           b == Max(Dark(text))
<1>1. a \in 1..Len(text) /\ b \in 1..Len(text) /\ a <= b /\ Len(text) \in Nat
  BY DarkEnds
<1>2. \A i \in a..b : text[i] \in Tokens
  BY <1>1
<1>3. Strip(text) = SubSeq(text, a, b)
  BY DEF Strip
<1> HIDE DEF a, b
<1>4. /\ SubSeq(text, a, b) \in Seq(Tokens)
      /\ Len(SubSeq(text, a, b)) = b - a + 1
      /\ \A i \in 1..(b - a + 1) : SubSeq(text, a, b)[i] = text[a + i - 1]
  BY <1>1, <1>2, SubSeqProperties
<1>5. QED
  BY <1>3, <1>4 DEF a, b

\* A stripped text ends in an answer exactly when its last token that is not
\* blank is one, and a line break or nothing but blanks stands before it.
LEMMA StrippedEnd ==
  ASSUME NEW text \in Seq(Tokens)
  PROVE  LET a == Min(Dark(text))
             b == Max(Dark(text))
         IN  /\ EndsInAnswer(Strip(text)) <=>
                  /\ Dark(text) # {}
                  /\ text[b][1] = "Answer"
                  /\ b > a => text[b - 1][1] = "break"
             /\ EndsInAnswer(Strip(text)) => TerminalAnswer(Strip(text)) = text[b][2]
<1> DEFINE a == Min(Dark(text))
           b == Max(Dark(text))
           s == Strip(text)
<1>1. CASE Dark(text) = {}
  <2>1. s = <<>>
    BY <1>1 DEF Strip
  <2>2. Dark(s) = {}
    BY <2>1 DEF Dark
  <2>3. ~EndsInAnswer(s)
    BY <2>2 DEF EndsInAnswer
  <2>4. QED
    BY <1>1, <2>3
<1>2. CASE Dark(text) # {}
  <2> DEFINE n == b - a + 1
  <2>1. /\ a \in Dark(text) /\ b \in Dark(text) /\ a <= b
        /\ a \in 1..Len(text) /\ b \in 1..Len(text)
    BY <1>2, DarkEnds
  <2>2. s \in Seq(Tokens) /\ Len(s) = n /\ \A i \in 1..n : s[i] = text[a + i - 1]
    BY <1>2, Stripped
  <2>3. n \in Nat /\ n >= 1 /\ a + n - 1 = b
    BY <2>1
  <2>4. s[n] = text[b] /\ DOMAIN s = 1..n
    BY <2>2, <2>3
  <2>5. n \in Dark(s)
    <3>1. ~Blank(text[b])
      BY <2>1, IsDark
    <3>2. n \in DOMAIN s /\ ~Blank(s[n])
      BY <2>3, <2>4, <3>1
    <3>3. QED
      BY <3>2, IsDark
  <2>6. Max(Dark(s)) = n
    <3>1. Max(Dark(s)) \in Dark(s) /\ \A m \in Dark(s) : m <= Max(Dark(s))
      BY <2>2, <2>5, DarkEnds
    <3>2. Dark(s) \subseteq 1..n
      BY <2>4 DEF Dark
    <3>3. QED
      BY <2>3, <2>5, <3>1, <3>2
  <2>7. Places(After(s, n), "break") = {}
    <3>1. After(s, n) = <<>>
      BY <2>2, <2>3, SubSeqEmpty DEF After
    <3>2. QED
      BY <3>1 DEF Places
  <2>8. n > 1 <=> b > a
    BY <2>1
  <2>9. n > 1 => s[n - 1] = text[b - 1]
    BY <2>1, <2>2
  <2>10. EndsInAnswer(s) <=>
           text[b][1] = "Answer" /\ (b > a => text[b - 1][1] = "break")
    BY <2>4, <2>5, <2>6, <2>7, <2>8, <2>9 DEF EndsInAnswer
  <2>11. EndsInAnswer(s) => TerminalAnswer(s) = text[b][2]
    BY <2>4, <2>6 DEF TerminalAnswer
  <2>12. QED
    BY <1>2, <2>10, <2>11
<1>3. QED
  BY <1>1, <1>2

------------------------------------------------------------------------------
\* What it takes to be the only thinking block of a text.
LEMMA BlockShape ==
  ASSUME NEW text \in Seq(Tokens)
  PROVE  ThinkingBlock(text) <=>
           \E o \in Opens(text), c \in Closes(text) :
             /\ Opens(text) = {o} /\ Closes(text) = {c}
             /\ o < c /\ Dark(text) \cap 1..(o - 1) = {}
<1>1. /\ Opens(text) \subseteq 1..Len(text) /\ Closes(text) \subseteq 1..Len(text)
      /\ Len(text) \in Nat
  BY DEF Opens, Closes, Places
<1>2. IsFiniteSet(Opens(text)) /\ IsFiniteSet(Closes(text))
  <2>1. IsFiniteSet(1..Len(text))
    BY <1>1, FS_Interval
  <2>2. QED
    BY <1>1, <2>1, FS_Subset, Zenon
<1>3. Opens(text) \subseteq Dark(text) /\ Closes(text) \subseteq Dark(text)
  BY DEF Opens, Closes, Places, Dark, Blank
<1>4. ASSUME NEW n PROVE Min({n}) = n
  BY DEF Min
<1>5. ASSUME ThinkingBlock(text)
      PROVE  \E o \in Opens(text), c \in Closes(text) :
               /\ Opens(text) = {o} /\ Closes(text) = {c}
               /\ o < c /\ Dark(text) \cap 1..(o - 1) = {}
  <2>1. PICK o, c : Opens(text) = {o} /\ Closes(text) = {c}
    <3>1. Cardinality(Opens(text)) = 1 /\ Cardinality(Closes(text)) = 1
      BY <1>5 DEF ThinkingBlock
    <3>2. \E o : Opens(text) = {o}
      BY <1>2, <3>1, FS_Singleton, Zenon
    <3>3. \E c : Closes(text) = {c}
      BY <1>2, <3>1, FS_Singleton, Zenon
    <3>4. QED
      BY <3>2, <3>3
  <2>2. o = Min(Dark(text)) /\ o < c
    BY <1>4, <1>5, <2>1 DEF ThinkingBlock
  <2>3. Dark(text) # {}
    BY <1>3, <2>1
  <2>4. /\ \A n \in Dark(text) : o <= n
        /\ Dark(text) \subseteq 1..Len(text) /\ o \in Nat
    BY <1>1, <2>1, <2>2, <2>3, DarkEnds
  <2>5. Dark(text) \cap 1..(o - 1) = {}
    BY <2>4
  <2>6. QED
    BY <2>1, <2>2, <2>5
<1>6. ASSUME NEW o \in Opens(text), NEW c \in Closes(text),
             Opens(text) = {o}, Closes(text) = {c}, o < c,
             Dark(text) \cap 1..(o - 1) = {}
      PROVE  ThinkingBlock(text)
  <2>1. Cardinality(Opens(text)) = 1 /\ Cardinality(Closes(text)) = 1
    BY <1>6, FS_Singleton
  <2>2. o \in Dark(text) /\ o \in Nat
    BY <1>1, <1>3, <1>6
  <2>3. Min(Dark(text)) \in Dark(text) /\ Min(Dark(text)) <= o /\ Min(Dark(text)) \in 1..Len(text)
    BY <2>2, DarkEnds
  <2>4. Min(Dark(text)) = o
    BY <1>6, <2>2, <2>3
  <2>5. QED
    BY <1>4, <1>6, <2>1, <2>4 DEF ThinkingBlock
<1>7. QED
  BY <1>5, <1>6

\* The part of a text after one of its places.
LEMMA Suffix ==
  ASSUME NEW text \in Seq(Tokens), NEW c \in 1..Len(text)
  PROVE  LET u == After(text, c) IN
         /\ u \in Seq(Tokens)
         /\ \A i \in Dark(u) : c + i \in Dark(text) /\ i \in 1..(Len(text) - c)
         /\ \A n \in Dark(text) : n > c => n - c \in Dark(u)
         /\ \A i \in 1..(Len(text) - c) : u[i] = text[c + i]
<1> DEFINE u == After(text, c)
           m == Len(text)
<1>1. m \in Nat /\ c \in Nat /\ c <= m /\ DOMAIN text = 1..m
  OBVIOUS
<1>2. \A i \in (c + 1)..m : text[i] \in Tokens
  BY <1>1
<1> HIDE DEF m
<1>3. u = SubSeq(text, c + 1, m)
  BY DEF After, m
<1>4. /\ u \in Seq(Tokens) /\ Len(u) = m - c /\ DOMAIN u = 1..(m - c)
      /\ \A i \in 1..(m - c) : u[i] = text[c + i]
  <2>1. /\ u \in Seq(Tokens)
        /\ Len(u) = IF c + 1 <= m THEN m - (c + 1) + 1 ELSE 0
        /\ \A i \in 1..(m - (c + 1) + 1) : u[i] = text[c + 1 + i - 1]
    BY <1>1, <1>2, <1>3, SubSeqProperties
  <2>2. m - (c + 1) + 1 = m - c /\ Len(u) = m - c
    BY <1>1, <2>1
  <2>3. DOMAIN u = 1..(m - c)
    BY <2>1, <2>2
  <2>4. ASSUME NEW i \in 1..(m - c) PROVE u[i] = text[c + i]
    <3>1. c + 1 + i - 1 = c + i
      BY <1>1
    <3>2. u[i] = text[c + 1 + i - 1]
      BY <2>1, <2>2
    <3>3. QED
      BY <3>1, <3>2
  <2>5. QED
    BY <2>1, <2>2, <2>3, <2>4
<1> HIDE DEF u
<1>5. ASSUME NEW i \in Dark(u) PROVE c + i \in Dark(text) /\ i \in 1..(m - c)
  <2>1. i \in 1..(m - c) /\ ~Blank(u[i])
    BY <1>4, <1>5, IsDark
  <2>2. c + i \in 1..m /\ u[i] = text[c + i]
    BY <1>1, <1>4, <2>1
  <2>3. QED
    BY <1>1, <2>1, <2>2, IsDark
<1>6. ASSUME NEW n \in Dark(text), n > c PROVE n - c \in Dark(u)
  <2>1. n \in 1..m /\ ~Blank(text[n])
    BY <1>1, <1>6, IsDark
  <2>2. n - c \in 1..(m - c) /\ u[n - c] = text[n]
    BY <1>1, <1>4, <1>6, <2>1
  <2>3. QED
    BY <1>4, <2>1, <2>2, IsDark
<1>7. QED
  BY <1>4, <1>5, <1>6 DEF u, m

\* What stands before the last token of a text that is not blank.
AnswerLine(text) ==
  LET n == Max(Dark(text)) IN
  \/ n > 1 /\ text[n - 1][1] = "break"
  \/ \A m \in 1..(n - 1) : Blank(text[m])
  \/ \E c \in Closes(text) : \A m \in (c + 1)..(n - 1) : Blank(text[m])

\* Without markers, the last line starts at the first token that is not blank
\* or after a line break.
LEMMA LineWithoutMarkers ==
  ASSUME NEW text \in Seq(Tokens), Dark(text) # {}, Closes(text) = {}
  PROVE  LET a == Min(Dark(text))
             b == Max(Dark(text))
         IN  (b > a => text[b - 1][1] = "break") <=> AnswerLine(text)
<1> DEFINE a == Min(Dark(text))
           b == Max(Dark(text))
<1>1. /\ a \in Dark(text) /\ b \in Dark(text) /\ Dark(text) \subseteq 1..Len(text)
      /\ \A n \in Dark(text) : a <= n /\ n <= b
      /\ Len(text) \in Nat /\ DOMAIN text = 1..Len(text)
  BY DarkEnds
<1>2. AnswerLine(text) <=>
        \/ b > 1 /\ text[b - 1][1] = "break"
        \/ \A m \in 1..(b - 1) : Blank(text[m])
  BY DEF AnswerLine
<1> HIDE DEF a, b
<1>3. a \in 1..Len(text) /\ b \in 1..Len(text) /\ a <= b
  BY <1>1
<1>4. CASE b > a
  <2>1. b > 1 /\ a \in 1..(b - 1)
    BY <1>3, <1>4
  <2>2. ~Blank(text[a])
    BY <1>1, IsDark
  <2>3. QED
    BY <1>2, <1>4, <2>1, <2>2 DEF a, b
<1>5. CASE ~(b > a)
  <2>1. ASSUME NEW m \in 1..(b - 1) PROVE Blank(text[m])
    <3>1. m \in DOMAIN text /\ ~(a <= m)
      BY <1>1, <1>3, <1>5
    <3>2. m \notin Dark(text)
      BY <1>1, <3>1
    <3>3. QED
      BY <3>1, <3>2, IsDark
  <2>2. QED
    BY <1>2, <1>5, <2>1 DEF a, b
<1>6. QED
  BY <1>4, <1>5

\* With one closing marker, and something after it, so does the last line of
\* what follows the marker.
LEMMA LineAfterMarker ==
  ASSUME NEW text \in Seq(Tokens), NEW c \in Closes(text), Closes(text) = {c},
         Max(Dark(text)) > c
  PROVE  LET u == After(text, c)
             a == Min(Dark(u))
             b == Max(Dark(u))
         IN  /\ u \in Seq(Tokens) /\ Dark(u) # {}
             /\ u[b] = text[Max(Dark(text))]
             /\ (b > a => u[b - 1][1] = "break") <=> AnswerLine(text)
<1> DEFINE u == After(text, c)
           a == Min(Dark(u))
           b == Max(Dark(u))
           n == Max(Dark(text))
           m == Len(text)
<1>1. /\ m \in Nat /\ DOMAIN text = 1..m
      /\ c \in 1..m /\ ~Blank(text[c]) /\ c \in Dark(text)
  BY DEF Closes, Places, Dark, Blank
<1>2. /\ n \in Dark(text) /\ n \in 1..m
      /\ \A j \in Dark(text) : j <= n
  BY <1>1, DarkEnds
<1>3. AnswerLine(text) <=>
        \/ n > 1 /\ text[n - 1][1] = "break"
        \/ \A j \in 1..(n - 1) : Blank(text[j])
        \/ \A j \in (c + 1)..(n - 1) : Blank(text[j])
  BY DEF AnswerLine
<1>4. n > c
  OBVIOUS
<1>5. /\ u \in Seq(Tokens)
      /\ \A i \in Dark(u) : c + i \in Dark(text) /\ i \in 1..(m - c)
      /\ \A j \in Dark(text) : j > c => j - c \in Dark(u)
      /\ \A i \in 1..(m - c) : u[i] = text[c + i]
  BY <1>1, Suffix
<1> HIDE DEF u, n, m
<1>6. n - c \in Dark(u)
  BY <1>2, <1>4, <1>5
<1>7. /\ a \in Dark(u) /\ b \in Dark(u)
      /\ \A i \in Dark(u) : a <= i /\ i <= b
  BY <1>5, <1>6, DarkEnds
<1> HIDE DEF a, b
<1>8. a \in 1..(m - c) /\ b \in 1..(m - c) /\ a <= b
  BY <1>5, <1>7
<1>9. b = n - c
  <2>1. n - c <= b
    BY <1>6, <1>7
  <2>2. c + b <= n
    BY <1>2, <1>5, <1>7
  <2>3. QED
    BY <1>1, <1>2, <1>8, <2>1, <2>2
<1>10. u[b] = text[n]
  <2>1. c + b = n
    BY <1>1, <1>2, <1>9
  <2>2. QED
    BY <1>5, <1>8, <2>1
<1>11. n > 1 /\ c \in 1..(n - 1)
  BY <1>1, <1>2, <1>4
<1>12. (b > a => u[b - 1][1] = "break") <=> AnswerLine(text)
  <2>1. CASE b > a
    <3>1. c + (b - 1) = n - 1 /\ b - 1 \in 1..(m - c)
      BY <1>1, <1>2, <1>8, <1>9, <2>1
    <3>2. u[b - 1] = text[n - 1]
      BY <1>5, <3>1
    <3>3. c + a \in (c + 1)..(n - 1)
      BY <1>1, <1>2, <1>8, <1>9, <2>1
    <3>4. ~Blank(text[c + a])
      BY <1>5, <1>7, IsDark
    <3>5. QED
      BY <1>1, <1>3, <1>11, <2>1, <3>2, <3>3, <3>4
  <2>2. CASE ~(b > a)
    <3>1. ASSUME NEW j \in (c + 1)..(n - 1) PROVE Blank(text[j])
      <4>1. j \in 1..m /\ j > c /\ ~(a <= j - c)
        BY <1>1, <1>2, <1>8, <1>9, <2>2
      <4>2. j \notin Dark(text)
        BY <1>5, <1>7, <4>1
      <4>3. QED
        BY <1>1, <4>1, <4>2, IsDark
    <3>2. QED
      BY <1>3, <2>2, <3>1
  <2>3. QED
    BY <2>1, <2>2
<1>13. QED
  BY <1>5, <1>6, <1>10, <1>12 DEF a, b, n, u

------------------------------------------------------------------------------
\* A token that reads as the answer x.
LEMMA ReadsAs ==
  ASSUME NEW token \in Tokens, NEW x \in Alphabet
  PROVE  token = Answer(x) <=> token[1] = "Answer" /\ token[2] = x
BY TokenShape DEF Answer

\* A letter is an option exactly when its index is below the number of options.
LEMMA OptionsAreInRange ==
  ASSUME NEW x \in Alphabet
  PROVE  InRange(x) <=> x \in Letters
BY ParsingAssumption DEF InRange, Letters

LEMMA ParsedAs ==
  ASSUME NEW text, NEW x \in Alphabet
  PROVE  ParsedAnswer(text) = x <=>
           /\ StructureValid(text) /\ EndsInAnswer(VisibleContent(text))
           /\ TerminalAnswer(VisibleContent(text)) = x
           /\ x \in Letters
BY ParsingAssumption, OptionsAreInRange DEF ParsedAnswer

(***************************************************************************)
(* split_model_text followed by parse_terminal_answer makes a vote of a    *)
(* text for an option exactly when the last line of the text is that       *)
(* answer line, and the text has no thinking block or a single one before  *)
(* anything else.                                                          *)
(***************************************************************************)
THEOREM OnlyTheLastLineVotes ==
  ASSUME NEW text \in Seq(Tokens)
  PROVE  VotesForItsLastLine(text, ParsedAnswer(text))
<1> DEFINE n == Max(Dark(text))
           NoMarkers == Opens(text) \cup Closes(text) = {}
<1>1. SUFFICES ASSUME NEW x \in Alphabet
               PROVE  ParsedAnswer(text) = x <=>
                        /\ x \in Letters
                        /\ Dark(text) # {} /\ text[n] = Answer(x)
                        /\ NoMarkers \/ ThinkingBlock(text)
                        /\ AnswerLine(text)
  BY BlockShape DEF VotesForItsLastLine, AnswerLine
<1>2. Dark(text) # {} => n \in Dark(text) /\ text[n] \in Tokens
  <2>1. ASSUME Dark(text) # {} PROVE n \in Dark(text) /\ n \in 1..Len(text)
    BY <2>1, DarkEnds
  <2>2. QED
    BY <2>1
<1>3. CASE NoMarkers
  <2>1. ~ThinkingBlock(text) /\ StructureValid(text) /\ Closes(text) = {}
    BY <1>3, BlockShape DEF StructureValid
  <2>2. VisibleContent(text) = Strip(text)
    BY <2>1 DEF VisibleContent
  <2>3. CASE Dark(text) = {}
    BY <2>2, <2>3, StrippedEnd, ParsedAs
  <2>4. CASE Dark(text) # {}
    <3>1. /\ EndsInAnswer(Strip(text)) <=> text[n][1] = "Answer" /\ AnswerLine(text)
          /\ EndsInAnswer(Strip(text)) => TerminalAnswer(Strip(text)) = text[n][2]
      BY <2>1, <2>4, StrippedEnd, LineWithoutMarkers
    <3>2. text[n] = Answer(x) <=> text[n][1] = "Answer" /\ text[n][2] = x
      BY <1>2, <2>4, ReadsAs
    <3>3. QED
      BY <1>3, <2>1, <2>2, <2>4, <3>1, <3>2, ParsedAs
  <2>5. QED
    BY <2>3, <2>4
<1>4. CASE ThinkingBlock(text)
  <2>1. PICK c \in Closes(text) : Closes(text) = {c}
    BY <1>4, BlockShape
  <2> DEFINE u == After(text, c)
  <2>2. VisibleContent(text) = Strip(u) /\ StructureValid(text)
    <3>1. Min(Closes(text)) = c
      BY <2>1 DEF Min
    <3>2. QED
      BY <1>4, <3>1 DEF VisibleContent, StructureValid
  <2>3. /\ c \in Dark(text) /\ c \in 1..Len(text) /\ text[c][1] = "close"
        /\ n \in Dark(text) /\ n \in 1..Len(text) /\ c <= n
    <3>1. c \in Dark(text) /\ c \in 1..Len(text) /\ text[c][1] = "close"
      BY DEF Closes, Places, Dark, Blank
    <3>2. QED
      BY <3>1, DarkEnds
  <2> HIDE DEF u, n
  <2>4. CASE n > c
    <3>1. /\ u \in Seq(Tokens) /\ Dark(u) # {}
          /\ u[Max(Dark(u))] = text[n]
          /\ (Max(Dark(u)) > Min(Dark(u)) => u[Max(Dark(u)) - 1][1] = "break")
               <=> AnswerLine(text)
      BY <2>1, <2>4, LineAfterMarker DEF u, n
    <3>2. /\ EndsInAnswer(Strip(u)) <=> text[n][1] = "Answer" /\ AnswerLine(text)
          /\ EndsInAnswer(Strip(u)) => TerminalAnswer(Strip(u)) = text[n][2]
      BY <3>1, StrippedEnd
    <3>3. text[n] = Answer(x) <=> text[n][1] = "Answer" /\ text[n][2] = x
      BY <1>2, <2>3, ReadsAs
    <3>4. QED
      BY <1>4, <2>2, <2>3, <3>2, <3>3, ParsedAs
  <2>5. CASE ~(n > c)
    <3>1. n = c
      BY <2>3, <2>5
    <3>2. text[n] # Answer(x)
      BY <2>3, <3>1 DEF Answer
    <3>3. Dark(u) = {}
      <4>1. ASSUME NEW i \in Dark(u) PROVE FALSE
        <5>1. c \in 1..Len(text)
          BY <2>3
        <5>2. c + i \in Dark(text) /\ i \in 1..(Len(text) - c)
          BY <5>1, Suffix DEF u
        <5>3. c + i <= n
          BY <5>2, DarkEnds DEF n
        <5>4. i >= 1 /\ c \in Nat
          BY <5>1, <5>2
        <5>5. QED
          BY <3>1, <5>2, <5>3, <5>4
      <4>2. QED
        BY <4>1
    <3>4. u \in Seq(Tokens)
      BY <2>3, Suffix DEF u
    <3>5. ~EndsInAnswer(Strip(u))
      BY <3>3, <3>4, StrippedEnd
    <3>6. QED
      BY <2>2, <3>2, <3>5, ParsedAs
  <2>6. QED
    BY <2>4, <2>5
<1>5. CASE ~NoMarkers /\ ~ThinkingBlock(text)
  BY <1>5, ParsedAs DEF StructureValid
<1>6. QED
  BY <1>3, <1>4, <1>5

------------------------------------------------------------------------------
(* The inductive invariant of PilotBackend.                                 *)

TypeInv ==
  /\ req \in Request
  /\ engine \in Versions /\ aggregator \in Versions
  /\ k \in 1..(Len(Order) + 1)

Loop == {"before", "generate", "after"}

\* A role has its output once the loop is past it.
Progress ==
  /\ pc = "start" => k = 1 /\ outputs = <<>>
  /\ pc \in Loop =>
       k <= Len(Order) /\ DOMAIN outputs = {Order[n] : n \in 1..(k - 1)}
  /\ pc \in {"before_vote", "vote", "after_vote"} => DOMAIN outputs = Roles

\* What the engine returned for the role the loop is at; only the engine's
\* version is open, until the call looks at it again.
Generated ==
  pc = "after" =>
    /\ pending = [raw |-> pending.raw, madeBy |-> pending.madeBy]
    /\ pending.raw \in Seq(Tokens)
    /\ pending.madeBy \in 0..engine

\* The outputs are what the frozen engine answered.
Sound(out) ==
  \A r \in DOMAIN out :
    /\ out[r].raw \in Seq(Tokens)
    /\ out[r].vote = ParsedAnswer(out[r].raw)
    /\ out[r].madeBy = 0

\* Nobody but the call has written its outputs: no aggregator but the frozen
\* one has been handed them.
Untouched ==
  \/ pc \in Loop \cup {"start", "before_vote", "vote"}
  \/ pc = "after_vote" /\ aggregator = 0

OutputsAreSound == Untouched => Sound(outputs) /\ hashes = outputs

Decided == pc = "after_vote" /\ aggregator = 0 => final = Decide(ValidVotes(outputs))

RecordIsSound ==
  record # None =>
    /\ Sound(record.outputs) /\ DOMAIN record.outputs = Roles
    /\ record.hashes = record.outputs
    /\ record.final = Decide(ValidVotes(record.outputs))

IInv ==
  TypeInv /\ Progress /\ Generated /\ OutputsAreSound /\ Decided /\ RecordIsSound

------------------------------------------------------------------------------
(* The answers of the parser and of the vote.                               *)

\* A text stripped of blanks is a text.
LEMMA StripIsText ==
  ASSUME NEW text \in Seq(Tokens)
  PROVE  Strip(text) \in Seq(Tokens)
<1>1. CASE Dark(text) = {}
  BY <1>1 DEF Strip
<1>2. CASE Dark(text) # {}
  BY <1>2, Stripped
<1>3. QED
  BY <1>1, <1>2

LEMMA ParsedAnswerIsVote ==
  ASSUME NEW text \in Seq(Tokens)
  PROVE  ParsedAnswer(text) \in Votes
<1> DEFINE visible == VisibleContent(text)
<1>1. visible \in Seq(Tokens)
  <2>1. CASE ThinkingBlock(text)
    <3>1. PICK c \in Closes(text) : Closes(text) = {c}
      BY <2>1, BlockShape
    <3>2. Min(Closes(text)) = c /\ c \in 1..Len(text)
      BY <3>1 DEF Min, Closes, Places
    <3>3. After(text, c) \in Seq(Tokens)
      BY <3>2, Suffix
    <3>4. QED
      BY <2>1, <3>2, <3>3, StripIsText DEF VisibleContent
  <2>2. CASE ~ThinkingBlock(text)
    BY <2>2, StripIsText DEF VisibleContent
  <2>3. QED
    BY <2>1, <2>2
<1> HIDE DEF visible
<1>2. ASSUME EndsInAnswer(visible), InRange(TerminalAnswer(visible))
      PROVE  TerminalAnswer(visible) \in Letters
  <2> DEFINE n == Max(Dark(visible))
  <2>1. Dark(visible) # {} /\ visible[n][1] = "Answer"
    BY <1>2 DEF EndsInAnswer
  <2>2. n \in Dark(visible)
    BY <1>1, <2>1, DarkEnds
  <2>3. visible[n] \in Tokens
    BY <1>1, <2>2 DEF Dark
  <2>4. visible[n][2] \in Alphabet
    BY <2>1, <2>3, TokenShape
  <2>5. TerminalAnswer(visible) = visible[n][2]
    BY <1>2 DEF TerminalAnswer
  <2>6. QED
    BY <1>2, <2>4, <2>5, OptionsAreInRange
<1>3. QED
  BY <1>2 DEF ParsedAnswer, Votes, visible

\* The vote over finitely many roles is a result, and so is that over none.
LEMMA DecideIsResult ==
  ASSUME NEW v, IsFiniteSet(DOMAIN v), v = <<>> \/ DOMAIN v # {}, Cast(v) \subseteq Letters
  PROVE  Decide(v) \in Result
<1>1. CASE v = <<>>
  BY <1>1 DEF Decide, NoResult, Result, Votes
<1>2. CASE v # <<>>
  <2> DEFINE Counts == {Count(v, x) : x \in Cast(v)}
             m == Cardinality(DOMAIN v)
  <2>1. m \in Nat
    BY FS_CardinalityType
  <2>2. ASSUME NEW x PROVE Count(v, x) \in 0..m
    <3>1. /\ IsFiniteSet({r \in DOMAIN v : v[r] = x})
          /\ Cardinality({r \in DOMAIN v : v[r] = x}) <= m
      BY FS_Subset
    <3>2. QED
      BY <2>1, <3>1, FS_CardinalityType DEF Count
  <2>3. Counts \subseteq 0..m /\ Counts # {}
    BY <1>2, <2>2 DEF Cast
  <2> HIDE DEF m
  <2>4. Max(Counts) \in Counts
    BY <2>1, <2>3, MaxIsGreatest
  <2>5. Leaders(v) # {} /\ Leaders(v) \subseteq Letters
    BY <2>4 DEF Leaders, Maximum
  <2>6. FirstLeader(v) \in Letters
    <3>1. Letters \subseteq Nat
      BY ParsingAssumption DEF Letters
    <3>2. QED
      BY <2>5, <3>1, MinIsLeast DEF FirstLeader
  <2>7. QED
    BY <1>2, <2>6 DEF Decide, Result, Votes, StrictMajority
<1>3. QED
  BY <1>1, <1>2

\* The vote over sound outputs of the team is a result.
LEMMA SoundVote ==
  ASSUME NEW out, Sound(out), DOMAIN out = Roles
  PROVE  Decide(ValidVotes(out)) \in Result
<1> DEFINE v == ValidVotes(out)
<1>1. DOMAIN v \subseteq Roles
  BY DEF ValidVotes
<1>2. IsFiniteSet(DOMAIN v)
  BY <1>1, PilotAssumption, FS_Subset, Zenon
<1>3. Cast(v) \subseteq Letters
  <2>1. ASSUME NEW r \in DOMAIN v PROVE v[r] \in Letters
    <3>1. r \in DOMAIN out /\ v[r] = out[r].vote /\ out[r].vote # NoVote
      BY DEF ValidVotes
    <3>2. out[r].vote \in Votes
      BY <3>1, ParsedAnswerIsVote DEF Sound
    <3>3. QED
      BY <3>1, <3>2 DEF Votes
  <2>2. QED
    BY <2>1 DEF Cast
<1>4. v = <<>> \/ DOMAIN v # {}
  BY DEF ValidVotes
<1>5. QED
  BY <1>2, <1>3, <1>4, DecideIsResult

------------------------------------------------------------------------------
(* The invariant is inductive: one lemma per action.                        *)

LEMMA OrderFacts ==
  /\ Order \in Seq(Roles) /\ Len(Order) \in Nat /\ Len(Order) >= 1
  /\ DOMAIN Order = 1..Len(Order)
  /\ \A n \in 1..Len(Order) : Order[n] \in Roles
  /\ {Order[n] : n \in 1..Len(Order)} = Roles
<1>1. Order \in Seq(Roles) /\ {Order[n] : n \in DOMAIN Order} = Roles
  BY PilotAssumption
<1>2. Len(Order) \in Nat /\ DOMAIN Order = 1..Len(Order)
  BY <1>1
<1>3. Len(Order) >= 1
  BY <1>1, <1>2, PilotAssumption
<1>4. QED
  BY <1>1, <1>2, <1>3

LEMMA InitIInv == Init => IInv
<1> SUFFICES ASSUME Init PROVE IInv
  OBVIOUS
<1> USE DEF Init
<1>1. TypeInv
  BY OrderFacts, PilotAssumption DEF TypeInv, Request, Versions
<1>2. Progress
  BY DEF Progress, Loop
<1>3. Generated
  BY DEF Generated
<1>4. OutputsAreSound
  BY DEF OutputsAreSound, Sound
<1>5. Decided /\ RecordIsSound
  BY DEF Decided, RecordIsSound
<1>6. QED
  BY <1>1, <1>2, <1>3, <1>4, <1>5 DEF IInv

\* A step that only moves the call on, without taking a conjunct's hypothesis
\* to a place where it does not hold yet.
LEMMA GoOn ==
  ASSUME IInv, UNCHANGED <<req, k, pending, injected, kept, answer>>,
         \/ pc' = "raised"
         \/ pc = "start" /\ pc' = "before"
         \/ pc = "before" /\ pc' = "generate"
         \/ pc = "before_vote" /\ pc' = "vote"
  PROVE  IInv'
<1> USE DEF IInv, injected, kept, answer
<1>1. TypeInv'
  BY DEF TypeInv
<1>2. Progress'
  <2>1. CASE pc = "start" /\ pc' = "before"
    <3>1. k' = 1 /\ outputs' = <<>>
      BY <2>1 DEF Progress
    <3>2. {Order[n] : n \in 1..(k' - 1)} = {} /\ DOMAIN outputs' = {}
      BY <3>1
    <3>3. QED
      BY <2>1, <3>1, <3>2, OrderFacts DEF Progress, Loop
  <2>2. QED
    BY <2>1 DEF Progress, Loop
<1>3. Generated'
  BY DEF Generated
<1>4. OutputsAreSound'
  BY DEF OutputsAreSound, Sound, Untouched, Loop
<1>5. Decided'
  BY DEF Decided
<1>6. RecordIsSound'
  BY DEF RecordIsSound, Sound
<1>7. QED
  BY <1>1, <1>2, <1>3, <1>4, <1>5, <1>6

LEMMA GenerateIInv == IInv /\ Generate => IInv'
<1> SUFFICES ASSUME IInv, Generate PROVE IInv'
  OBVIOUS
<1> USE DEF IInv, Generate, injected, kept, answer
<1>1. PICK text \in TextsOf[Order[k]] :
        pending' = [raw |-> text, madeBy |-> engine]
  OBVIOUS
<1>2. TypeInv'
  BY DEF TypeInv
<1>3. Progress'
  BY DEF Progress, Loop
<1>4. Generated'
  <2>1. k \in 1..Len(Order) /\ Order[k] \in Roles
    BY OrderFacts DEF TypeInv, Progress, Loop
  <2>2. text \in Seq(Tokens)
    BY <2>1, PilotAssumption
  <2>3. engine \in 0..engine
    BY PilotAssumption DEF TypeInv, Versions
  <2>4. QED
    BY <1>1, <2>2, <2>3 DEF Generated
<1>5. OutputsAreSound'
  BY DEF OutputsAreSound, Sound, Untouched, Loop
<1>6. Decided'
  BY DEF Decided
<1>7. RecordIsSound'
  BY DEF RecordIsSound, Sound
<1>8. QED
  BY <1>2, <1>3, <1>4, <1>5, <1>6, <1>7

\* The generation becomes the output of its role.
LEMMA ParsedIsSound ==
  ASSUME IInv, pc = "after", EngineFrozenAfter
  PROVE  Sound(With(outputs, Order[k], Parsed(pending)))
<1> DEFINE g == Parsed(pending)
           out == With(outputs, Order[k], g)
<1>1. pending.raw \in Seq(Tokens) /\ pending.madeBy = 0
  BY DEF IInv, Generated, EngineFrozenAfter
<1>2. /\ g.raw \in Seq(Tokens)
      /\ g.vote = ParsedAnswer(g.raw) /\ g.madeBy = 0
  BY <1>1 DEF Parsed, IInv, TypeInv
<1>3. Sound(outputs)
  BY DEF IInv, OutputsAreSound, Untouched, Loop
<1> HIDE DEF g
<1>4. ASSUME NEW r \in DOMAIN out
      PROVE  /\ out[r].raw \in Seq(Tokens)
             /\ out[r].vote = ParsedAnswer(out[r].raw) /\ out[r].madeBy = 0
  <2>1. CASE r = Order[k]
    <3>1. out[r] = g
      BY <2>1 DEF With
    <3>2. QED
      BY <1>2, <2>1, <3>1
  <2>2. CASE r # Order[k]
    <3>1. r \in DOMAIN outputs /\ out[r] = outputs[r]
      BY <2>2 DEF With
    <3>2. QED
      BY <1>3, <3>1 DEF Sound
  <2>3. QED
    BY <2>1, <2>2
<1>5. QED
  BY <1>4 DEF Sound, g

LEMMA CheckAfterGenerationIInv == IInv /\ CheckAfterGeneration => IInv'
<1> SUFFICES ASSUME IInv, CheckAfterGeneration PROVE IInv'
  OBVIOUS
<1>1. CASE ~EngineFrozenAfter
  BY <1>1, GoOn DEF CheckAfterGeneration, Go
<1>2. CASE EngineFrozenAfter
  <2> DEFINE new == With(outputs, Order[k], Parsed(pending))
  <2> HIDE DEF new
  <2>1. /\ pc = "after" /\ outputs' = new /\ hashes' = new /\ k' = k + 1
        /\ pc' = (IF k + 1 > Len(Order) THEN "before_vote" ELSE "before")
        /\ UNCHANGED <<req, pending, engine, aggregator, final, record>>
    <3>1. /\ pc = "after" /\ outputs' = new
          /\ hashes' = With(hashes, Order[k], Parsed(pending)) /\ k' = NextRole
          /\ pc' = (IF RolesDone(NextRole) THEN "before_vote" ELSE "before")
          /\ UNCHANGED <<req, pending, injected, answer>>
      BY <1>2, Zenon DEF CheckAfterGeneration, new
    <3>2. hashes = outputs
      BY <3>1 DEF IInv, OutputsAreSound, Untouched, Loop
    <3>3. QED
      BY <3>1, <3>2 DEF NextRole, RolesDone, injected, answer, new
  <2>2. Sound(new)
    BY <1>2, <2>1, ParsedIsSound DEF new
  <2>3. DOMAIN new = DOMAIN outputs \cup {Order[k]}
    BY DEF With, new
  <2>4. k \in 1..Len(Order) /\ DOMAIN outputs = {Order[n] : n \in 1..(k - 1)}
    BY <2>1, OrderFacts DEF IInv, TypeInv, Progress, Loop
  <2>5. DOMAIN new = {Order[n] : n \in 1..k}
    <3>1. 1..k = 1..(k - 1) \cup {k}
      BY <2>4, OrderFacts
    <3>2. QED
      BY <2>3, <2>4, <3>1
  <2> USE DEF IInv
  <2>6. TypeInv'
    BY <2>1, <2>4, OrderFacts DEF TypeInv
  <2>7. Progress'
    <3>1. CASE k + 1 > Len(Order)
      <4>1. k = Len(Order)
        <5>1. k \in 1..Len(Order) /\ Len(Order) \in Nat
          BY <2>4, OrderFacts
        <5>2. QED
          BY <3>1, <5>1
      <4>2. DOMAIN new = Roles
        BY <2>5, <4>1, OrderFacts
      <4>3. QED
        BY <2>1, <3>1, <4>2 DEF Progress, Loop
    <3>2. CASE ~(k + 1 > Len(Order))
      <4>1. k' - 1 = k /\ k' <= Len(Order)
        BY <2>1, <2>4, <3>2, OrderFacts
      <4>2. pc' = "before"
        BY <2>1, <3>2
      <4>3. DOMAIN outputs' = {Order[n] : n \in 1..(k' - 1)}
        BY <2>1, <2>5, <4>1
      <4>4. QED
        BY <4>1, <4>2, <4>3 DEF Progress, Loop
    <3>3. QED
      BY <3>1, <3>2
  <2>8. pc' # "after" /\ pc' # "after_vote"
    BY <2>1
  <2>9. Generated' /\ Decided'
    BY <2>8 DEF Generated, Decided
  <2>10. OutputsAreSound'
    BY <2>1, <2>2 DEF OutputsAreSound, Sound
  <2>11. RecordIsSound'
    BY <2>1 DEF RecordIsSound, Sound
  <2>12. QED
    BY <2>6, <2>7, <2>9, <2>10, <2>11
<1>3. QED
  BY <1>1, <1>2

LEMMA AggregateIInv == IInv /\ Aggregate => IInv'
<1> SUFFICES ASSUME IInv, Aggregate PROVE IInv'
  OBVIOUS
<1>1. /\ pc = "vote" /\ pc' = "after_vote"
      /\ UNCHANGED <<req, k, pending, engine, aggregator, hashes, record>>
  BY DEF Aggregate, injected
<1>2. aggregator = 0 =>
        final' = Decide(ValidVotes(outputs)) /\ outputs' = outputs
  BY DEF Aggregate
<1>3. DOMAIN outputs' = DOMAIN outputs
  BY DEF Aggregate
<1> USE DEF IInv
<1>4. TypeInv'
  BY <1>1 DEF TypeInv
<1>5. Progress'
  BY <1>1, <1>3 DEF Progress, Loop
<1>6. Generated'
  BY <1>1 DEF Generated
<1>7. OutputsAreSound'
  BY <1>1, <1>2 DEF OutputsAreSound, Sound, Untouched, Loop
<1>8. Decided'
  BY <1>1, <1>2 DEF Decided
<1>9. RecordIsSound'
  BY <1>1 DEF RecordIsSound, Sound
<1>10. QED
  BY <1>4, <1>5, <1>6, <1>7, <1>8, <1>9

LEMMA ReturnIInv == IInv /\ Return => IInv'
<1> SUFFICES ASSUME IInv, Return PROVE IInv'
  OBVIOUS
<1>1. CASE ~AggregatorFrozenAfter
  BY <1>1, GoOn DEF Return, Go
<1>2. CASE AggregatorFrozenAfter
  <2>1. /\ pc = "after_vote" /\ pc' = "returned" /\ aggregator = 0
        /\ record' = [outputs |-> outputs, hashes |-> hashes, final |-> final]
        /\ UNCHANGED <<req, k, pending, engine, aggregator, outputs, hashes, final>>
    BY <1>2 DEF Return, AggregatorFrozenAfter, injected, kept
  <2> USE DEF IInv
  <2>2. TypeInv'
    BY <2>1 DEF TypeInv
  <2>3. Progress' /\ Generated' /\ Decided'
    BY <2>1 DEF Progress, Loop, Generated, Decided
  <2>4. OutputsAreSound'
    BY <2>1 DEF OutputsAreSound, Untouched, Loop
  <2>5. /\ Sound(outputs) /\ hashes = outputs /\ DOMAIN outputs = Roles
        /\ final = Decide(ValidVotes(outputs))
    BY <2>1 DEF OutputsAreSound, Untouched, Progress, Decided
  <2>6. /\ record'.outputs = outputs /\ record'.hashes = hashes
        /\ record'.final = final
    BY <2>1
  <2>7. RecordIsSound'
    BY <2>1, <2>5, <2>6 DEF RecordIsSound, Sound
  <2>8. QED
    BY <2>2, <2>3, <2>4, <2>7
<1>3. QED
  BY <1>1, <1>2

LEMMA ReconfigureIInv == IInv /\ Reconfigure => IInv'
<1> SUFFICES ASSUME IInv, Reconfigure PROVE IInv'
  OBVIOUS
<1>1. /\ UNCHANGED <<req, pc, k, pending, outputs, hashes, final, record>>
      /\ engine' \in Versions /\ aggregator' \in Versions
      /\ engine <= engine' /\ aggregator <= aggregator'
  BY PilotAssumption DEF IInv, TypeInv, Reconfigure, Versions, kept, answer
<1>2. aggregator' = 0 => aggregator = 0
  BY <1>1, PilotAssumption DEF IInv, TypeInv, Versions
<1> USE DEF IInv
<1>3. TypeInv'
  BY <1>1 DEF TypeInv
<1>4. Progress'
  BY <1>1 DEF Progress, Loop
<1>5. Generated'
  <2>1. 0..engine \subseteq 0..engine'
    BY <1>1, PilotAssumption DEF TypeInv, Versions
  <2>2. QED
    BY <1>1, <2>1 DEF Generated
<1>6. OutputsAreSound'
  BY <1>1, <1>2 DEF OutputsAreSound, Sound, Untouched, Loop
<1>7. Decided'
  BY <1>1, <1>2 DEF Decided
<1>8. RecordIsSound'
  BY <1>1 DEF RecordIsSound, Sound
<1>9. QED
  BY <1>3, <1>4, <1>5, <1>6, <1>7, <1>8

LEMMA StutterIInv == IInv /\ UNCHANGED vars => IInv'
<1> SUFFICES ASSUME IInv, UNCHANGED vars PROVE IInv'
  OBVIOUS
<1> USE DEF IInv, vars, injected, kept, answer
<1>1. TypeInv' /\ Progress' /\ Generated'
  BY DEF TypeInv, Progress, Generated, Loop
<1>2. OutputsAreSound' /\ Decided' /\ RecordIsSound'
  BY DEF OutputsAreSound, Decided, RecordIsSound, Sound, Untouched, Loop
<1>3. QED
  BY <1>1, <1>2

LEMMA NextIInv == IInv /\ [Next]_vars => IInv'
<1> SUFFICES ASSUME IInv, [Next]_vars PROVE IInv'
  OBVIOUS
<1>1. CASE Start
  BY <1>1, GoOn DEF Start, Go
<1>2. CASE CheckBeforeGeneration
  BY <1>2, GoOn DEF CheckBeforeGeneration, Go
<1>3. CASE Generate
  BY <1>3, GenerateIInv
<1>4. CASE CheckAfterGeneration
  BY <1>4, CheckAfterGenerationIInv
<1>5. CASE CheckBeforeVote
  BY <1>5, GoOn DEF CheckBeforeVote, Go
<1>6. CASE Aggregate
  BY <1>6, AggregateIInv
<1>7. CASE Return
  BY <1>7, ReturnIInv
<1>8. CASE RaiseError
  BY <1>8, GoOn DEF RaiseError, Go
<1>9. CASE Reconfigure
  BY <1>9, ReconfigureIInv
<1>10. CASE UNCHANGED vars
  BY <1>10, StutterIInv
<1>11. QED
  BY <1>1, <1>2, <1>3, <1>4, <1>5, <1>6, <1>7, <1>8, <1>9, <1>10 DEF Next, Work

\* The outputs of the call are sound at every step of it, until an aggregator
\* that is not the frozen one is handed them, and then it never returns them.
THEOREM Inductive == Spec => []IInv
<1>1. Init => IInv
  BY InitIInv
<1>2. IInv /\ [Next]_vars => IInv'
  BY NextIInv
<1>3. QED
  BY <1>1, <1>2, PTL DEF Spec

------------------------------------------------------------------------------
\* execute looks at the engine before and after it generates: a record holds
\* nothing another engine made, however often it was reconfigured.
THEOREM EngineIsFrozen == Spec => []FrozenEngineMadeEveryOutput
<1>1. IInv => FrozenEngineMadeEveryOutput
  BY DEF IInv, RecordIsSound, Sound, FrozenEngineMadeEveryOutput
<1>2. QED
  BY <1>1, Inductive, PTL

\* The votes of a record are those of the last lines of its texts.
THEOREM VotesAreLastLines == Spec => []VoteIsTheLastLine
<1>1. IInv => VoteIsTheLastLine
  BY OnlyTheLastLineVotes DEF IInv, RecordIsSound, Sound, VoteIsTheLastLine
<1>2. QED
  BY <1>1, Inductive, PTL

\* The final output of a record is the frozen aggregator's, over the outputs
\* that the record holds.
THEOREM FinalIsFrozenVote == Spec => []FinalIsTheVote
<1>1. IInv => FinalIsTheVote
  BY DEF IInv, RecordIsSound, FinalIsTheVote
<1>2. QED
  BY <1>1, Inductive, PTL

\* What execute returns passes every comparison of the runtime adapter's
\* _validate_execution: whole, hashed, with a final output.
THEOREM RecordsAreAccepted == Spec => []AdapterAcceptsTheRecord
<1>1. ASSUME IInv, record # None PROVE AdapterAcceptsTheRecord
  <2>1. /\ Sound(record.outputs) /\ DOMAIN record.outputs = Roles
        /\ record.hashes = record.outputs
        /\ record.final = Decide(ValidVotes(record.outputs))
    BY <1>1 DEF IInv, RecordIsSound
  <2>2. record.final # None
    BY <2>1, SoundVote, PilotAssumption
  <2>3. QED
    BY <2>1, <2>2
    DEF AdapterAcceptsTheRecord, Evidence!ValidExecution, Evidence!Whole
<1>2. IInv => AdapterAcceptsTheRecord
  BY <1>1 DEF AdapterAcceptsTheRecord
<1>3. QED
  BY <1>2, Inductive, PTL

------------------------------------------------------------------------------
(***************************************************************************)
(* The adapter around a backend: RuntimeAdapter, for any backend, any      *)
(* requests and any number of calls.                                       *)
(***************************************************************************)

\* What SuccessIsWhole says of one execution recorded for a request that the
\* backend left as a plan.
SoundFor(e, request, left, mock) ==
  /\ e.form = "record" /\ e.mock = mock
  /\ e.id = left.id /\ e.seeds = Seeded(left)
  /\ e.succeeded => /\ e.final
                    /\ DOMAIN e.outputs = left.order
                    /\ e.hashes = e.outputs
  /\ mock => /\ left = request.plan
             /\ e.succeeded => DOMAIN e.outputs = left.roles

\* What the validation makes of an answer: sound, besides that it may be no
\* record, or no JSON.
Fits(e, p, mock) ==
  /\ e.mock = mock
  /\ e.id = p.id /\ e.seeds = Seeded(p)
  /\ e.succeeded => /\ e.final
                    /\ DOMAIN e.outputs = p.order
                    /\ e.hashes = e.outputs

RecordedCall ==
  [index : Int, request : AdapterRequest, left : Plan, result : ResultType]

\* Everything but the recorder's list keeps its type.
AdapterTypes ==
  /\ mode \in Modes /\ at \in {"idle", "preflight", "backend", "return"}
  /\ call \in Requests \cup {Nothing} /\ plan \in Plan \cup {Nothing, Unreadable}
  /\ backend \in Backends /\ seen \subseteq Backends
  /\ reasons \in SUBSET (CheckNames \cup IdentityNames)
  /\ execution \in Execution \cup {Nothing}
  /\ result \in ResultType \cup {Nothing}
  /\ calls \in 0..MaxCalls

\* A call that is under way works on a plan; until a backend was called it is
\* the caller's, and the mock runtime never changes it.  It has no result yet.
CallInProgress ==
  /\ at # "idle" => /\ call \in Requests /\ plan \in Plan
                    /\ backend \in seen /\ result = Nothing
  /\ at \in {"preflight", "backend"} \/ (Mock /\ at = "return") =>
       plan = call.plan
  /\ at \in {"preflight", "backend"} => execution = Nothing /\ reasons = {}

\* The identities that a call without a rejection was bound to.
Bound ==
  /\ call.failing = {}
  /\ (IF Mock THEN call.aggregator ELSE "bound") \in seen
  /\ ~Mock => call.aggregator = "bound"

\* A backend is called, and a result accepted, only behind those comparisons.
BoundCall ==
  /\ at = "backend" \/ (at = "return" /\ reasons = {}) => Bound
  /\ result # Nothing /\ result.accepted => Bound

\* What is about to be returned fits the plan, or is a rejection.
Outcome ==
  at = "return" =>
    /\ reasons = {} => execution \in Execution /\ Fits(execution, plan, Mock)
    /\ reasons # {} => execution = Nothing

\* The recorder's list is indexed by place and holds what was returned.
Recorded ==
  /\ records \in Seq(RecordedCall)
  /\ Len(records) <= calls
  /\ at # "idle" => Len(records) < calls
  /\ \A n \in DOMAIN records :
       /\ records[n].index = n - 1
       /\ records[n].result.accepted =>
            SoundFor(records[n].result.execution, records[n].request,
                     records[n].left, Mock)

AdapterInv == AdapterTypes /\ CallInProgress /\ BoundCall /\ Outcome /\ Recorded

------------------------------------------------------------------------------
\* The evidence of a failure is an execution that fits, without outputs.
LEMMA FailedFits ==
  ASSUME NEW p \in Plan
  PROVE  /\ FailedExecution(p, Mock) \in Execution
         /\ Fits(FailedExecution(p, Mock), p, Mock)
<1>1. <<>> \in Outputs
  <2>1. {} \in SUBSET RoleIds
    OBVIOUS
  <2>2. <<>> \in [{} -> Values]
    OBVIOUS
  <2>3. QED
    BY <2>1, <2>2 DEF Outputs
<1>2. Mock \in BOOLEAN
  BY DEF Mock
<1>3. p.id \in Ids /\ Seeded(p) \in Seeds
  BY DEF Plan, Seeds, Seeded
<1>4. QED
  BY <1>1, <1>2, <1>3 DEF FailedExecution, Execution, Forms, Fits

\* Whatever a backend answers, what the call keeps of it fits the plan.
LEMMA AcceptedFits ==
  ASSUME NEW reply \in Execution, NEW p \in Plan
  PROVE  /\ Accepted(reply, p) \in Execution
         /\ Fits(Accepted(reply, p), p, Mock)
<1>1. CASE ValidExecution(reply, p, Mock)
  BY <1>1 DEF Accepted, ValidExecution, Whole, Fits
<1>2. CASE ~ValidExecution(reply, p, Mock)
  BY <1>2, FailedFits DEF Accepted
<1>3. QED
  BY <1>1, <1>2

------------------------------------------------------------------------------
LEMMA InitAdapter ==
  ASSUME AdapterInit
  PROVE  AdapterInv
<1> USE DEF AdapterInit
<1>1. AdapterTypes
  BY AdapterAssumption DEF AdapterTypes, Backends
<1>2. CallInProgress /\ BoundCall /\ Outcome
  BY DEF CallInProgress, BoundCall, Outcome
<1>3. Recorded
  <2>1. records \in Seq(RecordedCall) /\ Len(records) = 0 /\ DOMAIN records = {}
    OBVIOUS
  <2>2. QED
    BY <2>1, AdapterAssumption DEF Recorded
<1>4. QED
  BY <1>1, <1>2, <1>3 DEF AdapterInv

\* Steps of a call before it returns leave the list alone.
LEMMA RecordedKept ==
  ASSUME AdapterInv, UNCHANGED <<mode, records, calls>>,
         at' = "idle" \/ at # "idle"
  PROVE  Recorded'
BY DEF AdapterInv, Recorded, AdapterTypes, SoundFor, Mock

LEMMA CallStep ==
  ASSUME AdapterInv, Call
  PROVE  AdapterInv'
<1>1. PICK r \in Requests : call' = r /\ plan' = r.plan
  BY DEF Call
<1>2. r \in AdapterRequest /\ r.plan \in Plan
  BY AdapterAssumption DEF AdapterRequest
<1>3. AdapterTypes'
  BY <1>1, <1>2, AdapterAssumption DEF AdapterInv, AdapterTypes, Call
<1>4. CallInProgress' /\ BoundCall' /\ Outcome'
  BY <1>1, <1>2 DEF Call, CallInProgress, BoundCall, Outcome, Mock
<1>5. Recorded'
  <2>1. /\ UNCHANGED <<mode, records>> /\ calls' = calls + 1
        /\ calls \in Nat /\ Len(records) \in Nat
    BY AdapterAssumption DEF Call, AdapterInv, AdapterTypes, Recorded
  <2>2. QED
    BY <2>1 DEF AdapterInv, Recorded, SoundFor, Mock
<1>6. QED
  BY <1>3, <1>4, <1>5 DEF AdapterInv

LEMMA PreflightStep ==
  ASSUME AdapterInv, Preflight
  PROVE  AdapterInv'
<1>1. call \in AdapterRequest /\ call.failing \subseteq CheckNames
  BY AdapterAssumption DEF AdapterInv, CallInProgress, Preflight, AdapterRequest
<1>2. IdentityReasons \subseteq IdentityNames
  BY DEF IdentityReasons
<1>3. AdapterTypes'
  BY <1>1, <1>2 DEF AdapterInv, AdapterTypes, Preflight
<1>4. CallInProgress'
  BY DEF AdapterInv, CallInProgress, Preflight, Mock
<1>5. BoundCall'
  <2>1. ASSUME reasons' = {} PROVE Bound'
    <3>1. call.failing = {} /\ IdentityReasons = {}
      BY <2>1 DEF Preflight
    <3>2. call.aggregator = Aggregator /\ (~Mock => backend = "bound")
      BY <3>1 DEF IdentityReasons, IdentityNames
    <3>3. backend \in seen /\ UNCHANGED <<mode, call, seen>>
      BY DEF AdapterInv, CallInProgress, Preflight
    <3>4. QED
      BY <3>1, <3>2, <3>3 DEF Bound, Aggregator, Mock
  <2>2. result' = Nothing
    BY DEF AdapterInv, CallInProgress, Preflight
  <2>3. QED
    BY <2>1, <2>2 DEF BoundCall, Preflight
<1>6. Outcome'
  BY DEF AdapterInv, CallInProgress, Preflight, Outcome
<1>7. Recorded'
  BY RecordedKept DEF Preflight
<1>8. QED
  BY <1>3, <1>4, <1>5, <1>6, <1>7 DEF AdapterInv

LEMMA IdentityRaisesStep ==
  ASSUME AdapterInv, IdentityRaises
  PROVE  AdapterInv'
<1>1. AdapterTypes' /\ CallInProgress' /\ BoundCall' /\ Outcome'
  BY DEF AdapterInv, AdapterTypes, CallInProgress, BoundCall, Bound, Outcome,
     IdentityRaises, Mock
<1>2. Recorded'
  BY RecordedKept DEF IdentityRaises
<1>3. QED
  BY <1>1, <1>2 DEF AdapterInv

LEMMA SpoilsStep ==
  ASSUME AdapterInv, BackendSpoilsRequest
  PROVE  AdapterInv'
<1>1. AdapterTypes' /\ CallInProgress' /\ BoundCall' /\ Outcome'
  BY DEF AdapterInv, AdapterTypes, CallInProgress, BoundCall, Bound, Outcome,
     BackendSpoilsRequest, Mock
<1>2. Recorded'
  BY RecordedKept DEF BackendSpoilsRequest
<1>3. QED
  BY <1>1, <1>2 DEF AdapterInv

\* The four ways a call gets from the backend to its return.
LEMMA AnsweredStep ==
  ASSUME AdapterInv, at = "backend",
         NEW p \in Plan, NEW e \in Execution, Answered(p, e),
         Mock => p = call.plan, Fits(e, p, Mock)
  PROVE  AdapterInv'
<1> USE DEF Answered
<1>1. AdapterTypes'
  BY DEF AdapterInv, AdapterTypes
<1>2. CallInProgress'
  BY DEF AdapterInv, CallInProgress, Mock
<1>3. BoundCall'
  BY DEF AdapterInv, BoundCall, Bound, Mock
<1>4. Outcome'
  BY DEF AdapterInv, CallInProgress, Outcome, Fits, Mock
<1>5. Recorded'
  BY RecordedKept
<1>6. QED
  BY <1>1, <1>2, <1>3, <1>4, <1>5 DEF AdapterInv

LEMMA BackendAnswersStep ==
  ASSUME AdapterInv, BackendAnswers
  PROVE  AdapterInv'
<1>1. PICK reply \in Answers, p \in Plan : Answered(p, Accepted(reply, p))
  BY DEF BackendAnswers
<1>2. reply \in Execution
  BY AdapterAssumption
<1>3. at = "backend" /\ ~Mock
  BY DEF BackendAnswers, Mock
<1>4. Accepted(reply, p) \in Execution /\ Fits(Accepted(reply, p), p, Mock)
  BY <1>2, AcceptedFits
<1>5. QED
  BY <1>1, <1>3, <1>4, AnsweredStep

LEMMA BackendRaisesStep ==
  ASSUME AdapterInv, BackendRaises
  PROVE  AdapterInv'
<1>1. PICK p \in Plan : Answered(p, FailedExecution(p, FALSE))
  BY DEF BackendRaises
<1>2. at = "backend" /\ Mock = FALSE
  BY DEF BackendRaises, Mock
<1>3. FailedExecution(p, Mock) \in Execution /\ Fits(FailedExecution(p, Mock), p, Mock)
  BY FailedFits
<1>4. QED
  BY <1>1, <1>2, <1>3, AnsweredStep

\* The record of the mock runtime has a value for each role of its plan.
LEMMA MockRecordType ==
  ASSUME NEW p \in Plan, NEW succeeded \in BOOLEAN, NEW whole \in BOOLEAN,
         NEW form \in Forms
  PROVE  MockRecord(p, succeeded, whole, form) \in Execution
<1>1. p.order \in SUBSET RoleIds /\ p.id \in Ids /\ Seeded(p) \in Seeds
  BY DEF Plan, Seeded, Seeds
<1>2. [r \in p.order |-> CHOOSE v \in Values : TRUE] \in [p.order -> Values]
  BY AdapterAssumption
<1>3. [r \in p.order |-> CHOOSE v \in Values : TRUE] \in Outputs
  BY <1>1, <1>2 DEF Outputs
<1>4. QED
  BY <1>1, <1>3 DEF MockRecord, Execution

LEMMA MockRunsStep ==
  ASSUME AdapterInv, MockRuns
  PROVE  AdapterInv'
<1>1. PICK succeeded \in BOOLEAN, whole \in BOOLEAN, form \in {"record", "not_json"} :
        Answered(plan, Accepted(MockRecord(plan, succeeded, whole, form), plan))
  BY DEF MockRuns
<1>2. at = "backend" /\ plan \in Plan /\ plan = call.plan
  BY DEF AdapterInv, CallInProgress, MockRuns
<1>3. MockRecord(plan, succeeded, whole, form) \in Execution
  BY <1>2, MockRecordType DEF Forms
<1>4. QED
  BY <1>1, <1>2, <1>3, AcceptedFits, AnsweredStep

LEMMA MockRaisesStep ==
  ASSUME AdapterInv, MockRaises
  PROVE  AdapterInv'
<1>1. at = "backend" /\ plan \in Plan /\ plan = call.plan
  BY DEF AdapterInv, CallInProgress, MockRaises
<1>2. Mock = TRUE
  BY DEF MockRaises, Mock
<1>3. Answered(plan, FailedExecution(plan, Mock))
  BY <1>2 DEF MockRaises
<1>4. QED
  BY <1>1, <1>3, FailedFits, AnsweredStep

LEMMA ReturnStep ==
  ASSUME AdapterInv, AdapterReturn
  PROVE  AdapterInv'
<1> DEFINE r == AdapterResult(reasons = {})
           rec == [index |-> NextIndex, request |-> call, left |-> plan, result |-> r]
<1>1. /\ at = "return" /\ at' = "idle"
      /\ UNCHANGED <<mode, call, plan, backend, seen, reasons, execution, calls>>
      /\ \/ /\ ResultAccepted(r) /\ Dumped(r)
            /\ result' = r /\ records' = Append(records, rec)
         \/ UNCHANGED <<result, records>>
  BY DEF AdapterReturn
<1>2. r \in ResultType
  BY DEF AdapterInv, AdapterTypes, AdapterResult, ResultType
<1>3. AdapterTypes' /\ CallInProgress' /\ Outcome'
  BY <1>1, <1>2 DEF AdapterInv, AdapterTypes, CallInProgress, Outcome, Mock
<1>4. BoundCall'
  <2>1. r.accepted => Bound
    BY <1>1 DEF AdapterInv, BoundCall, AdapterResult
  <2>2. Bound' <=> Bound
    BY <1>1 DEF Bound, Mock
  <2>3. QED
    BY <1>1, <2>1, <2>2 DEF AdapterInv, BoundCall
<1>5. Recorded'
  <2>1. CASE UNCHANGED <<result, records>>
    BY <1>1, <2>1, RecordedKept
  <2>2. CASE ResultAccepted(r) /\ Dumped(r) /\ records' = Append(records, rec)
    <3>1. records \in Seq(RecordedCall) /\ Len(records) \in Nat /\ Len(records) < calls
          /\ calls \in Nat
      BY <1>1, AdapterAssumption DEF AdapterInv, Recorded, AdapterTypes
    <3>2. rec \in RecordedCall
      BY <1>1, <1>2, <3>1, AdapterAssumption
      DEF AdapterInv, CallInProgress, RecordedCall, NextIndex
    <3>3. /\ records' \in Seq(RecordedCall) /\ Len(records') = Len(records) + 1
          /\ \A n \in DOMAIN records : records'[n] = records[n]
          /\ records'[Len(records) + 1] = rec
          /\ DOMAIN records' = DOMAIN records \cup {Len(records) + 1}
      BY <2>2, <3>1, <3>2
    <3>4. rec.index = Len(records)
      BY DEF NextIndex
    <3>5. ASSUME rec.result.accepted
          PROVE  SoundFor(rec.result.execution, rec.request, rec.left, Mock)
      <4>1. reasons = {} /\ rec.result.execution = execution
        BY <3>5 DEF AdapterResult
      <4>2. execution \in Execution /\ Fits(execution, plan, Mock)
        BY <1>1, <4>1 DEF AdapterInv, Outcome
      <4>3. execution.form = "record"
        BY <2>2, <3>5, <4>1, <4>2 DEF ResultAccepted, Dumped, Execution, Forms
      <4>4. Mock => plan = call.plan /\ plan.order = plan.roles
        BY <1>1, AdapterAssumption DEF AdapterInv, CallInProgress
      <4>5. QED
        BY <4>1, <4>2, <4>3, <4>4 DEF SoundFor, Fits
    <3>6. ASSUME NEW n \in DOMAIN records'
          PROVE  /\ records'[n].index = n - 1
                 /\ records'[n].result.accepted =>
                      SoundFor(records'[n].result.execution, records'[n].request,
                               records'[n].left, Mock')
      <4>1. CASE n \in DOMAIN records
        BY <1>1, <3>3, <4>1 DEF AdapterInv, Recorded, Mock
      <4>2. CASE n = Len(records) + 1
        BY <1>1, <3>1, <3>3, <3>4, <3>5, <4>2 DEF Mock
      <4>3. QED
        BY <3>3, <4>1, <4>2
    <3>7. QED
      BY <1>1, <3>1, <3>3, <3>6 DEF Recorded
  <2>3. QED
    BY <1>1, <2>1, <2>2
<1>6. QED
  BY <1>3, <1>4, <1>5 DEF AdapterInv

LEMMA BackendChangesStep ==
  ASSUME AdapterInv, BackendChanges
  PROVE  AdapterInv'
<1>1. AdapterTypes' /\ CallInProgress' /\ Outcome'
  BY DEF AdapterInv, AdapterTypes, CallInProgress, Outcome, BackendChanges, Mock
<1>2. BoundCall'
  <2>1. seen \subseteq seen' /\ UNCHANGED <<mode, at, call, reasons, result>>
    BY DEF BackendChanges
  <2>2. Bound => Bound'
    BY <2>1 DEF Bound, Mock
  <2>3. QED
    BY <2>1, <2>2 DEF AdapterInv, BoundCall
<1>3. Recorded'
  BY DEF AdapterInv, Recorded, BackendChanges, SoundFor, Mock
<1>4. QED
  BY <1>1, <1>2, <1>3 DEF AdapterInv

LEMMA NextAdapter ==
  ASSUME AdapterInv, [AdapterNext]_adapterVars
  PROVE  AdapterInv'
<1>1. CASE UNCHANGED adapterVars
  BY <1>1 DEF adapterVars, AdapterInv, AdapterTypes, CallInProgress, BoundCall, Bound,
     Outcome, Recorded, SoundFor, Mock
<1>2. CASE Call
  BY <1>2, CallStep
<1>3. CASE AdapterWork
  BY <1>3, PreflightStep, IdentityRaisesStep, BackendAnswersStep, BackendRaisesStep,
     SpoilsStep, MockRunsStep, MockRaisesStep, ReturnStep DEF AdapterWork
<1>4. CASE BackendChanges
  BY <1>4, BackendChangesStep
<1>5. QED
  BY <1>1, <1>2, <1>3, <1>4 DEF AdapterNext

------------------------------------------------------------------------------
(***************************************************************************)
(* The inductive invariant of execute: a call under way works on one plan, *)
(* what it returns fits that plan and is behind the comparisons, and the   *)
(* recorder keeps what was returned.                                       *)
(***************************************************************************)
THEOREM AdapterInductive ==
  AdapterSpec => []AdapterInv
<1>1. AdapterInit => AdapterInv
  BY InitAdapter
<1>2. AdapterInv /\ [AdapterNext]_adapterVars => AdapterInv'
  BY NextAdapter
<1>3. QED
  BY <1>1, <1>2, PTL DEF AdapterSpec

\* Every variable keeps its type, and the recorder's list is indexed without
\* gaps, whatever calls of execute raised.
THEOREM AdapterTypeCorrect ==
  AdapterSpec => []TypeOK
<1>1. ASSUME AdapterInv PROVE TypeOK
  <2>1. AdapterTypes /\ Recorded
    BY <1>1 DEF AdapterInv
  <2>2. \A n \in DOMAIN records :
          /\ records[n].request \in AdapterRequest /\ records[n].left \in Plan
          /\ records[n].result \in ResultType
    <3>1. \A n \in DOMAIN records : records[n] \in RecordedCall
      BY <2>1 DEF Recorded
    <3>2. QED
      BY <3>1 DEF RecordedCall
  <2>3. QED
    BY <2>1, <2>2, AdapterAssumption DEF AdapterTypes, Recorded, TypeOK
<1>2. QED
  BY <1>1, AdapterInductive, PTL

\* Whatever a backend answers, rewrites or raises, an execution that execute
\* recorded as accepted fits the request as the backend left it, is whole by its
\* order when it is a success, and is mock exactly when the adapter is fake.
THEOREM RecordedSuccessIsWhole ==
  AdapterSpec => []SuccessIsWhole
<1>1. AdapterInv => SuccessIsWhole
  BY DEF AdapterInv, Recorded, SoundFor, SuccessIsWhole
<1>2. QED
  BY <1>1, AdapterInductive, PTL

\* The injected object may become another one at any time: execute answers with
\* evidence only when it told, since the call began, the identity that binds it.
THEOREM EvidenceIsBound ==
  AdapterSpec => []EvidenceIsFreshlyBound
<1>1. AdapterInv => EvidenceIsFreshlyBound
  BY DEF AdapterInv, BoundCall, Bound, EvidenceIsFreshlyBound
<1>2. QED
  BY <1>1, AdapterInductive, PTL
=============================================================================
