---------------------------- MODULE AnswerParsing ----------------------------
(***************************************************************************)
(* split_model_text and parse_terminal_answer: from the raw text of a      *)
(* generation to the vote of a role.                                       *)
(*                                                                         *)
(* A text is a sequence of tokens: the two thinking markers, blanks, line  *)
(* breaks, words, and <<"Answer", x>> for "Answer: " followed by letter x. *)
(***************************************************************************)
EXTENDS Vote, Sequences

CONSTANT Alphabet  \* the letters an answer line may name, options or not

ASSUME ParsingAssumption ==
  /\ L \in Nat /\ Letters \subseteq Alphabet
  /\ Alphabet \subseteq Nat \ {0} /\ NoVote \notin Alphabet

Answer(x) == <<"Answer", x>>
Tokens == {<<"open">>, <<"close">>, <<"blank">>, <<"break">>, <<"word">>}
            \cup {Answer(x) : x \in Alphabet}

Places(text, kind) == {n \in DOMAIN text : text[n][1] = kind}
Opens(text) == Places(text, "open")
Closes(text) == Places(text, "close")
Blank(token) == token[1] \in {"blank", "break"}
Dark(text) == {n \in DOMAIN text : ~Blank(text[n])}

\* str.strip
Strip(text) ==
  IF Dark(text) = {} THEN <<>> ELSE SubSeq(text, Min(Dark(text)), Max(Dark(text)))

After(text, n) == SubSeq(text, n + 1, Len(text))

\* Mutant: what stands before the thinking block is not looked at.
ThinkingBlockAnywhere(text) ==
  /\ Cardinality(Opens(text)) = 1 /\ Cardinality(Closes(text)) = 1

\* One thinking block, which nothing but blanks precedes.
ThinkingBlock(text) ==
  /\ Cardinality(Opens(text)) = 1 /\ Cardinality(Closes(text)) = 1
  /\ Min(Opens(text)) = Min(Dark(text))
  /\ Min(Opens(text)) < Min(Closes(text))

\* ParsedModelText.structure_valid: no marker at all, or one thinking block.
StructureValid(text) == Opens(text) \cup Closes(text) = {} \/ ThinkingBlock(text)

\* ParsedModelText.final_content.
VisibleContent(text) ==
  IF ThinkingBlock(text) THEN Strip(After(text, Min(Closes(text)))) ELSE Strip(text)

\* The last line of the text is an answer line: the regular expression takes a
\* trailing blank, but no line break, and nothing else in its line.
EndsInAnswer(text) ==
  LET n == Max(Dark(text)) IN
  /\ Dark(text) # {} /\ text[n][1] = "Answer"
  /\ Places(After(text, n), "break") = {}
  /\ n > 1 => text[n - 1][1] = "break"

TerminalAnswer(text) == IF EndsInAnswer(text) THEN text[Max(Dark(text))][2] ELSE NoVote

InRange(x) == x - 1 < L

\* AnswerParseResult.answer_letter of a raw text.
ParsedAnswer(text) ==
  LET visible == VisibleContent(text) IN
  IF StructureValid(text) /\ EndsInAnswer(visible) /\ InRange(TerminalAnswer(visible))
    THEN TerminalAnswer(visible)
    ELSE NoVote

------------------------------------------------------------------------------
\* README: only a final answer line counts.  A text votes for an option exactly
\* when its last line reads so, and it has no thinking block or a single one
\* that comes before anything else.
VotesForItsLastLine(text, vote) ==
  \A x \in Alphabet :
    vote = x <=>
      LET n == Max(Dark(text)) IN
      /\ x \in Letters
      /\ Dark(text) # {} /\ text[n] = Answer(x)
      /\ \/ Opens(text) \cup Closes(text) = {}
         \/ \E o \in Opens(text), c \in Closes(text) :
              /\ Opens(text) = {o} /\ Closes(text) = {c}
              /\ o < c /\ Dark(text) \cap 1..(o - 1) = {}
      \* nothing but the marker and blanks, or a line break, before it
      /\ \/ n > 1 /\ text[n - 1][1] = "break"
         \/ \A m \in 1..(n - 1) : Blank(text[m])
         \/ \E c \in Closes(text) : \A m \in (c + 1)..(n - 1) : Blank(text[m])
=============================================================================
