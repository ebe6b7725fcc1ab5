----------------------------- MODULE Normalizer -----------------------------
(***************************************************************************)
(* RoleContractNormalizer.normalize: scan the lines of a role prompt,      *)
(* collect what each line says of which field of the role contract, and    *)
(* put the collected text, and what the caller states himself, into a      *)
(* draft with its provenance.                                              *)
(*                                                                         *)
(* A span of the source text is the number of its line.                    *)
(***************************************************************************)
EXTENDS Integers, Sequences, FiniteSets, SequencesExt

CONSTANTS
  Texts,        \* what a line can say, up to case and width
  ListFields,   \* the modelled members of LIST_FIELDS and the specification fields
  ScalarFields, \* the modelled members of SCALAR_FIELDS
  Lines,        \* the lines a prompt is made of
  MaxLines,     \* bound on the length of a prompt
  Explicit,     \* what callers pass: role_name and explicit_fields
  None

InlineFields == {"role_name", "prohibited_behaviors", "responsibilities"}
Fields == {"role_name"} \cup ListFields \cup ScalarFields

(***************************************************************************)
(* What the patterns make of a line.  "field" is the field a heading or a  *)
(* label names, None for an unknown one; "inline" the field whose          *)
(* directive pattern the line matches; "text" what the line says, None for *)
(* a heading, a bare label or a bare list marker, never for a directive.   *)
(***************************************************************************)
Line ==
  [kind : {"fence", "blank", "heading", "label", "text"},
   char : {"backtick", "tilde", None}, length : Nat,
   field : (Fields \ {"role_name"}) \cup {None},
   inline : InlineFields \cup {None},
   text : Texts \cup {None}]

\* fence_character and fence_length.
Fence == [char : {"backtick", "tilde", None}, length : Nat]

\* An explicit None is a value the caller states; role_name None is no value.
Stated(e) ==
  /\ DOMAIN e \subseteq Fields
  /\ \A f \in DOMAIN e : e[f] \in Seq(Texts) \/ (e[f] = None /\ f # "role_name")

ASSUME NormalizerAssumption ==
  /\ None \notin Texts
  /\ MaxLines \in Nat
  /\ {"prohibited_behaviors", "responsibilities"} \subseteq ListFields
  /\ "role_name" \notin ListFields \cup ScalarFields
  /\ ListFields \cap ScalarFields = {}
  /\ None \notin Fields \cup Fence
  /\ Lines \subseteq Line
  /\ \A line \in Lines : /\ line.kind = "heading" => line.text = None
                         /\ line.inline # None => line.text # None
  /\ \A e \in Explicit : Stated(e)

VARIABLES
  prompt,     \* the lines read so far
  current,    \* current_field
  fence,      \* fence_character and fence_length, None outside a fence
  collected,  \* the spans of each field
  sections,   \* section_counts
  recognized, \* recognized_lines
  result      \* the returned NormalizationResult, None before

scan == <<prompt, current, fence, collected, sections, recognized>>
vars == <<scan, result>>

------------------------------------------------------------------------------
Init ==
  /\ prompt = <<>>
  /\ current = None /\ fence = None
  /\ collected = [f \in Fields |-> <<>>]
  /\ sections = [f \in Fields |-> 0]
  /\ recognized = {}
  /\ result = None

Here == Len(prompt) + 1

Collect(f) == collected' = [collected EXCEPT ![f] = Append(@, Here)]
\* Mutant: the line before is marked.
RecognizePrevious == recognized' = recognized \cup {Len(prompt)}
Recognize == recognized' = recognized \cup {Here}
OpenSection(f) ==
  /\ current' = f
  /\ sections' = [sections EXCEPT ![f] = @ + 1]

\* Mutant: a shorter fence line closes a longer fence.
ClosesShorter(line) == line.char = fence.char
Closes(line) == line.char = fence.char /\ line.length >= fence.length

ReadFence(line) ==
  /\ line.kind = "fence"
  /\ fence' = IF fence = None THEN [char |-> line.char, length |-> line.length]
              ELSE IF Closes(line) THEN None ELSE fence
  /\ current' = None
  /\ UNCHANGED <<collected, sections, recognized>>

ReadFenced(line) ==
  /\ line.kind # "fence" /\ fence # None
  /\ UNCHANGED <<current, fence, collected, sections, recognized>>

ReadBlank(line) ==
  /\ line.kind = "blank" /\ fence = None
  /\ current' = None
  /\ UNCHANGED <<fence, collected, sections, recognized>>

ReadHeading(line) ==
  /\ line.kind = "heading" /\ fence = None
  /\ IF line.field = None
       THEN current' = None /\ UNCHANGED <<sections, recognized>>
       ELSE OpenSection(line.field) /\ Recognize
  /\ UNCHANGED <<fence, collected>>

ReadLabel(line) ==
  /\ line.kind = "label" /\ line.field # None /\ fence = None
  /\ OpenSection(line.field) /\ Recognize
  /\ IF line.text = None THEN UNCHANGED collected ELSE Collect(line.field)
  /\ UNCHANGED fence

\* A line of a section; a bare list marker leaves no span.
ReadSectionLine(line) ==
  /\ line.kind = "text" /\ current # None /\ fence = None
  /\ IF line.text = None THEN UNCHANGED <<collected, recognized>>
     ELSE Collect(current) /\ Recognize
  /\ UNCHANGED <<current, fence, sections>>

\* Outside a section, or with an unknown label, which ends one.
ReadDirective(line) ==
  /\ \/ line.kind = "text" /\ current = None
     \/ line.kind = "label" /\ line.field = None
  /\ fence = None
  /\ current' = None
  /\ IF line.inline = None THEN UNCHANGED <<collected, recognized>>
     ELSE Collect(line.inline) /\ Recognize
  /\ UNCHANGED <<fence, sections>>

ReadLine ==
  /\ result = None /\ Len(prompt) < MaxLines
  /\ \E line \in Lines :
       /\ prompt' = Append(prompt, line)
       /\ \/ ReadFence(line) \/ ReadFenced(line) \/ ReadBlank(line)
          \/ ReadHeading(line) \/ ReadLabel(line)
          \/ ReadSectionLine(line) \/ ReadDirective(line)
  /\ UNCHANGED result

------------------------------------------------------------------------------
Saying(spans) == [k \in DOMAIN spans |-> prompt[spans[k]].text]
Distinct(spans) == ToSet(Saying(spans))

\* raw_prompt[start:end]: every line from the first span to the last.
Slice(spans) == [k \in 1..(Last(spans) - spans[1] + 1) |-> spans[1] + k - 1]

\* Mutant: the first of several differing sections is taken.
ConflictingNever(f) == FALSE
Conflicting(f) == sections[f] > 1 /\ Cardinality(Distinct(collected[f])) > 1

\* Mutant: a field with several sections is sliced like one with several lines.
ParsedLinesSliced(f) ==
  LET spans == collected[f] IN
  IF f \in ListFields THEN spans ELSE IF Conflicting(f) THEN None ELSE Slice(spans)

\* The lines whose text a field is given; None for sections that contradict
\* each other.
ParsedLines(f) ==
  LET spans == collected[f] IN
  IF f \in ListFields THEN spans
  ELSE IF Conflicting(f) THEN None
  ELSE IF Len(spans) = 1 \/ sections[f] > 1 THEN <<spans[1]>>
  ELSE Slice(spans)

Parsed == {f \in Fields : collected[f] # <<>>}
TextOf(lines) == IF lines = None THEN None ELSE [k \in DOMAIN lines |-> prompt[lines[k]].text]

\* A differing value of the prompt is reported, never one it does not give.
Conflicts(e) ==
  {f \in Parsed \cap DOMAIN e : ParsedLines(f) # None /\ e[f] # TextOf(ParsedLines(f))}

Status(f, e) ==
  IF f \in DOMAIN e THEN IF e[f] # None THEN "explicit" ELSE "unknown"
  ELSE IF f \in Parsed THEN IF ParsedLines(f) = None THEN "unknown" ELSE "parsed"
  ELSE "missing"

DraftValue(f, e) ==
  IF f \in DOMAIN e THEN e[f]
  ELSE IF f \in Parsed THEN TextOf(ParsedLines(f)) ELSE None

HasText(k) == prompt[k].kind # "blank"
Unparsed == {k \in DOMAIN prompt \ recognized : HasText(k)}

\* The NormalizationResult for a caller who states e.
NormalizationResult(e) ==
  [explicit |-> e,
   draft |-> [f \in Fields |-> DraftValue(f, e)],
   lines |-> [f \in Fields |-> IF f \in Parsed \ DOMAIN e THEN ParsedLines(f) ELSE None],
   status |-> [f \in Fields |-> Status(f, e)],
   conflicting |-> Conflicts(e),
   unparsed |-> Unparsed,
   unclosed |-> fence # None]

Normalize ==
  /\ result = None
  /\ \E e \in Explicit : result' = NormalizationResult(e)
  /\ UNCHANGED scan

Next == ReadLine \/ Normalize

Spec == Init /\ [][Next]_vars
------------------------------------------------------------------------------
(***************************************************************************)
(* What the layout of a prompt p means, without the scan.  A fence line    *)
(* opens a fence unless it is inside one or closes one.                    *)
(***************************************************************************)
ClosedBetween(p, i, a, b) ==
  \E c \in a..b : /\ p[c].kind = "fence" /\ p[c].char = p[i].char
                  /\ p[c].length >= p[i].length

Opens(p) ==
  LET opens[k \in DOMAIN p] ==
        /\ p[k].kind = "fence"
        /\ ~\E i \in 1..(k - 1) : opens[i] /\ ~ClosedBetween(p, i, i + 1, k - 1)
  IN opens

\* The fence that line i opens is still open after line k.
OpenAt(p, i, k) == Opens(p)[i] /\ ~ClosedBetween(p, i, i + 1, k)

Fenced(p, k) == p[k].kind = "fence" \/ \E i \in 1..(k - 1) : OpenAt(p, i, k - 1)

\* A line belongs to the section whose heading stands above it, with nothing
\* but lines of that section in between.
Heads(p, k, f) == p[k].kind \in {"heading", "label"} /\ p[k].field = f /\ ~Fenced(p, k)
InSection(p, k, f) ==
  \E h \in 1..k : Heads(p, h, f) /\ \A i \in (h + 1)..k : p[i].kind = "text"
Loose(p, k) == ~Fenced(p, k) /\ \A f \in Fields : ~InSection(p, k, f)

IsSource(p, k, f) ==
  /\ p[k].text # None
  /\ \/ InSection(p, k, f)
     \/ Loose(p, k) /\ p[k].kind \in {"text", "label"} /\ p[k].inline = f
Sources(p, f) == {k \in DOMAIN p : IsSource(p, k, f)}

\* A field is given exactly the lines the layout gives it, each once and in
\* their order: nothing of a code fence, nothing that follows the end of a
\* section, and no line of its own section is lost.
ExtractsTheLayout ==
  \A f \in Fields :
    /\ ToSet(collected[f]) = Sources(prompt, f)
    /\ \A a, b \in DOMAIN collected[f] : a < b => collected[f][a] < collected[f][b]

\* Every line with text ends up in one place: it is the source of a field, the
\* heading of one, or reported as not parsed.
EveryLineIsAccountedFor ==
  result # None =>
    \A k \in DOMAIN prompt :
      HasText(k) =>
        (k \in result.unparsed <=>
           \A f \in Fields : k \notin Sources(prompt, f) /\ ~Heads(prompt, k, f))

\* A scalar that several lines give is the text of one section: it crosses no
\* blank line, no fence and no other heading.
ScalarIsOneSection ==
  result # None =>
    \A f \in ScalarFields :
      result.lines[f] # None =>
        \E h \in DOMAIN prompt :
          /\ Heads(prompt, h, f)
          /\ \A k \in ToSet(result.lines[f]) :
               k >= h /\ \A i \in (h + 1)..k : prompt[i].kind = "text"

\* What the prompt says of a scalar twice and differently is not decided: the
\* draft leaves the field open unless the caller states it, and says so.
ContradictionsStayOpen ==
  result # None =>
    \A f \in ScalarFields :
      (\E i, j \in Sources(prompt, f), h \in DOMAIN prompt :
         /\ i < h /\ h <= j /\ Heads(prompt, h, f)
         /\ prompt[i].text # prompt[j].text)
      => IF f \in DOMAIN result.explicit
           THEN result.draft[f] = result.explicit[f]
           ELSE result.draft[f] = None /\ result.status[f] = "unknown"

\* What a code fence encloses is nobody's value.
FencedTextIsNotParsed ==
  result # None =>
    \A f \in Fields : result.lines[f] # None =>
      \A k \in ToSet(result.lines[f]) : prompt[k].kind # "fence" => ~Fenced(prompt, k)
=============================================================================
