---------------------------- MODULE MCNormalizer ----------------------------
(***************************************************************************)
(* Prompts of up to five lines, each one of the sixteen shapes below; two  *)
(* texts, a scalar, the two list fields with directives, and callers that  *)
(* state nothing, the same, something else or None.                        *)
(***************************************************************************)
EXTENDS Normalizer

CONSTANTS a, b

MCTexts == {a, b}
MCListFields == {"prohibited_behaviors", "responsibilities"}
MCScalarFields == {"goal"}

Bare(kind) ==
  [kind |-> kind, char |-> None, length |-> 0, field |-> None, inline |-> None, text |-> None]
FenceLine(char, length) == [Bare("fence") EXCEPT !.char = char, !.length = length]
Label(field, text) == [Bare("label") EXCEPT !.field = field, !.text = text]
Directive(kind, field, text) == [Bare(kind) EXCEPT !.inline = field, !.text = text]

MCLines ==
  {FenceLine("backtick", 3), FenceLine("backtick", 4), FenceLine("tilde", 3), Bare("blank"),
   Bare("heading"), [Bare("heading") EXCEPT !.field = "goal"],
   Label("goal", a), Label("goal", b), Label("responsibilities", None),
   Directive("label", "responsibilities", a),
   Directive("text", "role_name", a), Directive("text", "role_name", b),
   Directive("text", "prohibited_behaviors", a),
   Directive("text", None, a), Directive("text", None, b), Bare("text")}

MCExplicit ==
  {<<>>, [goal |-> None], [goal |-> <<a>>], [role_name |-> <<b>>],
   [goal |-> <<b, a>>, responsibilities |-> <<>>]}
=============================================================================
