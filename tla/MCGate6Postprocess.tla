------------------------- MODULE MCGate6Postprocess -------------------------
(* Two tasks whose votes select one of two answers.                        *)
EXTENDS Gate6Postprocess

CONSTANTS A, B
MCAnswers == {A, B}
=============================================================================
