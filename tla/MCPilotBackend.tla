--------------------------- MODULE MCPilotBackend ---------------------------
(***************************************************************************)
(* The three roles of the pilot team and two options.  The last role       *)
(* generates every text of at most three tokens and some longer ones, the  *)
(* others a vote for either option or a text that has none.                *)
(***************************************************************************)
EXTENDS PilotBackend

CONSTANTS domain, elimination, verification
MCOrder == <<domain, elimination, verification>>

Few == {<<Answer(1)>>, <<<<"word">>, <<"break">>, Answer(2)>>, <<<<"open">>, Answer(1)>>}
Long ==
  {<<<<"open">>, Answer(1), <<"close">>, <<"break">>, Answer(2), <<"blank">>>>,
   <<<<"blank">>, <<"open">>, <<"word">>, <<"close">>, Answer(2)>>,
   <<<<"open">>, <<"word">>, <<"close">>, <<"word">>, <<"blank">>, Answer(1)>>,
   <<<<"open">>, <<"word">>, <<"close">>, <<"word">>, <<"break">>, Answer(3)>>,
   <<<<"word">>, <<"open">>, <<"close">>, Answer(1)>>,
   <<<<"close">>, <<"open">>, <<"break">>, Answer(1)>>,
   <<<<"open">>, <<"open">>, <<"close">>, Answer(1)>>,
   <<<<"open">>, <<"close">>, <<"close">>, Answer(1)>>}
Short == UNION {[1..n -> Tokens] : n \in 0..3}

MCTextsOf == [r \in Roles |-> IF r = verification THEN Short \cup Long ELSE Few]
=============================================================================
