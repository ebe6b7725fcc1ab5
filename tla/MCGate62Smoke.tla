--------------------------- MODULE MCGate62Smoke ----------------------------
(***************************************************************************)
(* Two tasks, three roles and three options; outputs of the first task     *)
(* that agree, tie, differ in the evidence alone or do not parse, of the   *)
(* second that are all the same or do not parse.                           *)
(***************************************************************************)
EXTENDS Gate62Smoke

Scores(scores, evidence) == [scores |-> scores, evidence |-> evidence]

MCOutputs ==
  <<{None, Scores(<<2, 0, 0>>, "brief"), Scores(<<0, 1, 1>>, "brief"),
     Scores(<<1, 1, 0>>, "brief"), Scores(<<1, 1, 0>>, "other")},
    {None, Scores(<<0, 2, 0>>, "brief")}>>
MCGolds == {<<g, 2>> : g \in Letters}
MCOrders == {<<<<1, 2, 3>>, <<1, 2, 3>>>>, <<<<2, 1, 3>>, <<3, 1, 2>>>>}
=============================================================================
