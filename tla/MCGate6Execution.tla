-------------------------- MODULE MCGate6Execution --------------------------
(***************************************************************************)
(* Three tasks of two roles, two configurations, generations of one or two *)
(* seconds under an alarm of two, and a budget that both attempts together *)
(* can exhaust.                                                            *)
(***************************************************************************)
EXTENDS Gate6Execution

CONSTANTS c1, c2
MCConfigs == {c1, c2}
=============================================================================
