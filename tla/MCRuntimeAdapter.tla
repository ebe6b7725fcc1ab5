-------------------------- MODULE MCRuntimeAdapter --------------------------
(***************************************************************************)
(* A team of two roles; requests with no failed comparison, with one and   *)
(* with two, whose manifest names either aggregator; backends that leave   *)
(* the request as any plan and whose answer departs from a valid success   *)
(* for one of the plans in at most two places.                             *)
(***************************************************************************)
EXTENDS RuntimeAdapter

CONSTANTS a, b, v1, v2, t1, t2

MCPlan == [id |-> t1, roles |-> {a, b}, order |-> {a, b}]
MCRequests ==
  {[plan |-> MCPlan, aggregator |-> g, failing |-> f] :
     g \in Backends, f \in {{}, {"task_not_in_split"}, {"team_config_hash", "prompt_hashes"}}}

Success(p) ==
  LET outputs == [r \in p.order |-> v1] IN
  [id |-> p.id, seeds |-> Seeded(p), mock |-> FALSE, outputs |-> outputs,
   hashes |-> outputs, succeeded |-> TRUE, final |-> TRUE, form |-> "record"]

Less(f, r) == [x \in DOMAIN f \ {r} |-> f[x]]
Departures(e) ==
  {[e EXCEPT !.id = t2], [e EXCEPT !.mock = TRUE], [e EXCEPT !.succeeded = FALSE],
   [e EXCEPT !.final = FALSE], [e EXCEPT !.seeds.id = t2],
   [e EXCEPT !.form = "look_alike"], [e EXCEPT !.form = "not_json"],
   [e EXCEPT !.outputs = Less(@, a)], [e EXCEPT !.hashes = Less(@, a)],
   [e EXCEPT !.outputs = [x \in DOMAIN @ |-> v2]]}

MCAnswers ==
  {Success(MCPlan), Success([id |-> t2, roles |-> {a}, order |-> {a}])}
  \cup UNION {Departures(e) : e \in {Success(MCPlan)} \cup Departures(Success(MCPlan))}
=============================================================================
