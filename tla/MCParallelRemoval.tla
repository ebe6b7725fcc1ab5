-------------------------- MODULE MCParallelRemoval --------------------------
(***************************************************************************)
(* Arguments for ParallelRemoval: a call that passes every check and every *)
(* call that departs from it in at most two places.                        *)
(***************************************************************************)
EXTENDS ParallelRemoval

CONSTANTS a, b, c, v1, v2, sig1, sig2

\* A call that passes every check of the preflight.
BaseRequest ==
  [target |-> a, version |-> "new", arity |-> "true", flags |-> FlagNames, edges |-> {}, upstream |-> {},
   inputs |-> {}, authority |-> [r \in Roles |-> "advisory"],
   signature |-> [r \in Roles |-> sig1], coupled |-> {}, nonRemovable |-> {},
   outputs |-> [r \in Roles |-> v1], hashes |-> [r \in Roles |-> v1],
   final |-> "answer"]

\* One departure from a call.
Departures(r) ==
  {[r EXCEPT !.flags = @ \ {f}] : f \in FlagNames}
  \cup {[r EXCEPT !.target = t] : t \in Roles \cup {Unknown, Malformed}}
  \cup {[r EXCEPT !.version = v] : v \in Versions}
  \cup {[r EXCEPT !.arity = t] : t \in Arities}
  \cup {[r EXCEPT !.final = o] : o \in Outputs}
  \cup {[r EXCEPT !.edges = @ \cup {e}] : e \in Roles \X Roles}
  \cup {[r EXCEPT !.upstream = @ \cup {e}] : e \in Roles \X Roles}
  \cup {[r EXCEPT !.inputs = @ \cup {e}] : e \in Roles \X Roles}
  \cup {[r EXCEPT !.authority[x] = l] : x \in Roles, l \in Authorities}
  \cup {[r EXCEPT !.signature[x] = sig2] : x \in Roles}
  \cup {[r EXCEPT !.coupled = @ \cup {x}] : x \in Roles}
  \cup {[r EXCEPT !.nonRemovable = @ \cup {x}] : x \in Roles}
  \cup {[r EXCEPT !.outputs[x] = v2] : x \in Roles}

MCRequests ==
  {r \in UNION {Departures(d) : d \in Departures(BaseRequest)} :
     "strategy_predeclared" \in r.flags => "frozen_other_responses" \in r.flags}
=============================================================================
