----------------------------- MODULE MCDagBypass -----------------------------
(***************************************************************************)
(* Arguments for DagBypass: the chain up -> mid -> down -> sink with mid   *)
(* bypassed, and every call that departs from it in at most two places.    *)
(***************************************************************************)
EXTENDS DagBypass

CONSTANTS up, mid, down, sink

MCOrder == <<up, mid, down, sink>>
One(field, content) == [f \in {field} |-> content]
MCAnswers == {One("f", 0), One("f", 1), One("g", 0)}
Both == [f \in {"f", "g"} |-> 1]

ChainRule == [target |-> mid, upstream |-> up, downstream |-> down,
              input |-> "in", mapping |-> [f \in {"f"} |-> "g"]]

From(producer, payload) ==
  [producer |-> producer, artifact |-> "output", payload |-> payload]

Chain == {<<mid, "in">>, <<down, "in">>, <<sink, "in">>}
FeederOf(slot) == IF slot[1] = mid THEN up ELSE IF slot[1] = down THEN mid ELSE down

\* A call that passes every check: "f" of up becomes the "g" that down needs.
BasePayload == [r \in Roles |-> IF r = mid THEN One("g", 1) ELSE One("f", 0)]
BaseRequest ==
  [target |-> mid, version |-> "new", flags |-> FlagNames, rules |-> {ChainRule},
   edges |-> {<<up, mid>>, <<mid, down>>, <<down, sink>>},
   optionalEdges |-> {},
   contract |-> [s \in Chain |-> FeederOf(s)], optional |-> {},
   inputs |-> [s \in Chain |-> From(FeederOf(s), BasePayload[FeederOf(s)])],
   authority |-> [r \in Roles |-> "advisory"], nonRemovable |-> {},
   fields |-> [r \in Roles |-> IF r = mid THEN {"g"} ELSE {"f"}],
   needs |-> {"g"}, payload |-> BasePayload, final |-> "answer"]

With(f, slot, value) == [s \in DOMAIN f \cup {slot} |-> IF s = slot THEN value ELSE f[s]]

\* One more slot of a contract, fed in the trace as the run that made it would.
Fed(r, slot, producer) ==
  [r EXCEPT !.contract = With(@, slot, producer),
            !.inputs = With(@, slot, From(producer, r.payload[producer]))]

\* Another output of a role, in every slot it feeds or in its own node alone.
Wrote(r, role, payload) ==
  [r EXCEPT !.payload[role] = payload,
            !.inputs = [s \in DOMAIN @ |-> IF @[s].producer = role
                                             THEN [@[s] EXCEPT !.payload = payload]
                                             ELSE @[s]]]

\* A slot whose recorded artifact is not the one its producer wrote.
Recorded(r, slot) ==
  {[r EXCEPT !.inputs[slot].payload = p] : p \in {One("f", 1), Both}}
  \cup {[r EXCEPT !.inputs[slot].artifact = "other"],
        [r EXCEPT !.contract[slot] = Anyone],
        [r EXCEPT !.contract[slot] = Anyone, !.inputs[slot].producer = Unknown],
        [r EXCEPT !.contract[slot] = Anyone, !.inputs[slot].producer = up]}

\* One departure from a call.
Departures(r) ==
  {[r EXCEPT !.flags = @ \ {f}] : f \in FlagNames}
  \cup {[r EXCEPT !.target = t] : t \in {up, down, Unknown, Malformed}}
  \cup {[r EXCEPT !.version = v] : v \in Versions}
  \cup {[r EXCEPT !.final = o] : o \in Outputs}
  \cup {[r EXCEPT !.rules = @ \cup {[ChainRule EXCEPT !.mapping = <<>>]}],
        [r EXCEPT !.rules = {[ChainRule EXCEPT !.mapping = <<>>]}],
        [r EXCEPT !.rules = {[ChainRule EXCEPT !.upstream = sink]}],
        [r EXCEPT !.rules = {[ChainRule EXCEPT !.downstream = sink]}],
        [r EXCEPT !.rules = {[ChainRule EXCEPT !.input = "extra"]}]}
  \cup {[r EXCEPT !.edges = @ \ {e}] : e \in r.edges}
  \cup {[r EXCEPT !.edges = @ \cup {e}] : e \in {<<sink, up>>, <<mid, sink>>}}
  \cup {[r EXCEPT !.optionalEdges = @ \cup {e}] : e \in {<<mid, sink>>, <<up, down>>}}
  \cup {Fed(r, <<c, "extra">>, p) :
          <<c, p>> \in {<<sink, up>>, <<down, up>>, <<sink, mid>>, <<up, sink>>,
                        <<down, mid>>, <<mid, up>>}}
  \cup {[Fed(r, <<sink, "extra">>, p) EXCEPT !.optional = @ \cup {<<sink, "extra">>}] :
          p \in {up, mid}}
  \cup {[r EXCEPT !.inputs = [s \in DOMAIN @ \ {slot} |-> @[s]]] : slot \in DOMAIN r.inputs}
  \cup UNION {Recorded(r, slot) : slot \in DOMAIN r.inputs \cap DOMAIN r.contract}
  \cup {[r EXCEPT !.authority[x] = "veto"] : x \in {mid, up}}
  \cup {[r EXCEPT !.nonRemovable = @ \cup {x}] : x \in {mid, up}}
  \cup {[r EXCEPT !.fields[x] = {"f", "g"}] : x \in {up, mid}}
  \cup {[r EXCEPT !.needs = n] : n \in {{}, {"f"}}}
  \cup {Wrote(r, up, Both), Wrote(r, mid, Both), Wrote(r, mid, One("g", 0)),
        Wrote(r, down, One("f", 1))}
  \cup {[r EXCEPT !.payload[x] = Both] : x \in {up, mid}}

MCRequests ==
  {r \in UNION {Departures(d) : d \in Departures(BaseRequest)} :
     "strategy_predeclared" \in r.flags => r.rules # {}}
=============================================================================
