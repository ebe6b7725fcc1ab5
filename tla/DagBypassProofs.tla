--------------------------- MODULE DagBypassProofs ---------------------------
(***************************************************************************)
(* Proofs about DagBypass, for every team, every order and every set of    *)
(* calls that its assumptions admit, of traces that agree with themselves  *)
(* and of traces that do not: a REMOVE is one counterfactual run, only     *)
(* nodes below the bypass or a seam of the trace are executed, the schemas *)
(* of the evidence refuse only the arguments named, and a call implements  *)
(* Intervention.                                                           *)
(***************************************************************************)
EXTENDS DagBypass, FiniteSetTheorems, TLAPS

------------------------------------------------------------------------------
(* The order visits every role once.                                       *)

LEMMA OrderFacts ==
  /\ Len(Order) \in Nat
  /\ DOMAIN Order = 1..Len(Order)
  /\ \A i \in 1..Len(Order) : Order[i] \in Roles
  /\ \A role \in Roles : \E i \in 1..Len(Order) : Order[i] = role
BY OrderAssumption

LEMMA OrderIsInjective ==
  \A i, j \in 1..Len(Order) : Order[i] = Order[j] => i = j
<1>1. Order \in [1..Len(Order) -> Roles]
  BY OrderAssumption
<1>2. Order \in Surjection(1..Len(Order), Roles)
  BY <1>1, OrderFacts DEF Surjection
<1>3. IsFiniteSet(1..Len(Order)) /\ Cardinality(1..Len(Order)) = Len(Order)
  <2>1. IsFiniteSet(1..Len(Order))
        /\ Cardinality(1..Len(Order)) = IF 1 > Len(Order) THEN 0 ELSE Len(Order) - 1 + 1
    BY OrderFacts, FS_Interval
  <2>2. QED
    BY <2>1, OrderFacts
<1>4. Order \in Injection(1..Len(Order), Roles)
  BY <1>2, <1>3, FS_Surjection, OrderAssumption
<1>5. QED
  BY <1>1, <1>4 DEF Injection, IsInjective

\* Before is a strict order.
LEMMA BeforeIsStrict ==
  ASSUME NEW x, NEW y, Before(x, y)
  PROVE  x \in Roles /\ y \in Roles /\ x # y /\ ~Before(y, x)
<1>1. PICK i, j \in 1..Len(Order) : i < j /\ Order[i] = x /\ Order[j] = y
  BY OrderFacts DEF Before
<1>2. x \in Roles /\ y \in Roles
  BY <1>1, OrderFacts
<1>3. \A k \in 1..Len(Order) : (Order[k] = x => k = i) /\ (Order[k] = y => k = j)
  BY <1>1, OrderIsInjective
<1>4. x # y
  BY <1>1, <1>3, OrderFacts
<1>5. ~Before(y, x)
  <2> SUFFICES ASSUME NEW k \in 1..Len(Order), NEW l \in 1..Len(Order),
                      k < l, Order[k] = y, Order[l] = x
               PROVE  FALSE
    BY OrderFacts DEF Before
  <2>1. k = j /\ l = i
    BY <1>3
  <2>2. QED
    BY <1>1, <2>1, OrderFacts
<1>6. QED
  BY <1>2, <1>4, <1>5

LEMMA BeforeIsTransitive ==
  ASSUME NEW x, NEW y, NEW z, Before(x, y), Before(y, z)
  PROVE  Before(x, z)
<1>1. PICK i, j \in 1..Len(Order) : i < j /\ Order[i] = x /\ Order[j] = y
  BY OrderFacts DEF Before
<1>2. PICK k, l \in 1..Len(Order) : k < l /\ Order[k] = y /\ Order[l] = z
  BY OrderFacts DEF Before
<1>3. j = k
  BY <1>1, <1>2, OrderIsInjective
<1>4. i < l
  BY <1>1, <1>2, <1>3, OrderFacts
<1>5. QED
  BY <1>1, <1>2, <1>4, OrderFacts DEF Before

------------------------------------------------------------------------------
(* What the checks before the run establish.                               *)

LEMMA TheRuleIsRegistered ==
  ASSUME NEW r, HasRule(r)
  PROVE  RuleOf(r) \in r.rules /\ RuleOf(r).target = r.target
<1>1. RulesFor(r) # {}
  BY FS_EmptySet DEF HasRule
<1>2. RuleOf(r) \in RulesFor(r)
  BY <1>1 DEF RuleOf
<1>3. QED
  BY <1>2 DEF RulesFor

\* The facts about the arguments that the proofs use.
Admitted(r) ==
  /\ HasRule(r)
  /\ r.target \in Roles
  /\ Before(RuleOf(r).upstream, r.target)
  /\ Before(r.target, RuleOf(r).downstream)
  /\ BypassSlot(r) \in DOMAIN r.inputs
  /\ r.inputs[BypassSlot(r)].producer = r.target
  /\ {"no_joint_intervention", "no_coverage_gap"} \subseteq r.flags

LEMMA PassedChecksAdmit ==
  ASSUME NEW r, FailedPreflight(r) = {}
  PROVE  Admitted(r)
<1>1. \A c \in DOMAIN Preflight(r) : Preflight(r)[c]
  BY DEF FailedPreflight
<1>2. /\ Preflight(r).single_registered_rule
      /\ Preflight(r).target_exists
      /\ Preflight(r).upstream_edge_exists
      /\ Preflight(r).downstream_edge_exists
      /\ Preflight(r).topological_order_valid
      /\ Preflight(r).baseline_trace_valid
      /\ Preflight(r).no_joint_intervention
      /\ Preflight(r).no_coverage_gap
  BY <1>1 DEF Preflight
<1>3. /\ HasRule(r) /\ r.target \in Roles
      /\ UpstreamEdge(r) /\ DownstreamEdge(r)
      /\ TopologicalOrderValid(r) /\ TraceValid(r)
      /\ Flag(r, "no_joint_intervention") /\ Flag(r, "no_coverage_gap")
  BY <1>2 DEF Preflight
<1>4. /\ <<RuleOf(r).upstream, r.target>> \in r.edges
      /\ <<r.target, RuleOf(r).downstream>> \in r.edges
      /\ BypassSlot(r) \in Required(r)
      /\ r.contract[BypassSlot(r)] = r.target
  BY <1>3 DEF UpstreamEdge, DownstreamEdge, HasDownstreamInput
<1>5. /\ Before(RuleOf(r).upstream, r.target)
      /\ Before(r.target, RuleOf(r).downstream)
  BY <1>3, <1>4 DEF TopologicalOrderValid
<1>6. BypassSlot(r) \in DOMAIN r.inputs
  BY <1>3, <1>4 DEF TraceValid
<1>7. r.inputs[BypassSlot(r)].producer = r.target
  <2>1. r.contract[BypassSlot(r)] # Anyone
    BY <1>3, <1>4, UnknownAssumption
  <2>2. QED
    BY <1>3, <1>4, <1>6, <2>1 DEF TraceValid
<1>8. QED
  BY <1>3, <1>5, <1>6, <1>7 DEF Admitted, Flag

\* What a call is made of.
LEMMA RequestFacts ==
  ASSUME NEW r \in Requests
  PROVE  /\ r.target \in Roles \cup {Unknown, Malformed}
         /\ \A slot \in DOMAIN r.inputs :
              /\ slot = <<slot[1], slot[2]>>
              /\ slot[1] \in Roles /\ slot[2] \in InputNames
         /\ DOMAIN r.payload = Roles
         /\ \A role \in Roles : r.payload[role] \in Payload
<1>1. /\ DOMAIN r.inputs \subseteq Slots
      /\ r \in Request(DOMAIN r.contract, DOMAIN r.inputs)
  BY RequestsAssumption
<1>2. r.target \in Roles \cup {Unknown, Malformed} /\ r.payload \in [Roles -> Payload]
  BY <1>1 DEF Request
<1>3. QED
  BY <1>1, <1>2 DEF Slots

------------------------------------------------------------------------------
(* Mapping a payload changes names and nothing else.                       *)

LEMMA RenamingIsInjective ==
  ASSUME NEW p, NEW m, Mappable(p, m),
         NEW f \in DOMAIN p, NEW g \in DOMAIN p, Renamed(m, f) = Renamed(m, g)
  PROVE  f = g
<1>1. CASE m = <<>>
  BY <1>1 DEF Renamed
<1>2. CASE m # <<>>
  <2>1. Injective(m) /\ (DOMAIN p \ DOMAIN m) \cap Targets(m) = {}
    BY <1>2 DEF Mappable
  <2>2. QED
    BY <2>1 DEF Renamed, Injective, Targets
<1>3. QED
  BY <1>1, <1>2

LEMMA MappingOnlyRenames ==
  ASSUME NEW p \in Payload, NEW m, Mappable(p, m)
  PROVE  /\ \A f \in DOMAIN p : Mapped(p, m)[Renamed(m, f)] = p[f]
         /\ Cardinality(DOMAIN Mapped(p, m)) = Cardinality(DOMAIN p)
<1> DEFINE Names == {Renamed(m, f) : f \in DOMAIN p}
           rename == [f \in DOMAIN p |-> Renamed(m, f)]
<1>1. DOMAIN Mapped(p, m) = Names
  BY DEF Mapped
<1>2. ASSUME NEW f \in DOMAIN p PROVE Mapped(p, m)[Renamed(m, f)] = p[f]
  <2>1. (CHOOSE h \in DOMAIN p : Renamed(m, h) = Renamed(m, f)) = f
    BY RenamingIsInjective
  <2>2. QED
    BY <2>1 DEF Mapped
<1>3. IsFiniteSet(DOMAIN p)
  <2>1. DOMAIN p \in SUBSET Fields
    BY DEF Payload
  <2>2. QED
    BY <2>1, FS_Subset, FieldsAssumption
<1>4. rename \in Surjection(DOMAIN p, Names)
  BY DEF Surjection
<1>5. rename \in Injection(DOMAIN p, Names)
  <2>1. rename \in [DOMAIN p -> Names]
    OBVIOUS
  <2>2. \A f, g \in DOMAIN p : rename[f] = rename[g] => f = g
    BY RenamingIsInjective
  <2>3. QED
    BY <2>1, <2>2 DEF Injection, IsInjective
<1>6. Cardinality(Names) = Cardinality(DOMAIN p)
  <2> HIDE DEF Names, rename
  <2>1. QED
    BY <1>3, <1>4, <1>5, FS_Surjection
<1>7. QED
  BY <1>1, <1>2, <1>6

------------------------------------------------------------------------------
(* The run's bookkeeping as operators of the values it is about: the call  *)
(* r and the nodes n.                                                      *)

Names(r, role) == {n \in InputNames : <<role, n>> \in DOMAIN r.inputs}
Recorded(r, role) == [n \in Names(r, role) |-> r.inputs[<<role, n>>].payload]
Handed(r) == Mapped(r.payload[RuleOf(r).upstream], RuleOf(r).mapping)

\* Linked, of a call.
Links(r, slot) ==
  r.inputs[slot].artifact = "output" /\ Before(r.inputs[slot].producer, slot[1])

\* What the nodes n hand to a role: of those before it.
Given(r, n, role) ==
  [name \in Names(r, role) |->
     IF <<role, name>> = BypassSlot(r) THEN Handed(r)
     ELSE IF Links(r, <<role, name>>) /\ r.inputs[<<role, name>>].producer \in DOMAIN n
       THEN n[r.inputs[<<role, name>>].producer].output
     ELSE r.inputs[<<role, name>>].payload]

SeamsOf(r) ==
  {role \in Roles :
     \E n \in Names(r, role) :
       /\ Links(r, <<role, n>>) /\ r.inputs[<<role, n>>].producer # r.target
       /\ r.inputs[<<role, n>>].payload # r.payload[r.inputs[<<role, n>>].producer]}

Closed(r, S) ==
  /\ {RuleOf(r).downstream} \cup SeamsOf(r) \subseteq S
  /\ \A slot \in DOMAIN r.inputs :
       Links(r, slot) /\ r.inputs[slot].producer \in S => slot[1] \in S
Reach(r) == {role \in Roles : \A S \in SUBSET Roles : Closed(r, S) => role \in S}

OutputsOf(n) == [role \in DOMAIN n |-> n[role].output]

Extended(n, role, node) ==
  [x \in DOMAIN n \cup {role} |-> IF x = role THEN node ELSE n[x]]

ArtifactMaps(r) ==
  /\ Mappable(r.payload[RuleOf(r).upstream], RuleOf(r).mapping)
  /\ r.needs \subseteq DOMAIN Handed(r)

\* What holds of a node, once visited.
SoundNode(r, n, role) ==
  /\ n[role].inputs = Given(r, n, role)
  /\ IF n[role].reused
       THEN n[role].inputs = Recorded(r, role) /\ n[role].output = r.payload[role]
       ELSE n[role].inputs # Recorded(r, role) /\ role \in Reach(r)

LEMMA Meanings ==
  /\ Bypassed = Handed(req)
  /\ Seams = SeamsOf(req)
  /\ Closure = Reach(req)
  /\ NodeOutputs = OutputsOf(nodes)
  /\ \A slot : Linked(slot) <=> Links(req, slot)
  /\ \A role : /\ NamesOf(role) = Names(req, role)
               /\ BaselineInputs(role) = Recorded(req, role)
<1>1. Bypassed = Handed(req) /\ NodeOutputs = OutputsOf(nodes)
  BY DEF Bypassed, UpstreamPayload, Handed, NodeOutputs, OutputsOf
<1>2. \A slot : Linked(slot) <=> Links(req, slot)
  BY DEF Linked, Links
<1>3. \A role : /\ NamesOf(role) = Names(req, role)
                /\ BaselineInputs(role) = Recorded(req, role)
  BY DEF NamesOf, Names, BaselineInputs, Recorded
<1>4. Seams = SeamsOf(req)
  BY <1>2, <1>3 DEF Seams, SeamsOf
<1>5. Closure = Reach(req)
  BY <1>2, <1>4 DEF Closure, Reach, Closed
<1>6. QED
  BY <1>1, <1>2, <1>3, <1>4, <1>5

\* No role of the order comes before one that precedes it, or before itself.
LEMMA OrderIsStrict ==
  ASSUME NEW k \in 1..Len(Order), NEW i \in 1..k
  PROVE  ~Before(Order[k], Order[i])
<1> SUFFICES ASSUME Before(Order[k], Order[i]) PROVE FALSE
  OBVIOUS
<1>1. i \in 1..Len(Order) /\ k \in DOMAIN Order /\ i \in DOMAIN Order
  BY OrderFacts
<1>2. Order[k] # Order[i] /\ ~Before(Order[i], Order[k])
  BY BeforeIsStrict
<1>3. i < k
  BY <1>1, <1>2, OrderFacts
<1>4. QED
  BY <1>1, <1>2, <1>3 DEF Before

\* A visit changes nothing for the nodes visited before it.
LEMMA VisitKeepsInputs ==
  ASSUME NEW r \in Requests, NEW n, NEW node, NEW k \in 1..Len(Order),
         NEW i \in 1..k, NEW role, role = Order[i]
  PROVE  Given(r, Extended(n, Order[k], node), role) = Given(r, n, role)
<1>1. ASSUME NEW name \in Names(r, role), Links(r, <<role, name>>)
      PROVE  r.inputs[<<role, name>>].producer # Order[k]
  BY <1>1, OrderIsStrict DEF Links
<1>2. \A p : p # Order[k] =>
        /\ p \in DOMAIN Extended(n, Order[k], node) <=> p \in DOMAIN n
        /\ p \in DOMAIN n => Extended(n, Order[k], node)[p] = n[p]
  BY DEF Extended
<1>3. QED
  BY <1>1, <1>2 DEF Given

------------------------------------------------------------------------------
(* The inductive invariant.                                                *)

\* The checks of a report: all passed, or one failed.
Passed(r, m, checks) ==
  /\ FailedPreflight(r) = {} /\ m # "fail"
  /\ \A c \in PostChecks : checks[c] # "fail" /\ checks[c] # "not_run"
Conclusive(r, m, checks) ==
  \/ FailedPreflight(r) # {} \/ m = "fail"
  \/ \E c \in PostChecks : checks[c] = "fail"
  \/ \A c \in PostChecks : checks[c] # "not_run"

LEMMA Verdicts ==
  /\ Valid <=> Passed(req, mapping, post)
  /\ ReportAccepted <=> Conclusive(req, mapping, post)
<1>1. /\ FailedChecks = {} <=> /\ FailedPreflight(req) = {} /\ mapping # "fail"
                               /\ \A c \in PostChecks : post[c] # "fail"
      /\ NotRunChecks = {} <=> \A c \in PostChecks : post[c] # "not_run"
  BY DEF FailedChecks, NotRunChecks
<1>2. QED
  BY <1>1 DEF Valid, ReportAccepted, Passed, Conclusive

CheckValues == {"not_run", "pass", "fail"}
Places == {"preflight", "replay", "map", "execute", "aggregate", "summary",
           "returned", "raised"}

TypeInv ==
  /\ req \in Requests
  /\ pc \in Places
  /\ next \in 1..(Len(Order) + 1)
  /\ mapping \in CheckValues
  /\ post \in [PostChecks -> CheckValues]
  /\ action \in {"none", "KEEP", "REMOVE"}
  /\ version \in {"input", "output"}
  /\ removed \subseteq Roles \cup {Unknown, Malformed}
  /\ raisedBy \in {"none", "baseline", "answer", "validation"}

\* The baseline snapshot is the record's, and every other snapshot is of what
\* the checks say it is.
Snapshots ==
  /\ DOMAIN snap \subseteq Kinds
  /\ DOMAIN snap # {} =>
       /\ FailedPreflight(req) = {}
       /\ "baseline" \in DOMAIN snap
       /\ snap["baseline"] = [hashes |-> req.payload, final |-> req.final]
  /\ post["replayable_aggregation"] = "pass" =>
       /\ "replay" \in DOMAIN snap
       /\ snap["replay"] = snap["baseline"]
  /\ "counterfactual" \in DOMAIN snap =>
       snap["counterfactual"].hashes = OutputsOf(nodes)

\* A check that passed rests on the checks before it.
Checks ==
  /\ mapping = "pass" =>
       /\ post["replayable_aggregation"] = "pass"
       /\ ArtifactMaps(req)
  /\ post["execution_succeeded"] = "pass" =>
       mapping = "pass" /\ next = Len(Order) + 1
  /\ post["counterfactual_aggregation_succeeded"] = "pass" =>
       "counterfactual" \in DOMAIN snap

Progress ==
  /\ pc = "preflight" => DOMAIN snap = {}
  /\ pc = "replay" => DOMAIN snap = {"baseline"}
  /\ pc \in {"map", "execute", "aggregate"} =>
       /\ DOMAIN snap = {"baseline", "replay"}
       /\ post["replayable_aggregation"] = "pass"
  /\ pc \in {"preflight", "replay", "map"} => next = 1
  /\ pc \in {"execute", "aggregate"} => mapping = "pass"
  /\ pc \in {"preflight", "replay"} => \A c \in PostChecks : post[c] = "not_run"
  /\ pc \in {"map", "execute"} =>
       \A c \in PostChecks \ {"replayable_aggregation"} : post[c] = "not_run"
  /\ pc = "aggregate" =>
       \A c \in PostChecks \ {"counterfactual_aggregation_succeeded"} :
         post[c] = "pass"
  /\ pc = "summary" => Conclusive(req, mapping, post)

\* The nodes are those of the order up to the next one, the target left out.
Visited ==
  /\ DOMAIN nodes = {Order[i] : i \in 1..(next - 1)} \ {req.target}
  /\ DOMAIN nodes # {} => mapping = "pass"

\* A node read what the counterfactual run, as it stands now, hands it: no
\* producer is visited after its consumer.
NodesAreSound == \A role \in DOMAIN nodes : SoundNode(req, nodes, role)

Decided ==
  /\ raisedBy # "none" <=> pc = "raised"
  /\ OnlyUnfitArgumentsRaise
  /\ action = "none" <=> pc # "returned"
  /\ action = "REMOVE" => Passed(req, mapping, post)
  /\ action = "none" => version = "input"

IInv ==
  /\ TypeInv
  /\ Snapshots
  /\ Checks
  /\ Progress
  /\ Visited
  /\ NodesAreSound
  /\ Decided

LEMMA InitHolds == Init => IInv
<1> SUFFICES ASSUME Init PROVE IInv
  OBVIOUS
<1>1. DOMAIN nodes = {} /\ DOMAIN snap = {}
  BY DEF Init
<1>2. TypeInv
  BY OrderFacts DEF Init, TypeInv, Places, CheckValues
<1>3. Snapshots /\ Checks /\ Progress /\ Decided
  BY <1>1 DEF Init, Snapshots, Checks, Progress, Decided, PostChecks,
    OnlyUnfitArgumentsRaise
<1>4. Visited /\ NodesAreSound
  BY <1>1, OrderFacts DEF Init, Visited, NodesAreSound
<1>5. QED
  BY <1>2, <1>3, <1>4 DEF IInv

------------------------------------------------------------------------------
(* One lemma per action.                                                   *)

LEMMA CheckNames ==
  PostChecks =
    {"replayable_aggregation", "execution_succeeded", "same_role_seeds",
     "target_not_executed", "unchanged_inputs_reused",
     "counterfactual_aggregation_succeeded"}
BY DEF PostChecks

LEMMA NoNodesYet ==
  ASSUME Visited, next = 1
  PROVE  DOMAIN nodes = {}
BY DEF Visited

\* Steps that visit no node.
LEMMA NodesFrame ==
  ASSUME IInv, UNCHANGED <<req, nodes, next>>,
         DOMAIN nodes # {} => mapping' = mapping
  PROVE  Visited' /\ NodesAreSound'
BY DEF IInv, Visited, NodesAreSound

\* Steps before the return decide nothing.
LEMMA DecidedFrame ==
  ASSUME IInv, Undecided, pc \notin {"returned", "raised"},
         pc' \notin {"returned", "raised"}
  PROVE  Decided'
BY DEF IInv, Decided, Undecided, OnlyUnfitArgumentsRaise

\* A call that raises leaves everything as it was.
LEMMA RaiseKeepsIInv ==
  ASSUME IInv, pc \notin {"returned", "raised"},
         NEW why \in {"baseline", "answer", "validation"}, Raise(why),
         why = "validation" => UnfitArguments,
         why = "baseline" => req.final \in NotJson \cup NotText
  PROVE  IInv'
<1>1. /\ pc' = "raised" /\ raisedBy' = why
      /\ UNCHANGED <<req, next, nodes, mapping, post, snap, action, version, removed>>
  BY DEF Raise
<1>2. TypeInv'
  BY <1>1 DEF IInv, TypeInv, Places
<1>3. Snapshots' /\ Checks' /\ Progress'
  BY <1>1 DEF IInv, Snapshots, Checks, Progress
<1>4. Visited' /\ NodesAreSound'
  BY <1>1, NodesFrame
<1>5. OnlyUnfitArgumentsRaise'
  <2>1. UnfitArguments' <=> UnfitArguments
    BY <1>1 DEF UnfitArguments, Valid, FailedChecks, NotRunChecks
  <2>2. QED
    BY <1>1, <2>1 DEF OnlyUnfitArgumentsRaise
<1>6. Decided'
  BY <1>1, <1>5 DEF IInv, Decided, Passed
<1>7. QED
  BY <1>2, <1>3, <1>4, <1>6 DEF IInv

Took(s, kind, hashes, final) ==
  [k \in DOMAIN s \cup {kind} |->
     IF k = kind THEN [hashes |-> hashes, final |-> final] ELSE s[k]]

LEMMA SnapshotTaken ==
  ASSUME NEW s, NEW kind, NEW hashes, NEW final
  PROVE  /\ DOMAIN Took(s, kind, hashes, final) = DOMAIN s \cup {kind}
         /\ Took(s, kind, hashes, final)[kind] = [hashes |-> hashes, final |-> final]
         /\ \A k \in DOMAIN s \ {kind} : Took(s, kind, hashes, final)[k] = s[k]
BY DEF Took

LEMMA RunPreflightKeepsIInv ==
  ASSUME IInv, RunPreflight
  PROVE  IInv'
<1>0. CASE Raise("baseline")
  BY <1>0, RaiseKeepsIInv DEF RunPreflight, Undecided, Raise
<1> SUFFICES ASSUME ~Raise("baseline") PROVE IInv'
  BY <1>0
<1>1. /\ pc = "preflight" /\ DOMAIN snap = {} /\ next = 1
      /\ \A c \in PostChecks : post[c] = "not_run"
      /\ mapping \in CheckValues /\ mapping # "pass"
  BY CheckNames DEF RunPreflight, IInv, Progress, TypeInv, Checks
<1>2. /\ UNCHANGED <<next, nodes, mapping, post, req, action, version, removed,
                     raisedBy>>
      /\ Undecided
  BY DEF RunPreflight, Undecided
<1>3. \/ /\ FailedPreflight(req) = {} /\ pc' = "replay"
         /\ snap' = Took(snap, "baseline", req.payload, req.final)
      \/ FailedPreflight(req) # {} /\ pc' = "summary" /\ snap' = snap
  BY DEF RunPreflight, WithSnapshot, Took
<1>4. TypeInv'
  BY <1>2, <1>3 DEF IInv, TypeInv, Places
<1> DEFINE record == [hashes |-> req.payload, final |-> req.final]
<1>11. FailedPreflight(req) = {} =>
        DOMAIN snap' = {"baseline"} /\ snap'["baseline"] = record
  BY <1>1, <1>3 DEF Took
<1>12. FailedPreflight(req) # {} => DOMAIN snap' = {}
  BY <1>1, <1>3
<1>5. Snapshots'
  BY <1>1, <1>2, <1>11, <1>12, CheckNames DEF Snapshots, Kinds
<1>6. Checks'
  BY <1>1, <1>2, CheckNames DEF Checks
<1>7. Progress'
  <2>1. CASE FailedPreflight(req) = {}
    BY <1>1, <1>2, <1>3, <1>11, <2>1, CheckNames DEF Progress
  <2>2. CASE FailedPreflight(req) # {}
    BY <1>1, <1>2, <1>3, <2>2 DEF Progress, Conclusive
  <2>3. QED
    BY <2>1, <2>2
<1>8. Visited' /\ NodesAreSound'
  BY <1>2, NodesFrame
<1>9. Decided'
  BY <1>1, <1>2, <1>3, DecidedFrame
<1>10. QED
  BY <1>4, <1>5, <1>6, <1>7, <1>8, <1>9 DEF IInv

LEMMA ReplayedKeepsIInv ==
  ASSUME IInv, pc = "replay", NEW final \in Outputs, Replayed(final)
  PROVE  IInv'
<1>1. /\ pc = "replay" /\ DOMAIN snap = {"baseline"} /\ next = 1
      /\ \A c \in PostChecks : post[c] = "not_run"
      /\ FailedPreflight(req) = {}
      /\ snap["baseline"] = [hashes |-> req.payload, final |-> req.final]
      /\ mapping \in CheckValues /\ mapping # "pass"
      /\ post \in [PostChecks -> CheckValues]
  BY CheckNames DEF IInv, Progress, TypeInv, Checks, Snapshots
<1>2. UNCHANGED <<next, nodes, mapping, req, action, version, removed, raisedBy>> /\ Undecided
  BY DEF Replayed, Undecided
<1>3. /\ snap' = Took(snap, "replay", req.payload, final)
      /\ post' = [post EXCEPT !["replayable_aggregation"] =
                    IF final = req.final THEN "pass" ELSE "fail"]
      /\ pc' = IF final = req.final THEN "map" ELSE "summary"
  BY DEF Replayed, WithSnapshot, Took, AfterReplay
<1>4. /\ DOMAIN snap' = {"baseline", "replay"}
      /\ snap'["baseline"] = snap["baseline"]
      /\ snap'["replay"] = [hashes |-> req.payload, final |-> final]
  BY <1>1, <1>3 DEF Took
<1>5. /\ post' \in [PostChecks -> CheckValues]
      /\ post'["replayable_aggregation"] = IF final = req.final THEN "pass" ELSE "fail"
      /\ \A c \in PostChecks \ {"replayable_aggregation"} : post'[c] = "not_run"
  BY <1>1, <1>3, CheckNames DEF CheckValues
<1>6. TypeInv'
  BY <1>2, <1>3, <1>5 DEF IInv, TypeInv, Places
<1>7. Snapshots'
  BY <1>1, <1>2, <1>4, <1>5 DEF Snapshots, Kinds
<1>8. Checks'
  BY <1>1, <1>2, <1>5, CheckNames DEF Checks
<1>9. Progress'
  BY <1>1, <1>2, <1>3, <1>4, <1>5, CheckNames DEF Progress, Conclusive
<1>10. Visited' /\ NodesAreSound'
  BY <1>2, NodesFrame
<1>11. Decided'
  BY <1>1, <1>2, <1>3, DecidedFrame
<1>12. QED
  BY <1>6, <1>7, <1>8, <1>9, <1>10, <1>11 DEF IInv

LEMMA ReplayKeepsIInv ==
  ASSUME IInv, Replay
  PROVE  IInv'
BY ReplayedKeepsIInv, RaiseKeepsIInv DEF Replay

LEMMA MapArtifactKeepsIInv ==
  ASSUME IInv, MapArtifact
  PROVE  IInv'
<1>1. /\ pc = "map" /\ DOMAIN snap = {"baseline", "replay"} /\ next = 1
      /\ post["replayable_aggregation"] = "pass"
      /\ \A c \in PostChecks \ {"replayable_aggregation"} : post[c] = "not_run"
  BY DEF MapArtifact, IInv, Progress
<1>2. /\ UNCHANGED <<next, nodes, post, snap, req, action, version, removed,
                     raisedBy>>
      /\ Undecided
  BY DEF MapArtifact, Undecided
<1>3. \/ ArtifactMaps(req) /\ mapping' = "pass" /\ pc' = "execute"
      \/ mapping' = "fail" /\ pc' = "summary"
  BY DEF MapArtifact, ArtifactMaps, UpstreamPayload, Bypassed, Handed
<1>4. DOMAIN nodes = {}
  BY <1>1, NoNodesYet DEF IInv
<1>5. TypeInv'
  BY <1>2, <1>3 DEF IInv, TypeInv, Places, CheckValues
<1>6. Snapshots'
  BY <1>2 DEF IInv, Snapshots
<1>7. Checks'
  BY <1>1, <1>2, <1>3, CheckNames DEF Checks
<1>8. Progress'
  BY <1>1, <1>2, <1>3 DEF Progress, Conclusive
<1>9. Visited' /\ NodesAreSound'
  BY <1>2, <1>4, NodesFrame
<1>10. Decided'
  BY <1>1, <1>2, <1>3, DecidedFrame
<1>11. QED
  BY <1>5, <1>6, <1>7, <1>8, <1>9, <1>10 DEF IInv

\* A failure after the replay ends the attempt and leaves what was collected.
LEMMA FailureKeepsIInv ==
  ASSUME IInv, UNCHANGED <<next, nodes, mapping, snap>>, Undecided,
         pc \in {"replay", "execute", "aggregate"}, pc' = "summary",
         post' \in [PostChecks -> CheckValues],
         \E c \in PostChecks : post'[c] = "fail",
         \A c \in {"execution_succeeded", "counterfactual_aggregation_succeeded"} :
           post'[c] = "pass" => post[c] = "pass",
         \/ post'["replayable_aggregation"] = post["replayable_aggregation"]
         \/ /\ post["replayable_aggregation"] # "pass"
            /\ post'["replayable_aggregation"] # "pass"
  PROVE  IInv'
<1>1. UNCHANGED <<req, action, version, removed, raisedBy>>
  BY DEF Undecided
<1>2. TypeInv'
  BY <1>1 DEF IInv, TypeInv, Places
<1>3. Snapshots'
  BY <1>1 DEF IInv, Snapshots
<1>4. Checks'
  BY <1>1 DEF IInv, Checks
<1>5. Progress'
  BY DEF Progress, Conclusive
<1>6. Visited' /\ NodesAreSound'
  BY <1>1, NodesFrame
<1>7. Decided'
  BY DecidedFrame
<1>8. QED
  BY <1>2, <1>3, <1>4, <1>5, <1>6, <1>7 DEF IInv

Executed(q, outcome) ==
  [c \in PostChecks |->
     IF c = "execution_succeeded" THEN outcome
     ELSE IF c \in Claims THEN "pass" ELSE q[c]]

LEMMA ExecutedIs ==
  ASSUME NEW q \in [PostChecks -> CheckValues], NEW outcome \in CheckValues
  PROVE  /\ Executed(q, outcome) \in [PostChecks -> CheckValues]
         /\ Executed(q, outcome)["execution_succeeded"] = outcome
         /\ \A c \in Claims : Executed(q, outcome)[c] = "pass"
         /\ \A c \in {"replayable_aggregation", "counterfactual_aggregation_succeeded"} :
              Executed(q, outcome)[c] = q[c]
BY CheckNames DEF Executed, Claims, CheckValues

LEMMA ExecutorFailsKeepsIInv ==
  ASSUME IInv, pc = "execute", post' = AfterExecution("fail"), pc' = "summary",
         UNCHANGED <<next, nodes, mapping, snap>>, Undecided
  PROVE  IInv'
<1>1. post \in [PostChecks -> CheckValues] /\ "fail" \in CheckValues
  BY DEF IInv, TypeInv, CheckValues
<1>2. /\ post' \in [PostChecks -> CheckValues]
      /\ post'["execution_succeeded"] = "fail"
      /\ \A c \in {"replayable_aggregation", "counterfactual_aggregation_succeeded"} :
           post'[c] = post[c]
  <2>1. post' = Executed(post, "fail")
    BY DEF AfterExecution, Executed
  <2>2. QED
    BY <1>1, <2>1, ExecutedIs
<1>3. QED
  BY <1>2, CheckNames, FailureKeepsIInv

LEMMA AggregatorFailsKeepsIInv ==
  ASSUME IInv, AggregatorFails
  PROVE  IInv'
<1> DEFINE failed == IF pc = "replay" THEN "replayable_aggregation"
                     ELSE "counterfactual_aggregation_succeeded"
<1>1. /\ pc \in {"replay", "aggregate"} /\ pc' = "summary"
      /\ post' = [post EXCEPT ![failed] = "fail"]
      /\ UNCHANGED <<next, nodes, mapping, snap>> /\ Undecided
  BY DEF AggregatorFails
<1>2. /\ post \in [PostChecks -> CheckValues] /\ failed \in PostChecks
      /\ "fail" \in CheckValues
      /\ pc = "replay" => post["replayable_aggregation"] # "pass"
  BY <1>1, CheckNames DEF IInv, TypeInv, CheckValues, Progress
<1>3. /\ post' \in [PostChecks -> CheckValues] /\ post'[failed] = "fail"
      /\ \A c \in PostChecks \ {failed} : post'[c] = post[c]
  BY <1>1, <1>2
<1>4. QED
  BY <1>1, <1>2, <1>3, CheckNames, FailureKeepsIInv

LEMMA CompleteTraceKeepsIInv ==
  ASSUME IInv, CompleteTrace
  PROVE  IInv'
<1>1. /\ pc = "execute" /\ pc' = "aggregate" /\ next > Len(Order)
      /\ post' = AfterExecution("pass")
      /\ UNCHANGED <<next, nodes, mapping, snap>> /\ Undecided
  BY DEF CompleteTrace
<1>2. /\ post \in [PostChecks -> CheckValues] /\ "pass" \in CheckValues
      /\ next = Len(Order) + 1 /\ mapping = "pass"
      /\ DOMAIN snap = {"baseline", "replay"}
      /\ post["replayable_aggregation"] = "pass"
      /\ post["counterfactual_aggregation_succeeded"] = "not_run"
  <2>1. next = Len(Order) + 1
    BY <1>1, OrderFacts DEF IInv, TypeInv
  <2>2. QED
    BY <1>1, <2>1, CheckNames DEF IInv, TypeInv, CheckValues, Progress
<1>3. /\ post' \in [PostChecks -> CheckValues]
      /\ post'["execution_succeeded"] = "pass"
      /\ \A c \in Claims : post'[c] = "pass"
      /\ \A c \in {"replayable_aggregation", "counterfactual_aggregation_succeeded"} :
           post'[c] = post[c]
  <2>1. post' = Executed(post, "pass")
    BY <1>1 DEF AfterExecution, Executed
  <2>2. QED
    BY <1>2, <2>1, ExecutedIs
<1>4. UNCHANGED <<req, action, version, removed, raisedBy>>
  BY <1>1 DEF Undecided
<1>5. TypeInv'
  BY <1>1, <1>3, <1>4 DEF IInv, TypeInv, Places
<1>6. Snapshots'
  BY <1>1, <1>3, <1>4 DEF IInv, Snapshots
<1>7. Checks'
  BY <1>1, <1>2, <1>3, <1>4 DEF IInv, Checks
<1>8. Progress'
  BY <1>1, <1>2, <1>3, CheckNames DEF Progress, Claims
<1>9. Visited' /\ NodesAreSound'
  BY <1>1, <1>4, NodesFrame
<1>10. Decided'
  BY <1>1, DecidedFrame
<1>11. QED
  BY <1>5, <1>6, <1>7, <1>8, <1>9, <1>10 DEF IInv

LEMMA AggregatedKeepsIInv ==
  ASSUME IInv, pc = "aggregate", NEW final \in Outputs, Aggregated(final)
  PROVE  IInv'
<1> DEFINE agg == "counterfactual_aggregation_succeeded"
<1>1. /\ pc = "aggregate" /\ pc' = "summary"
      /\ post' = [post EXCEPT ![agg] = "pass"]
      /\ UNCHANGED <<next, nodes, mapping>> /\ Undecided
  BY DEF Aggregated
<1>2. snap' = Took(snap, "counterfactual", OutputsOf(nodes), final)
  BY DEF Aggregated, WithSnapshot, Took, NodeOutputs, OutputsOf
<1>3. /\ post \in [PostChecks -> CheckValues]
      /\ DOMAIN snap = {"baseline", "replay"}
      /\ \A c \in PostChecks \ {agg} : post[c] = "pass"
  BY <1>1 DEF IInv, TypeInv, Progress
<1>4. /\ DOMAIN snap' = Kinds
      /\ snap'["baseline"] = snap["baseline"] /\ snap'["replay"] = snap["replay"]
      /\ snap'["counterfactual"].hashes = OutputsOf(nodes)
  BY <1>2, <1>3 DEF Took, Kinds
<1>5. /\ post' \in [PostChecks -> CheckValues]
      /\ \A c \in PostChecks : post'[c] = "pass"
  BY <1>1, <1>3, CheckNames DEF CheckValues
<1>6. UNCHANGED <<req, action, version, removed, raisedBy>>
  BY <1>1 DEF Undecided
<1>7. TypeInv'
  BY <1>1, <1>5, <1>6 DEF IInv, TypeInv, Places
<1>8. Snapshots'
  BY <1>1, <1>3, <1>4, <1>6, CheckNames DEF IInv, Snapshots, Kinds
<1>9. Checks'
  BY <1>1, <1>3, <1>4, <1>5, <1>6, CheckNames DEF IInv, Checks, Kinds
<1>10. Progress'
  BY <1>1, <1>5 DEF Progress, Conclusive
<1>11. Visited' /\ NodesAreSound'
  BY <1>1, <1>6, NodesFrame
<1>12. Decided'
  BY <1>1, DecidedFrame
<1>13. QED
  BY <1>7, <1>8, <1>9, <1>10, <1>11, <1>12 DEF IInv

LEMMA AggregateKeepsIInv ==
  ASSUME IInv, Aggregate
  PROVE  IInv'
BY AggregatedKeepsIInv, RaiseKeepsIInv DEF Aggregate

\* Where a visit stands.
LEMMA Visiting ==
  ASSUME IInv, pc = "execute", next <= Len(Order)
  PROVE  /\ next \in 1..Len(Order) /\ next \in Nat
         /\ next + 1 \in 1..(Len(Order) + 1)
         /\ {Order[i] : i \in 1..((next + 1) - 1)}
              = {Order[i] : i \in 1..(next - 1)} \cup {Order[next]}
         /\ Order[next] \in Roles
         /\ DOMAIN nodes = {Order[i] : i \in 1..(next - 1)} \ {req.target}
         /\ mapping = "pass"
<1>1. next \in 1..Len(Order) /\ next \in Nat
  BY OrderFacts DEF IInv, TypeInv
<1>2. next + 1 \in 1..(Len(Order) + 1)
  BY <1>1, OrderFacts
<1>3. 1..((next + 1) - 1) = 1..(next - 1) \cup {next}
  BY <1>1
<1>4. QED
  BY <1>1, <1>2, <1>3, OrderFacts DEF IInv, Visited, Progress

\* The producers a visit finds among the nodes are those before the role.
LEMMA AtTheVisit ==
  ASSUME IInv, pc = "execute", next <= Len(Order)
  PROVE  CounterfactualInputs(Order[next]) = Given(req, nodes, Order[next])
<1>1. ASSUME NEW p \in DOMAIN nodes PROVE Before(p, Order[next])
  <2>1. PICK i \in 1..(next - 1) : Order[i] = p
    BY Visiting
  <2>2. i \in 1..Len(Order) /\ next \in 1..Len(Order) /\ i < next
    BY Visiting, OrderFacts
  <2>3. QED
    BY <2>1, <2>2, OrderFacts DEF Before
<1>2. QED
  BY <1>1, Meanings DEF CounterfactualInputs, Given, Links

\* What no visit disturbs.
LEMMA VisitFrame ==
  ASSUME IInv, pc = "execute", next <= Len(Order), next' = next + 1,
         UNCHANGED <<pc, mapping, post, snap>>, Undecided
  PROVE  TypeInv' /\ Snapshots' /\ Checks' /\ Progress' /\ Decided'
<1>1. /\ UNCHANGED <<req, action, version, removed, raisedBy>>
      /\ next' \in 1..(Len(Order) + 1)
  BY Visiting DEF Undecided
<1>2. /\ DOMAIN snap = {"baseline", "replay"} /\ mapping = "pass"
      /\ post["replayable_aggregation"] = "pass"
      /\ \A c \in PostChecks \ {"replayable_aggregation"} : post[c] = "not_run"
  BY DEF IInv, Progress
<1>3. TypeInv'
  BY <1>1 DEF IInv, TypeInv
<1>4. Snapshots'
  BY <1>1, <1>2 DEF IInv, Snapshots
<1>5. Checks'
  BY <1>1, <1>2, CheckNames DEF IInv, Checks
<1>6. Progress'
  BY <1>2 DEF Progress
<1>7. Decided'
  BY DecidedFrame
<1>8. QED
  BY <1>3, <1>4, <1>5, <1>6, <1>7

LEMMA SkipTargetKeepsIInv ==
  ASSUME IInv, SkipTarget
  PROVE  IInv'
<1>1. /\ pc = "execute" /\ next <= Len(Order) /\ next' = next + 1
      /\ Order[next] = req.target
      /\ UNCHANGED <<pc, nodes, mapping, post, snap>> /\ Undecided
  BY DEF SkipTarget, Visits
<1>2. req' = req
  BY <1>1 DEF Undecided
<1>3. Visited'
  BY <1>1, <1>2, Visiting DEF Visited
<1>4. NodesAreSound'
  BY <1>1, <1>2 DEF IInv, NodesAreSound
<1>5. QED
  BY <1>1, <1>3, <1>4, VisitFrame DEF IInv

LEMMA VisitKeepsIInv ==
  ASSUME IInv, pc = "execute", next <= Len(Order), next' = next + 1,
         UNCHANGED <<pc, mapping, post, snap>>, Undecided,
         Order[next] # req.target,
         NEW node, nodes' = Extended(nodes, Order[next], node),
         node.inputs = Given(req, nodes, Order[next]),
         IF node.reused
           THEN /\ node.inputs = Recorded(req, Order[next])
                /\ node.output = req.payload[Order[next]]
           ELSE /\ node.inputs # Recorded(req, Order[next])
                /\ Order[next] \in Reach(req)
  PROVE  IInv'
<1> DEFINE role == Order[next]
<1>1. req' = req /\ req \in Requests
  BY DEF Undecided, IInv, TypeInv
<1>2. /\ DOMAIN nodes' = DOMAIN nodes \cup {role}
      /\ nodes'[role] = node
      /\ \A x \in DOMAIN nodes \ {role} : nodes'[x] = nodes[x]
  BY DEF Extended
<1>3. Visited'
  BY <1>1, <1>2, Visiting DEF Visited
<1>4. \A x \in DOMAIN nodes \cup {role} : Given(req, nodes', x) = Given(req, nodes, x)
  <2> SUFFICES ASSUME NEW x \in DOMAIN nodes \cup {role}
               PROVE  Given(req, Extended(nodes, Order[next], node), x)
                        = Given(req, nodes, x)
    OBVIOUS
  <2>1. next \in 1..Len(Order)
    BY Visiting
  <2>2. PICK i \in 1..next : x = Order[i]
    BY Visiting
  <2>3. QED
    BY <1>1, <2>1, <2>2, OrderFacts, VisitKeepsInputs
<1>5. role \notin DOMAIN nodes
  <2> SUFFICES ASSUME NEW i \in 1..(next - 1), Order[i] = role PROVE FALSE
    BY Visiting
  <2>1. i \in 1..Len(Order) /\ i # next
    BY Visiting, OrderFacts
  <2>2. QED
    BY <2>1, Visiting, OrderIsInjective
<1>6. NodesAreSound'
  <2> SUFFICES ASSUME NEW x \in DOMAIN nodes' PROVE SoundNode(req, nodes', x)
    BY <1>1 DEF NodesAreSound
  <2>1. CASE x = role
    BY <1>2, <1>4, <2>1 DEF SoundNode
  <2>2. CASE x \in DOMAIN nodes
    BY <1>2, <1>4, <1>5, <2>2 DEF SoundNode, IInv, NodesAreSound
  <2>3. QED
    BY <1>2, <2>1, <2>2
<1>7. QED
  BY <1>3, <1>6, VisitFrame DEF IInv

\* A node whose inputs changed is downstream of the bypass or of a seam.
LEMMA ChangeComesFromTheBypass ==
  ASSUME NEW r \in Requests, NEW n, NEW role \in Roles,
         r.target \notin DOMAIN n,
         \A p \in DOMAIN n : SoundNode(r, n, p),
         Given(r, n, role) # Recorded(r, role)
  PROVE  role \in Reach(r)
<1>1. CASE role = RuleOf(r).downstream
  BY <1>1 DEF Reach, Closed
<1>2. CASE role # RuleOf(r).downstream
  <2>1. PICK name \in Names(r, role) :
          Given(r, n, role)[name] # Recorded(r, role)[name]
    BY DEF Given, Recorded
  <2> DEFINE slot == <<role, name>>
             p == r.inputs[slot].producer
  <2>2. /\ Links(r, slot) /\ p \in DOMAIN n
        /\ n[p].output # r.inputs[slot].payload
    BY <1>2, <2>1 DEF Given, Recorded, BypassSlot
  <2>3. slot \in DOMAIN r.inputs
    BY DEF Names
  <2>4. ASSUME NEW S \in SUBSET Roles, Closed(r, S) PROVE role \in S
    <3>1. CASE n[p].output = r.payload[p]
      <4>1. role \in SeamsOf(r)
        BY <2>2, <3>1 DEF SeamsOf
      <4>2. QED
        BY <2>4, <4>1 DEF Closed
    <3>2. CASE n[p].output # r.payload[p]
      <4>1. p \in Reach(r)
        BY <2>2, <3>2 DEF SoundNode
      <4>2. p \in S
        BY <2>4, <4>1 DEF Reach
      <4>3. slot[1] \in S
        BY <2>2, <2>3, <2>4, <4>2 DEF Closed
      <4>4. QED
        BY <4>3
    <3>3. QED
      BY <3>1, <3>2
  <2>5. QED
    BY <2>4 DEF Reach
<1>3. QED
  BY <1>1, <1>2

LEMMA Bookkeeping ==
  ASSUME IInv, pc = "execute"
  PROVE  req \in Requests /\ Admitted(req)
BY PassedChecksAdmit DEF IInv, TypeInv, Progress, Snapshots

LEMMA ReuseNodeKeepsIInv ==
  ASSUME IInv, ReuseNode
  PROVE  IInv'
<1> DEFINE role == Order[next]
           node == [inputs |-> Given(req, nodes, role),
                    output |-> req.payload[role], reused |-> TRUE]
<1>1. /\ pc = "execute" /\ next <= Len(Order) /\ next' = next + 1
      /\ role # req.target /\ ~Changed(role)
      /\ nodes' = WithNode(role, req.payload[role], TRUE)
      /\ UNCHANGED <<pc, mapping, post, snap>> /\ Undecided
  BY DEF ReuseNode, Visits
<1>2. Given(req, nodes, role) = Recorded(req, role)
  BY <1>1, Meanings, AtTheVisit DEF Changed
<1>3. nodes' = Extended(nodes, role, node)
  BY <1>1, AtTheVisit DEF WithNode, Extended
<1>4. QED
  BY <1>1, <1>2, <1>3, VisitKeepsIInv

LEMMA ExecuteNodeKeepsIInv ==
  ASSUME IInv, ExecuteNode
  PROVE  IInv'
<1> DEFINE role == Order[next]
<1>1. /\ pc = "execute" /\ next <= Len(Order)
      /\ role # req.target /\ Changed(role)
      /\ UNCHANGED <<mapping, snap>> /\ Undecided
  BY DEF ExecuteNode, Visits
<1>2. PICK answer \in Answers :
        IF AnswerAccepted(role, answer)
          THEN /\ nodes' = WithNode(role, answer, FALSE)
               /\ next' = next + 1
               /\ UNCHANGED <<pc, post>>
          ELSE /\ post' = AfterExecution("fail")
               /\ pc' = "summary"
               /\ UNCHANGED <<next, nodes>>
  BY DEF ExecuteNode
<1>3. CASE AnswerAccepted(role, answer)
  <2> DEFINE node == [inputs |-> Given(req, nodes, role),
                      output |-> answer, reused |-> FALSE]
  <2>1. Given(req, nodes, role) # Recorded(req, role)
    BY <1>1, Meanings, AtTheVisit DEF Changed
  <2>2. role \in Reach(req)
    <3>1. req \in Requests /\ req.target \notin DOMAIN nodes
      BY <1>1, Visiting DEF IInv, TypeInv
    <3>2. role \in Roles
      BY <1>1, Visiting
    <3>3. QED
      BY <2>1, <3>1, <3>2, ChangeComesFromTheBypass DEF IInv, NodesAreSound
  <2>3. nodes' = Extended(nodes, role, node)
    BY <1>1, <1>2, <1>3, AtTheVisit DEF WithNode, Extended
  <2>4. QED
    BY <1>1, <1>2, <1>3, <2>1, <2>2, <2>3, VisitKeepsIInv
<1>4. CASE ~AnswerAccepted(role, answer)
  BY <1>1, <1>2, <1>4, ExecutorFailsKeepsIInv
<1>5. QED
  BY <1>3, <1>4

------------------------------------------------------------------------------
(* The return.                                                             *)

\* All checks passed: the run is complete, and the evidence with it.
LEMMA PassedIsComplete ==
  ASSUME IInv, Passed(req, mapping, post)
  PROVE  /\ req \in Requests /\ Admitted(req)
         /\ \A c \in PostChecks : post[c] = "pass"
         /\ ArtifactMaps(req)
         /\ DOMAIN snap = Kinds
         /\ DOMAIN nodes = Roles \ {req.target}
         /\ snap["baseline"] = [hashes |-> req.payload, final |-> req.final]
         /\ snap["replay"] = snap["baseline"]
         /\ snap["counterfactual"].hashes = OutputsOf(nodes)
<1>1. /\ req \in Requests /\ Admitted(req)
      /\ \A c \in PostChecks : post[c] = "pass"
  BY PassedChecksAdmit DEF Passed, IInv, TypeInv, CheckValues
<1>2. ArtifactMaps(req) /\ next = Len(Order) + 1
  BY <1>1, CheckNames DEF IInv, Checks
<1>3. /\ {"baseline", "replay", "counterfactual"} \subseteq DOMAIN snap
      /\ snap["baseline"] = [hashes |-> req.payload, final |-> req.final]
      /\ snap["replay"] = snap["baseline"]
      /\ snap["counterfactual"].hashes = OutputsOf(nodes)
  BY <1>1, CheckNames DEF IInv, Checks, Snapshots
<1>4. DOMAIN snap = Kinds
  BY <1>3 DEF IInv, Snapshots, Kinds
<1>5. DOMAIN nodes = Roles \ {req.target}
  <2>1. next - 1 = Len(Order)
    BY <1>2, OrderFacts
  <2>2. DOMAIN nodes = {Order[i] : i \in 1..Len(Order)} \ {req.target}
    BY <2>1 DEF IInv, Visited
  <2>3. QED
    BY <2>2, OrderFacts
<1>6. QED
  BY <1>1, <1>2, <1>3, <1>4, <1>5

\* Such a run has the upstream and the downstream node, and the downstream one
\* read the bypassed artifact.
LEMMA PassedHandsOver ==
  ASSUME IInv, Passed(req, mapping, post)
  PROVE  /\ {RuleOf(req).upstream, RuleOf(req).downstream} \subseteq DOMAIN nodes
         /\ RuleOf(req).input \in DOMAIN nodes[RuleOf(req).downstream].inputs
         /\ nodes[RuleOf(req).downstream].inputs[RuleOf(req).input] = Handed(req)
<1>1. /\ RuleOf(req).upstream \in Roles /\ RuleOf(req).upstream # req.target
      /\ RuleOf(req).downstream \in Roles /\ RuleOf(req).downstream # req.target
      /\ req.target \in Roles
      /\ BypassSlot(req) \in DOMAIN req.inputs /\ req \in Requests
      /\ DOMAIN nodes = Roles \ {req.target}
  BY PassedIsComplete, BeforeIsStrict DEF Admitted
<1>2. /\ nodes[RuleOf(req).downstream].inputs
           = Given(req, nodes, RuleOf(req).downstream)
      /\ RuleOf(req).input \in Names(req, RuleOf(req).downstream)
  BY <1>1, RequestFacts DEF IInv, NodesAreSound, SoundNode, Names, BypassSlot
<1>3. QED
  BY <1>1, <1>2 DEF Given, BypassSlot

LEMMA TargetIsNotVisited ==
  ASSUME IInv
  PROVE  req.target \notin DOMAIN nodes
BY DEF IInv, Visited

LEMMA SummaryIsAccepted ==
  ASSUME IInv, pc = "summary", ~UnfitArguments
  PROVE  ReportAccepted /\ RecordAccepted /\ InterventionAccepted
<1>0. IdsAccepted
  BY DEF UnfitArguments, IdsAccepted, EffectiveVersion
<1>1. ReportAccepted
  BY Verdicts DEF IInv, Progress
<1>2. CASE ~Valid
  BY <1>0, <1>1, <1>2, TargetIsNotVisited DEF RecordAccepted, InterventionAccepted
<1>3. CASE Valid
  <2>1. Passed(req, mapping, post)
    BY <1>3, Verdicts
  <2>2. InterventionAccepted
    BY <1>0, <2>1, PassedIsComplete DEF InterventionAccepted, Admitted
  <2>3. DOMAIN nodes = Retained(req) /\ RemovedRoles = {req.target}
    BY <2>1, PassedIsComplete, PassedHandsOver DEF Retained, RemovedRoles
  <2>4. /\ RuleOf(req).input \in DOMAIN nodes[RuleOf(req).downstream].inputs
        /\ nodes[RuleOf(req).downstream].inputs[RuleOf(req).input] = Bypassed
    BY <2>1, PassedHandsOver, Meanings
  <2>5. DOMAIN snap["baseline"].hashes = Roles
    <3>1. snap["baseline"].hashes = req.payload
      BY <2>1, PassedIsComplete
    <3>2. QED
      BY <2>1, <3>1, PassedIsComplete, RequestFacts
  <2>6. /\ DOMAIN snap = Kinds /\ snap["replay"] = snap["baseline"]
        /\ snap["counterfactual"].hashes = NodeOutputs
    BY <2>1, PassedIsComplete, Meanings
  <2>7. RecordAccepted
    BY <1>0, <2>3, <2>4, <2>5, <2>6, TargetIsNotVisited DEF RecordAccepted
  <2>8. QED
    BY <1>1, <2>2, <2>7
<1>4. QED
  BY <1>2, <1>3

LEMMA ReturnKeepsIInv ==
  ASSUME IInv, pc = "summary", Return
  PROVE  IInv'
<1>1. /\ pc = "summary" /\ pc' = "returned"
      /\ action' = IF Valid THEN "REMOVE" ELSE "KEEP"
      /\ version' = EffectiveVersion
      /\ removed' = RemovedRoles
      /\ UNCHANGED <<req, next, nodes, mapping, post, snap, raisedBy>>
  BY DEF Return
<1>2. /\ removed' \subseteq Roles \cup {Unknown, Malformed}
      /\ version' \in {"input", "output"}
  <2>1. req.target \in Roles \cup {Unknown, Malformed}
    BY RequestFacts DEF IInv, TypeInv
  <2>2. QED
    BY <1>1, <2>1 DEF RemovedRoles, EffectiveVersion
<1>3. TypeInv'
  BY <1>1, <1>2 DEF IInv, TypeInv, Places
<1>4. Snapshots' /\ Checks'
  BY <1>1 DEF IInv, Snapshots, Checks
<1>5. Progress'
  BY <1>1 DEF Progress
<1>6. Visited' /\ NodesAreSound'
  BY <1>1, NodesFrame
<1>7. Decided'
  <2>1. raisedBy' = "none"
    BY <1>1 DEF IInv, Decided
  <2>2. QED
    BY <1>1, <2>1, Verdicts DEF Decided, OnlyUnfitArgumentsRaise
<1>8. QED
  BY <1>3, <1>4, <1>5, <1>6, <1>7 DEF IInv

LEMMA SummariseKeepsIInv ==
  ASSUME IInv, Summarise
  PROVE  IInv'
<1>1. pc = "summary"
  BY DEF Summarise
<1>2. CASE Return
  BY <1>1, <1>2, ReturnKeepsIInv
<1>3. CASE Raise("validation") /\ ~(ReportAccepted /\ RecordAccepted /\ InterventionAccepted)
  BY <1>1, <1>3, SummaryIsAccepted, RaiseKeepsIInv
<1>4. QED
  BY <1>2, <1>3 DEF Summarise

LEMMA NextKeepsIInv ==
  ASSUME IInv, [Next]_vars
  PROVE  IInv'
<1>1. CASE RunPreflight
  BY <1>1, RunPreflightKeepsIInv
<1>2. CASE Replay
  BY <1>2, ReplayKeepsIInv
<1>3. CASE MapArtifact
  BY <1>3, MapArtifactKeepsIInv
<1>4. CASE SkipTarget
  BY <1>4, SkipTargetKeepsIInv
<1>5. CASE ReuseNode
  BY <1>5, ReuseNodeKeepsIInv
<1>6. CASE ExecuteNode
  BY <1>6, ExecuteNodeKeepsIInv
<1>7. CASE ExecutorFails
  BY <1>7, ExecutorFailsKeepsIInv DEF ExecutorFails
<1>8. CASE CompleteTrace
  BY <1>8, CompleteTraceKeepsIInv
<1>9. CASE Aggregate
  BY <1>9, AggregateKeepsIInv
<1>10. CASE AggregatorFails
  BY <1>10, AggregatorFailsKeepsIInv
<1>11. CASE Summarise
  BY <1>11, SummariseKeepsIInv
<1>12. CASE UNCHANGED vars
  BY <1>12 DEF vars, IInv, TypeInv, Snapshots, Checks, Progress, Visited,
    NodesAreSound, Decided, OnlyUnfitArgumentsRaise, UnfitArguments, Valid,
    FailedChecks, NotRunChecks
<1>13. QED
  BY <1>1, <1>2, <1>3, <1>4, <1>5, <1>6, <1>7, <1>8, <1>9, <1>10, <1>11, <1>12
    DEF Next

------------------------------------------------------------------------------
(* The theorems.                                                           *)

\* In every reachable state of every call the strengthened invariant holds.
THEOREM Inductive == Spec => []IInv
BY InitHolds, NextKeepsIInv, PTL DEF Spec

\* DagBypassRecord, DagBypassSafetyReport and InterventionRecord accept what
\* run collects, whatever the injected code answers, of every call but one with
\* an empty target, or an empty output version of a valid removal; and the
\* recorded result is refused only when it cannot be copied and hashed.
THEOREM EvidenceIsAccepted == Spec => []OnlyUnfitArgumentsRaise
<1>1. IInv => OnlyUnfitArgumentsRaise
  BY DEF IInv, Decided
<1>2. QED
  BY <1>1, Inductive, PTL

\* The three claims the report makes without looking hold: only nodes of the
\* closure of the bypass and the trace's seams whose inputs changed were
\* executed, every other node stands for its baseline output, and nothing ran before the replay agreed.
THEOREM ExecutionIsMinimal == Spec => []OnlyChangedClosureRuns
<1>1. IInv => OnlyChangedClosureRuns
  <2> SUFFICES ASSUME IInv, DOMAIN nodes # {}
               PROVE  /\ post["replayable_aggregation"] = "pass" /\ mapping = "pass"
                      /\ req.target \notin DOMAIN nodes
                      /\ \A role \in DOMAIN nodes :
                           IF nodes[role].reused
                             THEN /\ nodes[role].inputs = BaselineInputs(role)
                                  /\ nodes[role].output = req.payload[role]
                             ELSE /\ nodes[role].inputs # BaselineInputs(role)
                                  /\ role \in Closure
    BY DEF OnlyChangedClosureRuns
  <2>1. post["replayable_aggregation"] = "pass" /\ mapping = "pass"
    BY DEF IInv, Visited, Checks
  <2>2. \A role \in DOMAIN nodes : SoundNode(req, nodes, role)
    BY DEF IInv, NodesAreSound
  <2>3. QED
    BY <2>1, <2>2, TargetIsNotVisited, Meanings DEF SoundNode
<1>2. QED
  BY <1>1, Inductive, PTL

\* The upstream node comes before the target, the closure after it: the
\* artifact handed over is the one the counterfactual run itself produced, if
\* the trace has no seam.
LEMMA UpstreamIsReused ==
  ASSUME IInv, Passed(req, mapping, post), Seams = {}
  PROVE  nodes[RuleOf(req).upstream].output = req.payload[RuleOf(req).upstream]
<1> DEFINE upstream == RuleOf(req).upstream
           downstream == RuleOf(req).downstream
           Later == {role \in Roles : role = downstream \/ Before(downstream, role)}
<1>1. /\ req \in Requests /\ downstream \in Roles
      /\ Before(upstream, req.target) /\ Before(req.target, downstream)
  BY PassedIsComplete, BeforeIsStrict DEF Admitted
<1>2. Before(upstream, downstream)
  BY <1>1, BeforeIsTransitive
<1>3. upstream \notin Later
  BY <1>2, BeforeIsStrict
<1>4. Closed(req, Later)
  <2>1. ASSUME NEW slot \in DOMAIN req.inputs, Links(req, slot),
               req.inputs[slot].producer \in Later
        PROVE  slot[1] \in Later
    <3>1. Before(req.inputs[slot].producer, slot[1]) /\ slot[1] \in Roles
      BY <2>1, BeforeIsStrict DEF Links
    <3>2. Before(downstream, slot[1])
      BY <2>1, <3>1, BeforeIsTransitive
    <3>3. QED
      BY <3>1, <3>2
  <2>2. {downstream} \cup SeamsOf(req) \subseteq Later
    BY <1>1, Meanings
  <2>3. QED
    BY <2>1, <2>2 DEF Closed
<1>5. upstream \notin Reach(req)
  <2>1. Later \in SUBSET Roles
    OBVIOUS
  <2>2. QED
    BY <1>3, <1>4, <2>1 DEF Reach
<1>6. upstream \in DOMAIN nodes
  BY PassedHandsOver
<1>7. QED
  BY <1>5, <1>6 DEF IInv, NodesAreSound, SoundNode

\* A REMOVE is one counterfactual run: every retained role is in it, each read
\* what its producers wrote in that same run wherever the trace links its slot
\* to them, the downstream role read the upstream payload with nothing but
\* names changed, and the final answer is that of these outputs.
THEOREM RemoveIsOneRun == Spec => []RemoveIsOneCounterfactualRun
<1>1. IInv => RemoveIsOneCounterfactualRun
  <2> SUFFICES ASSUME IInv, action = "REMOVE" PROVE RemoveIsOneCounterfactualRun
    BY DEF RemoveIsOneCounterfactualRun
  <2> DEFINE rule == RuleOf(req)
             payload == req.payload[rule.upstream]
             got == nodes[rule.downstream].inputs[rule.input]
  <2>1. Passed(req, mapping, post)
    BY DEF IInv, Decided
  <2>2. DOMAIN nodes = Roles \ {req.target} /\ req \in Requests /\ Admitted(req)
    BY <2>1, PassedIsComplete
  <2>3. ASSUME NEW slot \in DOMAIN req.inputs, slot[1] # req.target,
               req.inputs[slot].producer # req.target, Linked(slot)
        PROVE  nodes[slot[1]].inputs[slot[2]] = nodes[req.inputs[slot].producer].output
    <3> DEFINE producer == req.inputs[slot].producer
    <3>1. /\ slot = <<slot[1], slot[2]>>
          /\ slot[1] \in DOMAIN nodes /\ slot[2] \in Names(req, slot[1])
      BY <2>2, <2>3, RequestFacts DEF Names
    <3>2. Links(req, slot) /\ producer \in DOMAIN nodes
      BY <2>2, <2>3, Meanings, BeforeIsStrict DEF Links
    <3>3. slot # BypassSlot(req)
      BY <2>2, <2>3 DEF Admitted
    <3>4. nodes[slot[1]].inputs = Given(req, nodes, slot[1])
      BY <3>1 DEF IInv, NodesAreSound, SoundNode
    <3>5. QED
      BY <3>1, <3>2, <3>3, <3>4 DEF Given
  <2>4. Seams = {} => nodes[rule.upstream].output = payload
    BY <2>1, UpstreamIsReused
  <2>5. /\ got = Mapped(payload, rule.mapping)
        /\ Mappable(payload, rule.mapping)
        /\ req.needs \subseteq DOMAIN got
    BY <2>1, PassedHandsOver, PassedIsComplete DEF Handed, ArtifactMaps
  <2>6. payload \in Payload
    BY <2>2, RequestFacts, BeforeIsStrict DEF Admitted
  <2>7. /\ \A f \in DOMAIN payload : got[Renamed(rule.mapping, f)] = payload[f]
        /\ Cardinality(DOMAIN got) = Cardinality(DOMAIN payload)
    BY <2>5, <2>6, MappingOnlyRenames
  <2>8. snap["counterfactual"].hashes
          = [role \in Roles \ {req.target} |-> nodes[role].output]
    BY <2>1, <2>2, PassedIsComplete DEF OutputsOf
  <2>9. UpstreamPayload = payload
    BY DEF UpstreamPayload
  <2> HIDE DEF rule, payload, got
  <2>10. QED
    BY <2>2, <2>3, <2>4, <2>5, <2>7, <2>8, <2>9
      DEF RemoveIsOneCounterfactualRun, rule, payload, got
<1>2. QED
  BY <1>1, Inductive, PTL

------------------------------------------------------------------------------
(* The refinement of Intervention.                                         *)

PromiseStep == Promise!Collect \/ Promise!Keep \/ Promise!Remove
             \/ UNCHANGED Promise!vars

\* A step that takes no snapshot and decides nothing is a stutter.
LEMMA QuietStep ==
  ASSUME UNCHANGED <<snap, action, version>>,
         (post'["replayable_aggregation"] = "pass")
           = (post["replayable_aggregation"] = "pass")
  PROVE  PromiseStep
BY DEF PromiseStep, Promise!vars, Evidence

\* A call that raises collects nothing and decides nothing.
LEMMA RaiseIsQuiet ==
  ASSUME NEW why, Raise(why)
  PROVE  PromiseStep
BY QuietStep DEF Raise

LEMMA PreflightCollects ==
  ASSUME IInv, RunPreflight
  PROVE  PromiseStep
<1>0. CASE Raise("baseline")
  BY <1>0, RaiseIsQuiet
<1> SUFFICES ASSUME ~Raise("baseline") PROVE PromiseStep
  BY <1>0
<1>1. /\ UNCHANGED <<post, action, version>> /\ action = "none"
      /\ DOMAIN snap = {} /\ post["replayable_aggregation"] = "not_run"
  BY CheckNames DEF RunPreflight, Undecided, IInv, Progress, Decided
<1>2. CASE snap' = snap
  BY <1>1, <1>2, QuietStep
<1>3. CASE snap' = Took(snap, "baseline", req.payload, req.final)
  <2>1. DOMAIN snap' = {"baseline"}
    BY <1>1, <1>3 DEF Took
  <2>2. Evidence = {} /\ Evidence' = {"baseline"}
    BY <1>1, <2>1 DEF Evidence
  <2>3. QED
    BY <1>1, <2>2 DEF PromiseStep, Promise!Collect
<1>4. QED
  BY <1>2, <1>3 DEF RunPreflight, WithSnapshot, Took

LEMMA ReplayedCollects ==
  ASSUME IInv, pc = "replay", NEW final \in Outputs, Replayed(final)
  PROVE  PromiseStep
<1>1. /\ UNCHANGED <<action, version>> /\ action = "none"
      /\ DOMAIN snap = {"baseline"} /\ post["replayable_aggregation"] = "not_run"
      /\ post \in [PostChecks -> CheckValues]
  BY CheckNames DEF Replayed, Undecided, IInv, Progress, Decided, TypeInv
<1>2. /\ snap' = Took(snap, "replay", req.payload, final)
      /\ post' = [post EXCEPT !["replayable_aggregation"] =
                    IF final = req.final THEN "pass" ELSE "fail"]
  BY DEF Replayed, WithSnapshot, Took
<1>3. DOMAIN snap' = {"baseline", "replay"}
  BY <1>1, <1>2 DEF Took
<1>4. post'["replayable_aggregation"] = IF final = req.final THEN "pass" ELSE "fail"
  BY <1>1, <1>2, CheckNames
<1>5. Evidence = {"baseline"}
  BY <1>1 DEF Evidence
<1>6. Evidence' = IF final = req.final THEN {"baseline", "agreeing_replay"}
                  ELSE {"baseline"}
  BY <1>3, <1>4 DEF Evidence
<1>7. QED
  BY <1>1, <1>5, <1>6 DEF PromiseStep, Promise!Collect, Promise!vars

LEMMA ReplayCollects ==
  ASSUME IInv, Replay
  PROVE  PromiseStep
BY ReplayedCollects, RaiseIsQuiet DEF Replay

LEMMA AggregatedCollects ==
  ASSUME IInv, pc = "aggregate", NEW final \in Outputs, Aggregated(final)
  PROVE  PromiseStep
<1>1. /\ UNCHANGED <<action, version>> /\ action = "none"
      /\ DOMAIN snap = {"baseline", "replay"}
      /\ post["replayable_aggregation"] = "pass"
      /\ post'["replayable_aggregation"] = "pass"
  BY CheckNames DEF Aggregated, Undecided, IInv, Progress, Decided, TypeInv
<1>2. DOMAIN snap' = {"baseline", "replay", "counterfactual"}
  BY <1>1 DEF Aggregated, WithSnapshot
<1>3. Evidence = {"baseline", "agreeing_replay"}
  BY <1>1 DEF Evidence
<1>4. Evidence' = Promise!AllEvidence
  BY <1>1, <1>2 DEF Evidence, Promise!AllEvidence
<1>5. QED
  BY <1>1, <1>3, <1>4 DEF PromiseStep, Promise!Collect

LEMMA AggregateCollects ==
  ASSUME IInv, Aggregate
  PROVE  PromiseStep
BY AggregatedCollects, RaiseIsQuiet DEF Aggregate

LEMMA ReturnDecides ==
  ASSUME IInv, pc = "summary", Return
  PROVE  PromiseStep
<1>1. /\ action = "none" /\ version = "input" /\ UNCHANGED <<snap, post>>
      /\ action' = IF Valid THEN "REMOVE" ELSE "KEEP"
      /\ version' = IF Valid THEN "output" ELSE "input"
  BY DEF Return, IInv, Decided, EffectiveVersion
<1>2. Evidence' = Evidence
  BY <1>1 DEF Evidence
<1>3. CASE Valid
  <2>1. Evidence = Promise!AllEvidence
    BY <1>3, Verdicts, PassedIsComplete, CheckNames
      DEF Evidence, Promise!AllEvidence, Kinds
  <2>2. QED
    BY <1>1, <1>2, <1>3, <2>1 DEF PromiseStep, Promise!Remove
<1>4. CASE ~Valid
  BY <1>1, <1>2, <1>4 DEF PromiseStep, Promise!Keep
<1>5. QED
  BY <1>3, <1>4

LEMMA SummariseDecides ==
  ASSUME IInv, Summarise
  PROVE  PromiseStep
BY ReturnDecides, RaiseIsQuiet DEF Summarise

\* Steps of the execution leave the snapshots and the replay check alone.
LEMMA OtherSteps ==
  ASSUME IInv,
         MapArtifact \/ SkipTarget \/ ReuseNode \/ ExecuteNode \/ ExecutorFails
           \/ CompleteTrace \/ AggregatorFails
  PROVE  PromiseStep
<1>1. UNCHANGED <<snap, action, version>>
  BY DEF MapArtifact, SkipTarget, ReuseNode, ExecuteNode, ExecutorFails,
    CompleteTrace, AggregatorFails, Undecided
<1>2. CASE post' = post
  BY <1>1, <1>2, QuietStep
<1>3. CASE post' = AfterExecution("fail") \/ post' = AfterExecution("pass")
  <2>1. post'["replayable_aggregation"] = post["replayable_aggregation"]
    BY <1>3, CheckNames DEF AfterExecution, Claims
  <2>2. QED
    BY <1>1, <2>1, QuietStep
<1>4. CASE AggregatorFails
  <2>1. (post'["replayable_aggregation"] = "pass")
          = (post["replayable_aggregation"] = "pass")
    BY <1>4, CheckNames DEF AggregatorFails, IInv, TypeInv, Progress
  <2>2. QED
    BY <1>1, <2>1, QuietStep
<1>5. QED
  BY <1>2, <1>3, <1>4 DEF MapArtifact, SkipTarget, ReuseNode, ExecuteNode,
    ExecutorFails, CompleteTrace

\* Every call of the bypass keeps the promise of a single-role removal: it
\* collects the evidence in order, decides once, removes only on complete
\* evidence, and leaves the team version alone when it abstains.
THEOREM Refinement == Spec => KeepsThePromise
<1>1. Init => Promise!Init
  BY CheckNames DEF Init, Promise!Init, Evidence
<1>2. IInv /\ [Next]_vars => [Promise!Next]_(Promise!vars)
  <2> SUFFICES ASSUME IInv, [Next]_vars PROVE PromiseStep
    BY DEF PromiseStep, Promise!Next
  <2>1. CASE UNCHANGED vars
    BY <2>1, QuietStep DEF vars
  <2>2. QED
    BY <2>1, PreflightCollects, ReplayCollects, AggregateCollects,
      SummariseDecides, OtherSteps DEF Next
<1>3. QED
  BY <1>1, <1>2, Inductive, PTL DEF Spec, KeepsThePromise, Promise!Spec

=============================================================================
