---------------------------- MODULE PilotBackend ----------------------------
(***************************************************************************)
(* One call of PilotExecutionBackend.execute: have the injected engine     *)
(* generate for each role in turn, parse the answers, and aggregate.       *)
(*                                                                         *)
(* An engine and an aggregator are known by the version of the identity    *)
(* they tell; version 0 is the frozen one.  Either may be reconfigured at  *)
(* any time and then tells a new version, never an old one again.          *)
(***************************************************************************)
EXTENDS AnswerParsing

CONSTANTS
  Roles, Order,  \* the roles of the frozen team, and its execution order
  TextsOf,       \* the texts the engine may generate, by role
  None,          \* no record, and no generation yet
  MaxVersion     \* bound: reconfigurations of the engine, of the aggregator

Votes == Letters \cup {NoVote}

\* A MajorityVoteResult.
Result == [selected : Votes, strict : BOOLEAN, tie : BOOLEAN]

ASSUME PilotAssumption ==
  /\ Order \in Seq(Roles) /\ Len(Order) = Cardinality(Roles)
  /\ {Order[k] : k \in DOMAIN Order} = Roles
  /\ IsFiniteSet(Roles) /\ Roles # {}
  /\ TextsOf \in [Roles -> SUBSET Seq(Tokens)]
  /\ MaxVersion \in Nat
  /\ None \notin Result
Versions == 0..MaxVersion

\* The checks of the request: the hash of the team, the team itself, the
\* options of the task.
Checks == {"team_hash", "team", "options"}
Request == SUBSET Checks

\* A PilotRoleOutput; madeBy is what the engine was, whatever it told.
Output ==
  [raw : Seq(Tokens), vote : Votes, madeBy : Versions]

VARIABLES
  req,        \* the checks that the request passes
  pc,         \* where the call stands
  k,          \* index in Order of the role it is at
  engine,     \* version of the engine
  aggregator, \* version of the aggregator
  pending,    \* what the engine generated last
  outputs,    \* role_outputs
  hashes,     \* role_output_hashes
  final,      \* final_output
  record      \* the ExecutionRecord that is returned

injected == <<engine, aggregator>>
kept == <<outputs, hashes>>
answer == <<final, record>>
vars == <<req, pc, k, pending, injected, kept, answer>>

------------------------------------------------------------------------------
Init ==
  /\ req \in Request
  /\ pc = "start"
  /\ k = 1
  /\ engine = 0 /\ aggregator = 0
  /\ pending = None
  /\ outputs = <<>> /\ hashes = <<>>
  /\ final = None /\ record = None

Go(where) ==
  /\ pc' = where
  /\ UNCHANGED <<req, k, pending, injected, kept, answer>>

Start ==
  /\ pc = "start"
  /\ IF aggregator = 0 /\ req = Checks THEN Go("before") ELSE Go("raised")

CheckBeforeGeneration ==
  /\ pc = "before"
  /\ IF engine = 0 THEN Go("generate") ELSE Go("raised")

With(f, x, value) == [y \in DOMAIN f \cup {x} |-> IF y = x THEN value ELSE f[y]]

\* engine.generate returns a generation.
Generate ==
  /\ pc = "generate"
  /\ \E text \in TextsOf[Order[k]] : pending' = [raw |-> text, madeBy |-> engine]
  /\ pc' = "after"
  /\ UNCHANGED <<req, k, injected, kept, answer>>

\* Mutants: the second look at the engine is left out; the last role is.
EngineFrozenAfterAlways == TRUE
RolesDoneEarly(n) == n >= Len(Order)

EngineFrozenAfter == engine = 0
NextRole == k + 1
RolesDone(n) == n > Len(Order)

\* The output of a generation.
Parsed(g) ==
  [raw |-> g.raw, vote |-> ParsedAnswer(g.raw), madeBy |-> g.madeBy]

\* The answer is parsed and the output is kept with its hash.
CheckAfterGeneration ==
  /\ pc = "after"
  /\ IF EngineFrozenAfter
       THEN /\ outputs' = With(outputs, Order[k], Parsed(pending))
            /\ hashes' = With(hashes, Order[k], Parsed(pending))
            /\ k' = NextRole
            /\ pc' = IF RolesDone(NextRole) THEN "before_vote" ELSE "before"
            /\ UNCHANGED <<req, pending, injected, answer>>
       ELSE Go("raised")

CheckBeforeVote ==
  /\ pc = "before_vote"
  /\ IF aggregator = 0 THEN Go("vote") ELSE Go("raised")

ValidVotes(out) == [r \in {x \in DOMAIN out : out[x].vote # NoVote} |-> out[r].vote]

\* The aggregator of the frozen version votes; another one answers anything,
\* and may rewrite the outputs it was handed, which are the call's own.
Aggregate ==
  /\ pc = "vote"
  /\ IF aggregator = 0
       THEN final' = Decide(ValidVotes(outputs)) /\ outputs' = outputs
       ELSE /\ final' \in {NoResult, [NoResult EXCEPT !.selected = L]}
            /\ \E r \in DOMAIN outputs, vote \in Votes :
                 outputs' = [outputs EXCEPT ![r].vote = vote]
  /\ pc' = "after_vote"
  /\ UNCHANGED <<req, k, pending, injected, hashes, record>>

\* Mutant: the second look at the aggregator is left out.
AggregatorFrozenAfterAlways == TRUE
AggregatorFrozenAfter == aggregator = 0

Return ==
  /\ pc = "after_vote"
  /\ IF AggregatorFrozenAfter
       THEN /\ pc' = "returned"
            /\ record' = [outputs |-> outputs, hashes |-> hashes, final |-> final]
            /\ UNCHANGED <<req, k, pending, injected, kept, final>>
       ELSE Go("raised")

\* An identity that cannot be read, a generation or an aggregation that raises,
\* a generation its own schema refuses.
RaiseError ==
  /\ pc \notin {"returned", "raised"}
  /\ Go("raised")

\* Somebody reconfigures the engine or the aggregator.
Reconfigure ==
  /\ \/ engine < MaxVersion /\ engine' = engine + 1 /\ aggregator' = aggregator
     \/ aggregator < MaxVersion /\ aggregator' = aggregator + 1 /\ engine' = engine
  /\ UNCHANGED <<req, pc, k, pending, kept, answer>>

Work ==
  \/ Start \/ CheckBeforeGeneration \/ Generate \/ CheckAfterGeneration
  \/ CheckBeforeVote \/ Aggregate \/ Return \/ RaiseError

Next == Work \/ Reconfigure

Spec == Init /\ [][Next]_vars

------------------------------------------------------------------------------
\* A record that is returned holds nothing the frozen engine did not generate,
\* whenever the engine was reconfigured.
FrozenEngineMadeEveryOutput ==
  record # None => \A r \in DOMAIN record.outputs : record.outputs[r].madeBy = 0

\* README: only a final answer line counts.  Every role of a record voted what
\* the last line of its text says, or did not vote.
VoteIsTheLastLine ==
  record # None =>
    \A r \in DOMAIN record.outputs :
      VotesForItsLastLine(record.outputs[r].raw, record.outputs[r].vote)

\* The final output of a record is the vote over the outputs of that record.
FinalIsTheVote ==
  record # None => record.final = Decide(ValidVotes(record.outputs))

(***************************************************************************)
(* The runtime adapter validates what its backend returns against the      *)
(* plan of the request: the team of the frozen roles, not mocked.  The     *)
(* identifiers and the seeds are those of the request by construction.     *)
(***************************************************************************)
Evidence == INSTANCE ExecutionEvidence
              WITH Ids <- {"request"}, RoleIds <- Roles, Values <- Output

\* A record this backend returns is never turned into the evidence of a failure
\* by the adapter around it.
AdapterAcceptsTheRecord ==
  record # None =>
    LET plan == [id |-> "request", roles |-> Roles, order |-> Roles] IN
    Evidence!ValidExecution(
      [id |-> plan.id, seeds |-> Evidence!Seeded(plan), mock |-> FALSE,
       outputs |-> record.outputs, hashes |-> record.hashes, succeeded |-> TRUE,
       final |-> record.final # None, form |-> "record"],
      plan, FALSE)
=============================================================================
