------------------------------- MODULE FanOut -------------------------------
(***************************************************************************)
(* One FanOut.ExecuteWithTrace of pkg/orchestration/fanout.go: a goroutine *)
(* per agent sends the same input and files its answer under the agent's   *)
(* name; the caller waits for them all and aggregates.                     *)
(***************************************************************************)
EXTENDS Naturals, FiniteSets

CONSTANTS
  Agents,       \* the entries of f.agents
  Name,         \* Name[a]: the name given to Agent(name, subject)
  Quorum,       \* n of RequireQuorum(n)
  None

Names == {Name[a] : a \in Agents}
Aggregations == {"allMustSucceed", "firstSuccess", "collectAll", "quorum"}

ASSUME FanOutAssumption ==
  /\ IsFiniteSet(Agents) /\ None \notin Agents
  /\ Agents \subseteq DOMAIN Name
  /\ Quorum \in Nat

\* What Request returns: an error, or the bytes of a JSON value, other bytes
\* or none at all (resp.Data is then nil).
Answers == {"error", "json", "text", "empty"}

VARIABLES
  aggregator,  \* execOpts.aggregator: the aggregator in use
  worker,      \* what each agent's goroutine is doing
  answer,      \* what its Request has returned
  results,     \* results (and trace.Agents, written with it): name -> agent
  outcome      \* what the caller of ExecuteWithTrace gets

vars == <<aggregator, worker, answer, results, outcome>>

TypeOK ==
  /\ aggregator \in Aggregations
  /\ worker \in [Agents -> {"unborn", "requesting", "answered", "done"}]
  /\ answer \in [Agents -> Answers \cup {None}]
  /\ results \in [Names -> Agents \cup {None}]
  /\ \/ outcome = None
     \/ outcome \in [ok : {TRUE}, output : SUBSET (Agents \X Answers)]
     \/ outcome \in [ok : {FALSE}, output : {{}}]   \* an error has no output

\* The caller passes one of the aggregators, or none for the default.
Init ==
  /\ aggregator \in Aggregations
  /\ worker = [a \in Agents |-> "unborn"]
  /\ answer = [a \in Agents |-> None]
  /\ results = [n \in Names |-> None]
  /\ outcome = None

-----------------------------------------------------------------------------
(* The goroutines *)

\* The loop over f.agents: wg.Add(1) and go.  Its order cannot be observed.
Spawn(a) ==
  /\ worker[a] = "unborn"
  /\ worker' = [worker EXCEPT ![a] = "requesting"]
  /\ UNCHANGED <<aggregator, answer, results, outcome>>

\* client.Request returns: the agent has answered or failed, its timeout or
\* the client's has fired, or the context is done.
Answer(a) ==
  /\ worker[a] = "requesting"
  /\ \E x \in Answers : answer' = [answer EXCEPT ![a] = x]
  /\ worker' = [worker EXCEPT ![a] = "answered"]
  /\ UNCHANGED <<aggregator, results, outcome>>

\* Faulty variant: a goroutine whose Request failed returns early.
RecordSuccess(a) ==
  /\ worker[a] = "answered"
  /\ worker' = [worker EXCEPT ![a] = "done"]
  /\ results' = IF answer[a] = "error" THEN results
                                       ELSE [results EXCEPT ![Name[a]] = a]
  /\ UNCHANGED <<aggregator, answer, outcome>>

\* Faulty variant: and without wg.Done().
RecordOrHang(a) ==
  /\ worker[a] = "answered"
  /\ answer[a] # "error"
  /\ worker' = [worker EXCEPT ![a] = "done"]
  /\ results' = [results EXCEPT ![Name[a]] = a]
  /\ UNCHANGED <<aggregator, answer, outcome>>

\* The section under mu, then wg.Done(): a second agent with this name
\* overwrites the first.
Record(a) ==
  /\ worker[a] = "answered"
  /\ worker' = [worker EXCEPT ![a] = "done"]
  /\ results' = [results EXCEPT ![Name[a]] = a]
  /\ UNCHANGED <<aggregator, answer, outcome>>

-----------------------------------------------------------------------------
(* The aggregators, on the agents whose answers are in the map *)

Filed == {a \in Agents : results[Name[a]] = a}
Failed == {a \in Filed : answer[a] = "error"}
Succeeded == Filed \ Failed

\* marshalResults: a JSON value is embedded, anything else is quoted as a
\* string (no bytes at all as the empty string).
Embedded(a) == <<a, IF answer[a] = "json" THEN "json" ELSE "text">>
Combined == {Embedded(a) : a \in Succeeded}

Good(output) == [ok |-> TRUE, output |-> output]
Bad == [ok |-> FALSE, output |-> {}]

\* Faulty variant: a failure does not stop the loop.
AllMustSucceedLenient == {Good(Combined)}

AllMustSucceed == {IF Failed = {} THEN Good(Combined) ELSE Bad}

\* The map is ranged over in any order: any answer that is not nil may be
\* the first success.
FirstSuccess ==
  LET some == {a \in Succeeded : answer[a] # "empty"}
  IN  IF some = {} THEN {Bad} ELSE {Good({<<a, answer[a]>>}) : a \in some}

CollectAll == {Good(Combined)}

\* Faulty variant: off by one.
RequireQuorumOrMore == {IF Cardinality(Succeeded) <= Quorum THEN Bad
                                                            ELSE Good(Combined)}

RequireQuorum == {IF Cardinality(Succeeded) < Quorum THEN Bad
                                                     ELSE Good(Combined)}

Aggregated ==
  CASE aggregator = "allMustSucceed" -> AllMustSucceed
    [] aggregator = "firstSuccess" -> FirstSuccess
    [] aggregator = "collectAll" -> CollectAll
    [] aggregator = "quorum" -> RequireQuorum

\* Faulty variant: wg.Add(1) is left to the goroutine, which may be late.
WaitedEarly == \A a \in Agents : worker[a] \in {"unborn", "done"}

\* wg.Wait() returns.
Waited == \A a \in Agents : worker[a] = "done"

Aggregate ==
  /\ outcome = None
  /\ Waited
  /\ outcome' \in Aggregated
  /\ UNCHANGED <<aggregator, worker, answer, results>>

Returned == outcome # None /\ UNCHANGED vars

Next ==
  \/ \E a \in Agents : Spawn(a) \/ Answer(a) \/ Record(a)
  \/ Aggregate
  \/ Returned

Spec == Init /\ [][Next]_vars

\* Goroutines run, and Request returns: the agent's client gives a request
\* without a deadline its own (messaging.go 81-86).
Fairness ==
  /\ \A a \in Agents : WF_vars(Spawn(a)) /\ WF_vars(Answer(a))
                       /\ WF_vars(Record(a))
  /\ WF_vars(Aggregate)

FairSpec == Spec /\ Fairness

-----------------------------------------------------------------------------
(* Properties *)

Done == outcome # None
Errors == {a \in Agents : answer[a] = "error"}

\* Nobody is left out: the outcome is computed from an answer for each name.
EveryoneCounted == Done => \A n \in Names : results[n] # None

\* The maps handed to the aggregator and returned in the trace and in the
\* error, without the lock, are not written to any more.
ResultsFrozen == [][Done => UNCHANGED <<results, outcome>>]_vars

\* AllMustSucceed: "fails if any agent fails", and only then.
AllSucceeded ==
  Done /\ aggregator = "allMustSucceed" => (outcome.ok <=> Errors = {})

\* FirstSuccess: "Fails only if all agents fail."
FailsOnlyIfAllFail ==
  Done /\ aggregator = "firstSuccess" /\ ~outcome.ok => Errors = Agents

\* CollectAll: "collects all results (including failures)".
FailuresCollected ==
  Done /\ aggregator = "collectAll" =>
    {p[1] : p \in outcome.output} = Agents

\* RequireQuorum: "at least n agents to succeed", and no more is required.
QuorumReached ==
  Done /\ aggregator = "quorum" =>
    (outcome.ok <=> Cardinality(Agents \ Errors) >= Quorum)

\* ExecuteWithTrace returns, whoever fails.
Returns == <>Done
=============================================================================
