---------------------------- MODULE IntentRouter ----------------------------
(***************************************************************************)
(* The orchestrator of examples/handoff-router: one HandoffRouter handles  *)
(* four queries in turn.  Triage is a server that looks for words in the   *)
(* query, and passes it on; each specialist answers with an object that    *)
(* the router takes for a decision without a route.                        *)
(*                                                                         *)
(* A query is the kinds of words it has; an answer is told apart by who    *)
(* has given it, to which query.                                           *)
(***************************************************************************)
EXTENDS Naturals, Sequences, SequencesExt

VARIABLES
  pc,       \* where runOrchestrator is: "connect", "handle", "returned"
  agent,    \* its agent is connected and not closed
  fallback, at, i, target, current, path, status, output, requests,
            \* of HandleWithTrace, see Handoff
  answers   \* what has been printed for the queries so far

router == <<fallback, at, i, target, current, path, status, output, requests>>
vars == <<pc, agent, router, answers>>

Router == INSTANCE Handoff WITH
  Routes <- {"weather", "calculator", "joke"}, Strangers <- {},
  MaxHandoffs <- 10

Queries == <<{"weather"}, {"math"}, {}, {"weather"}>>
query == Len(answers) + 1

Answers == {[route |-> <<>>, query |-> 0]} \cup
  [route : Seq(Router!RouteNames \cup {"triage"}), query : DOMAIN Queries]

TypeOK ==
  /\ pc \in {"connect", "handle", "returned"}
  /\ agent \in BOOLEAN
  /\ Router!TypeOK
  /\ answers \in Seq(Answers) /\ Len(answers) <= Len(Queries)

\* The router has no fallback.
Init ==
  /\ pc = "connect" /\ agent = FALSE
  /\ Router!Init /\ fallback = FALSE
  /\ answers = <<>>

\* MustConnect: without a connection the program panics.
Connect ==
  /\ pc = "connect"
  /\ \/ agent' = TRUE /\ pc' = "handle"
     \/ UNCHANGED agent /\ pc' = "returned"
  /\ UNCHANGED <<router, answers>>

ClassifyIntent(words) ==
  IF "weather" \in words THEN "weather"
  ELSE IF "math" \in words THEN "calculator" ELSE "joke"

Handling ==
  /\ pc = "handle" /\ query <= Len(Queries)
  /\ UNCHANGED <<pc, agent, answers>>

\* routerHandler: the decision names the specialist, its context is the query.
TriageRoutes ==
  /\ Handling /\ Router!FirstRoutes
  /\ Last(path').route = ClassifyIntent(Queries[query])
  /\ Last(path').context

\* weatherHandler, calculatorHandler or jokeHandler answers.
SpecialistAnswers == Handling /\ Router!SpecialistFinal

\* A worker does not answer in time.
WorkerSilent == Handling /\ (Router!FirstFails \/ Router!SpecialistFails)

\* What a query's data is made from: the caller's input, or the context of a
\* decision on the data that was sent with its request.
Origin[d \in 0..Len(requests)] ==
  IF d = 0 THEN query ELSE Origin[requests[d][2]]

\* The names RouteNames() returns, and the answer; or the error is printed.
Show ==
  answers' = Append(answers,
    IF status = "failed" THEN [route |-> <<>>, query |-> 0]
    ELSE [route |-> [n \in 1..Len(path) |-> path[n].agent],
          query |-> Origin[requests[output][2]]])

\* Faulty variant: the router goes on with the trace it has.
NextQueryAgain ==
  /\ pc = "handle" /\ status # "running"
  /\ Show
  /\ at' = "loop" /\ i' = 0 /\ target' = "" /\ current' = 0
  /\ status' = "running" /\ output' = 0
  /\ UNCHANGED <<pc, agent, fallback, path, requests>>

\* The next HandleWithTrace has a trace and a counter of its own.
NextQuery ==
  /\ pc = "handle" /\ status # "running"
  /\ Show
  /\ at' = "loop" /\ i' = 0 /\ target' = "" /\ current' = 0
  /\ path' = <<>> /\ status' = "running" /\ output' = 0
  /\ requests' = <<>>
  /\ UNCHANGED <<pc, agent, fallback>>

\* All queries are done, and the deferred Close runs.
Finish ==
  /\ pc = "handle" /\ query > Len(Queries)
  /\ pc' = "returned" /\ agent' = FALSE
  /\ UNCHANGED <<router, answers>>

Step ==
  \/ Connect \/ TriageRoutes \/ SpecialistAnswers \/ WorkerSilent
  \/ NextQuery \/ Finish

Returned == pc = "returned" /\ UNCHANGED vars
Next == Step \/ Returned

Spec == Init /\ [][Next]_vars

-----------------------------------------------------------------------------
(* Properties *)

\* "routes to the appropriate specialist" (main.go 4): what is printed for a
\* query is an error, or what the specialist for its words has answered to
\* that very query, asked by triage and nobody else.
AnsweredBySpecialist ==
  \A n \in DOMAIN answers :
    \/ answers[n].route = <<>>
    \/ answers[n] = [route |-> <<"triage", ClassifyIntent(Queries[n])>>,
                     query |-> n]
=============================================================================
