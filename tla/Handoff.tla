------------------------------ MODULE Handoff ------------------------------
(***************************************************************************)
(* One HandoffRouter.HandleWithTrace of pkg/orchestration/handoff.go: the  *)
(* triage agent decides who is asked, that agent may hand the request on,  *)
(* and an unknown route goes to the fallback agent.                        *)
(*                                                                         *)
(* A step is one Request and everything the router does with its answer.   *)
(* Subjects are abstracted to who they reach; data to where it comes from: *)
(* 0 is the caller's input, n the context of the decision in step n.       *)
(***************************************************************************)
EXTENDS Naturals, Sequences, SequencesExt

CONSTANTS
  Routes,       \* the keys of r.routes
  Strangers,    \* names agents may answer that are not routes
  MaxHandoffs   \* r.maxHandoffs

\* The names the model gives to triage, to the fallback agent and to the
\* entries of the trace that name no agent are not names of routes.
HandoffAssumption ==
  /\ MaxHandoffs \in Nat
  /\ Routes \cap Strangers = {}
  /\ {"triage", "fallback", "final", "error", ""}
       \cap (Routes \cup Strangers) = {}

RouteNames == Routes \cup Strangers

\* What an agent answers: bytes that are no decision; or a decision, that may
\* be handled already, have no route, and have a context.
Decisions == [kind : {"decision"}, handled : BOOLEAN,
              route : RouteNames \cup {""}, context : BOOLEAN]
Answers == {[kind |-> "raw"]} \cup Decisions

VARIABLES
  fallback,  \* r.fallbackAgent: a fallback agent is configured
  at,        \* the request the loop makes next, or "returned"
  i,         \* the loop's counter
  target,    \* decision.Route, while its agent has not been asked
  current,   \* the data the next request sends
  path,      \* trace.Path: who was asked, and what was made of the answer
  status,    \* what HandleWithTrace returns: an output or an error
  output,    \* the step whose answer is trace.Output; 0: none
  requests   \* what the platform has been sent: subject and data, in order

vars == <<fallback, at, i, target, current, path, status, output, requests>>

PathSteps == [agent : RouteNames \cup {"triage", "fallback"},
              route : RouteNames \cup {"fallback", "final", "error", ""},
              context : BOOLEAN]

TypeOK ==
  /\ fallback \in BOOLEAN
  /\ at \in {"loop", "specialist", "fallback", "returned"}
  /\ i \in 0..MaxHandoffs
  /\ target \in Routes \cup {""}
  /\ current \in 0..Len(path)
  /\ path \in Seq(PathSteps)
  /\ status \in {"running", "succeeded", "failed"}
  /\ output \in 0..Len(path)
  /\ requests \in Seq((Routes \cup {"triage", "fallback", ""}) \X Nat)

\* There is a triage agent: without one HandleWithTrace is an error at once.
Init ==
  /\ fallback \in BOOLEAN
  /\ at = "loop" /\ i = 0 /\ target = "" /\ current = 0
  /\ path = <<>> /\ status = "running" /\ output = 0
  /\ requests = <<>>

Handled(x) == x.kind = "decision" /\ x.handled
Final(x) == x.kind = "raw" \/ Handled(x) \/ (x.kind = "decision" /\ x.route = "")
Handoffs == {x \in Decisions : ~Final(x)}

\* r.routes[agent]: the empty subject for an agent that is not a route.
Subject(agent) == IF agent \in Routes \cup {"triage", "fallback"}
                  THEN agent ELSE ""

\* The request is sent, and its step appended to the trace.
Ask(agent, route, context) ==
  /\ requests' = Append(requests, <<Subject(agent), current>>)
  /\ path' = Append(path, [agent |-> agent, route |-> route,
                           context |-> context])

Finish(s, out) ==
  /\ at' = "returned" /\ status' = s /\ output' = out
  /\ UNCHANGED <<fallback, i, target, current>>

\* A failed Request ends the conversation, and so does a final answer.
AskAndFail(agent) == Ask(agent, "error", FALSE) /\ Finish("failed", 0)
AskAndFinish(agent, route) ==
  Ask(agent, route, FALSE) /\ Finish("succeeded", Len(path'))

-----------------------------------------------------------------------------
(* The loop *)

MoreHandoffs == at = "loop" /\ i < MaxHandoffs

\* The first request of a round: triage, or the agent the last step named.
First == IF i = 0 THEN "triage" ELSE Last(path).route

FirstFails == MoreHandoffs /\ AskAndFail(First)

\* The trace keeps the route of a decision that was handled already.
FirstFinal ==
  /\ MoreHandoffs
  /\ \E x \in {y \in Answers : Final(y)} :
       AskAndFinish(First, IF Handled(x) THEN x.route ELSE "final")

\* Its answer names a route: the specialist is asked next.
FirstRoutes ==
  /\ MoreHandoffs
  /\ \E x \in Handoffs :
       /\ x.route \in Routes
       /\ target' = x.route
       /\ Ask(First, x.route, x.context)
       /\ current' = IF x.context THEN Len(path') ELSE current
  /\ at' = "specialist"
  /\ UNCHANGED <<fallback, i, status, output>>

\* It names no route: the fallback agent is asked next, or it is an error.
FirstUnknown ==
  /\ MoreHandoffs
  /\ \E x \in Handoffs :
       /\ x.route \notin Routes
       /\ IF fallback
          THEN /\ Ask(First, "fallback", x.context)
               /\ at' = "fallback"
               /\ UNCHANGED <<fallback, i, target, current, status, output>>
          ELSE Ask(First, x.route, x.context) /\ Finish("failed", 0)

FallbackFails == at = "fallback" /\ AskAndFail("fallback")

\* Whatever the fallback agent answers is the output.
FallbackFinal == at = "fallback" /\ AskAndFinish("fallback", "final")

SpecialistFails == at = "specialist" /\ AskAndFail(target)

SpecialistFinal == at = "specialist" /\ AskAndFinish(target, "final")

\* Faulty variants: the round is not counted; the specialist's context is
\* ignored; the specialist is asked again.
SpecialistRoutesUncounted ==
  /\ at = "specialist"
  /\ \E x \in Handoffs :
       /\ Ask(target, x.route, x.context)
       /\ current' = IF x.context THEN Len(path') ELSE 0
  /\ i' = 1
  /\ at' = "loop" /\ target' = ""
  /\ UNCHANGED <<fallback, status, output>>

SpecialistRoutesContextless ==
  /\ at = "specialist"
  /\ \E x \in Handoffs : Ask(target, x.route, x.context)
  /\ i' = i + 1
  /\ at' = "loop" /\ target' = "" /\ current' = 0
  /\ UNCHANGED <<fallback, status, output>>

SpecialistRoutesAgain ==
  /\ at = "specialist"
  /\ \E x \in Handoffs :
       /\ Ask(target, x.route, x.context)
       /\ current' = IF x.context THEN Len(path') ELSE 0
  /\ i' = i + 1
  /\ at' = IF i' < MaxHandoffs THEN "specialist" ELSE "loop"
  /\ UNCHANGED <<fallback, target, status, output>>

\* The specialist hands the request on: the next round asks whomever it
\* names, with its context or else with the caller's input.
SpecialistRoutes ==
  /\ at = "specialist"
  /\ \E x \in Handoffs :
       /\ Ask(target, x.route, x.context)
       /\ current' = IF x.context THEN Len(path') ELSE 0
  /\ i' = i + 1
  /\ at' = "loop" /\ target' = ""
  /\ UNCHANGED <<fallback, status, output>>

Exceeded ==
  /\ at = "loop" /\ i >= MaxHandoffs
  /\ Finish("failed", 0)
  /\ UNCHANGED <<path, requests>>

Returned == at = "returned" /\ UNCHANGED vars

Step ==
  \/ FirstFails \/ FirstFinal \/ FirstRoutes \/ FirstUnknown
  \/ FallbackFails \/ FallbackFinal
  \/ SpecialistFails \/ SpecialistFinal \/ SpecialistRoutes
  \/ Exceeded

Next == Step \/ Returned

Spec == Init /\ [][Next]_vars

\* Request returns: the client gives it a deadline (messaging.go 81-86).
FairSpec == Spec /\ WF_vars(Step)

-----------------------------------------------------------------------------
(* Properties *)

\* "Context is additional context to pass to the next agent": it gets the
\* data the decision came with.
ContextReaches(n) == path[n].context => requests[n + 1][2] = n

\* Nobody is asked but whom the agent before has named, in a chain with the
\* context it gave, and after a final or a failed step nobody is; the output is
\* the answer of the last agent asked.
FollowsDecisions ==
  /\ \A n \in 1..Len(path) - 1 :
       /\ path[n + 1].agent = path[n].route
       /\ requests[n + 1][1] = Subject(path[n].route)
       /\ path[n].route # "fallback" => ContextReaches(n)
  /\ status = "succeeded" => output = Len(path) /\ Last(path).route # "error"

\* The context reaches whoever is next.
ContextReachesNext == \A n \in 1..Len(path) - 1 : ContextReaches(n)

\* "MaxHandoffs sets the maximum number of handoffs allowed": the first
\* request goes to triage, each other one is a handoff.
HandoffsWithinLimit == Len(requests) <= MaxHandoffs + 1

\* "Fallback sets the fallback agent for unhandled routes": requests go to
\* agents that are configured.
OnlyConfiguredSubjects == \A n \in 1..Len(requests) : requests[n][1] # ""

\* The router as a Conversation: it takes turns, two in a round at most.
Turns == [n \in 1..Len(path) |->
           IF path[n].route = "error" THEN "error" ELSE "ok"]
Limit == 2 * MaxHandoffs
=============================================================================
