---------------------------- MODULE Applications ----------------------------
(***************************************************************************)
(* Programs on the SDK, from examples/: a ReadLoop, one BlogPipeline that  *)
(* the orchestrator runs for a line, a Debate, or an IntentRouter.  The    *)
(* variables of the others do not exist meanwhile (their value is None).   *)
(***************************************************************************)
EXTENDS Naturals, Sequences

CONSTANTS
  Models, Default, MaxHints, MaxRuns,   \* see ReadLoop
  MaxSteps,                             \* see BlogPipeline
  None

VARIABLES
  what,                                              \* the one that runs
  pc, agent,
  program, runs, signaled, line, model, sessionID,   \* ReadLoop
  hints, told, saved, kv, sessions,
  status, current,                                   \* of what it executes
  transforms, steps, data, failures, result,         \* BlogPipeline
  roundRobin, participants, index, messages, failed, said,  \* Debate
  fallback, at, i, target, path, output, requests,   \* IntentRouter
  answers

loopOnly == <<program, runs, signaled, line, model, sessionID, hints, told,
              saved, kv, sessions>>
blogOnly == <<transforms, steps, data, failures, result>>
debateOnly == <<roundRobin, participants, index, messages, failed, said>>
routerOnly == <<fallback, at, i, target, path, output, requests, answers>>
others == <<status, current, blogOnly, debateOnly, routerOnly>>
vars == <<what, pc, agent, status, current,
          loopOnly, blogOnly, debateOnly, routerOnly>>

Loop == INSTANCE ReadLoop
Blog == INSTANCE BlogPipeline
Club == INSTANCE Debate
Intents == INSTANCE IntentRouter

ASSUME ApplicationsAssumption ==
  /\ Blog!BlogAssumption
  /\ MaxHints \in Nat /\ MaxRuns \in Nat
  /\ None \notin Models \cup {Default}

TypeOK ==
  CASE what = "loop" -> Loop!TypeOK
    [] what = "blog" -> Blog!TypeOK
    [] what = "debate" -> Club!TypeOK
    [] what = "intents" -> Intents!TypeOK

NoLoop ==
  /\ program = None /\ runs = None /\ signaled = None /\ line = None
  /\ model = None /\ sessionID = None /\ hints = None /\ told = None
  /\ saved = None /\ kv = None /\ sessions = None
NoBlog ==
  /\ transforms = None /\ steps = None
  /\ data = None /\ failures = None /\ result = None
NoDebate ==
  /\ roundRobin = None /\ participants = None /\ index = None
  /\ messages = None /\ failed = None /\ said = None
NoRouter ==
  /\ fallback = None /\ at = None /\ i = None /\ target = None
  /\ path = None /\ output = None /\ requests = None /\ answers = None

Init ==
  \/ /\ what = "loop" /\ Loop!Init
     /\ NoBlog /\ NoDebate /\ NoRouter /\ status = None /\ current = None
  \/ /\ what = "blog" /\ Blog!Init
     /\ NoLoop /\ NoDebate /\ NoRouter
  \/ /\ what = "debate" /\ Club!Init
     /\ NoLoop /\ NoBlog /\ NoRouter /\ current = None
  \/ /\ what = "intents" /\ Intents!Init
     /\ NoLoop /\ NoBlog /\ NoDebate

Next ==
  /\ \/ /\ what = "loop" /\ Loop!Next
        /\ UNCHANGED others
     \/ /\ what = "blog" /\ Blog!Next
        /\ UNCHANGED <<loopOnly, debateOnly, routerOnly>>
     \/ /\ what = "debate" /\ Club!Next
        /\ UNCHANGED <<current, loopOnly, blogOnly, routerOnly>>
     \/ /\ what = "intents" /\ Intents!Next
        /\ UNCHANGED <<loopOnly, blogOnly, debateOnly>>
  /\ UNCHANGED what

Spec == Init /\ [][Next]_vars

\* The program runs, its calls return, and its user goes on typing: what is
\* not an empty line.
InLoop(A) == what = "loop" /\ A /\ UNCHANGED <<what, others>>
FairSpec ==
  /\ Spec
  /\ WF_vars(InLoop(Loop!Proceed))
  /\ SF_vars(InLoop(\E l \in Loop!Lines \ {""} : Loop!ReadLine(l)))

-----------------------------------------------------------------------------
(* Properties *)

\* What a program prints of the work of its agents is so: for a topic, what the
\* stages after the last failure have written; of a debate, a summary that
\* counts right; for a query, the answer of the right specialist to it.
PrintedIsTrue ==
  CASE what = "loop" -> TRUE
    [] what = "blog" -> Blog!OutputsSinceLastFailure
    [] what = "debate" -> Club!SummaryIsTrue
    [] what = "intents" -> Intents!AnsweredBySpecialist

\* ReadLoop: features-demo's memory has what its user was told it has.
HintsAreStored == what = "loop" => Loop!HintsAreStored

\* ReadLoop: a program that has got a signal ends with the next line it reads,
\* its agent closed.  (The orchestrator goes on.)
EndsAfterSignal ==
  what = "loop" /\ program # "blog" /\ signaled ~> Loop!Ended

\* "runs fn until SIGINT/SIGTERM is received" (internal/run/run.go 11).
\* (Expected to be violated.)
RunsUntilSignal == what = "loop" /\ program = "blog" /\ signaled ~> Loop!Ended

\* What documents and comments say besides.  (Expected to be violated.)
FailedStageIsAnError == what = "blog" => Blog!FailedStageIsAnError
ModelIsSaved == what = "loop" => Loop!ModelIsSaved
=============================================================================
