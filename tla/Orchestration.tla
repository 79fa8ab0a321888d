--------------------------- MODULE Orchestration ---------------------------
(***************************************************************************)
(* The executors that take turns: an application runs one Pipeline,        *)
(* HandoffRouter or GroupChat of pkg/orchestration, or the tool loop of    *)
(* examples/tool-calling.  The local variables of the others do not exist  *)
(* meanwhile (their value is None); current, messages and status are those *)
(* of whichever runs.                                                      *)
(***************************************************************************)
EXTENDS Naturals, Sequences, SequencesExt

CONSTANTS
  Routes, Strangers, MaxHandoffs,    \* see Handoff
  MaxSteps,                          \* see Pipeline
  Names, MaxParticipants, MaxRounds, \* see GroupChat
  MaxIterations, MaxCalls,           \* see ToolLoop
  None

VARIABLES
  executor,                                          \* the one that runs
  current, messages, status,
  fallback, at, i, target, path, output, requests,   \* of HandleWithTrace
  transforms, steps,                                 \* of ExecuteWithTrace
  roundRobin, participants, index, failed,           \* of DiscussWithTrace
  responses, todo, sent                              \* of RunToolLoop

routerOnly == <<fallback, at, i, target, path, output, requests>>
pipelineOnly == <<transforms, steps>>
chatOnly == <<roundRobin, participants, index, failed>>
toolsOnly == <<responses, todo, sent>>
vars == <<executor, current, messages, status,
          routerOnly, pipelineOnly, chatOnly, toolsOnly>>

Router == INSTANCE Handoff
Line == INSTANCE Pipeline
Chat == INSTANCE GroupChat
Tools == INSTANCE ToolLoop

ASSUME OrchestrationAssumption ==
  /\ MaxHandoffs \in Nat /\ MaxSteps \in Nat
  /\ MaxParticipants \in Nat /\ MaxRounds \in Nat
  /\ MaxIterations \in Nat /\ MaxCalls \in Nat
  /\ Router!HandoffAssumption
  /\ Chat!GroupChatAssumption

TypeOK ==
  CASE executor = "router" -> Router!TypeOK
    [] executor = "pipeline" -> Line!TypeOK
    [] executor = "chat" -> Chat!TypeOK
    [] executor = "tools" -> Tools!TypeOK

NoRouter ==
  /\ fallback = None /\ at = None /\ i = None /\ target = None
  /\ path = None /\ output = None /\ requests = None
NoPipeline == transforms = None /\ steps = None
NoChat ==
  roundRobin = None /\ participants = None /\ index = None /\ failed = None
NoTools == responses = None /\ todo = None /\ sent = None

\* The router and the pipeline keep no messages; the chat and the tool loop
\* keep nothing else.
Init ==
  \/ /\ executor = "router" /\ Router!Init
     /\ NoPipeline /\ NoChat /\ NoTools /\ messages = None
  \/ /\ executor = "pipeline" /\ Line!Init
     /\ NoRouter /\ NoChat /\ NoTools /\ messages = None
  \/ /\ executor = "chat" /\ Chat!Init
     /\ NoRouter /\ NoPipeline /\ NoTools /\ current = None
  \/ /\ executor = "tools" /\ Tools!Init
     /\ NoRouter /\ NoPipeline /\ NoChat /\ current = None

Step ==
  /\ \/ /\ executor = "router" /\ Router!Step
        /\ UNCHANGED <<messages, pipelineOnly, chatOnly, toolsOnly>>
     \/ /\ executor = "pipeline" /\ Line!Step
        /\ UNCHANGED <<messages, routerOnly, chatOnly, toolsOnly>>
     \/ /\ executor = "chat" /\ Chat!Step
        /\ UNCHANGED <<current, routerOnly, pipelineOnly, toolsOnly>>
     \/ /\ executor = "tools" /\ Tools!Step
        /\ UNCHANGED <<current, routerOnly, pipelineOnly, chatOnly>>
  /\ UNCHANGED executor

Returned == status # "running" /\ UNCHANGED vars

Next == Step \/ Returned

Spec == Init /\ [][Next]_vars

\* Request returns: the client gives it a deadline (messaging.go 81-86).  The
\* tool loop's Complete has none: the platform is assumed to answer it.
FairSpec == Spec /\ WF_vars(Step)

-----------------------------------------------------------------------------
(* Properties *)

\* HandoffRouter:
\* Nobody is asked but whom the agent before has named, in a chain with the
\* context it gave, and the output is the answer of the last agent asked.
FollowsDecisions == executor = "router" => Router!FollowsDecisions

\* Pipeline: every step gets what the step before has put out, and success
\* means that each of them has succeeded.
OutputsArePassedOn ==
  executor = "pipeline" => Line!Chained /\ Line!SucceedsWithAllSteps

\* GroupChat: with round robin and distinct names the turns are even.
SpeaksOncePerCycle == executor = "chat" => Chat!NamedApartSpeaksOncePerCycle

\* Tool loop: the model is asked again with a result for each of its calls.
CallsAreAnswered == executor = "tools" => Tools!CallsAreAnswered

\* All four are Conversations: turns one after the other, up to the first
\* failure, within a limit that is known at the start, and an end.
Turns == CASE executor = "router" -> Router!Turns
           [] executor = "pipeline" -> Line!Turns
           [] executor = "chat" -> Chat!Turns
           [] executor = "tools" -> Tools!Turns
Limit == CASE executor = "router" -> Router!Limit
           [] executor = "pipeline" -> Line!Limit
           [] executor = "chat" -> Chat!Limit
           [] executor = "tools" -> Tools!Limit
Promised == INSTANCE Conversation WITH limit <- Limit, turns <- Turns
ImplementsConversation == Promised!Spec
=============================================================================
