------------------------------ MODULE ToolLoop ------------------------------
(***************************************************************************)
(* One RunToolLoop of examples/tool-calling/loop.go: the model is asked,   *)
(* the tools it calls are executed, and it is asked again with their       *)
(* results, until it answers without a tool or has been asked too often.   *)
(*                                                                         *)
(* A tool call is named by its ID, <<n, j>> for the j-th call of the n-th  *)
(* response; a message by its role and the IDs it carries.                 *)
(***************************************************************************)
EXTENDS Naturals, Sequences, SequencesExt

CONSTANTS
  MaxIterations,  \* the safety limit, 5 in the code
  MaxCalls,       \* bound on the tool calls of a response
  None

VARIABLES
  responses,  \* how many tool calls each response has had
  messages,   \* the conversation the loop keeps
  todo,       \* the calls of the latest response still to be executed
  sent,       \* the messages of the latest CompletionRequest
  status      \* "running", or what RunToolLoop has returned

vars == <<responses, messages, todo, sent, status>>

IDs == (1..MaxIterations) \X (1..MaxCalls)
Messages == [role : {"system", "user", "assistant", "tool"},
             calls : BoundedSeq(IDs, MaxCalls), id : IDs \cup {None}]

TypeOK ==
  /\ responses \in BoundedSeq(0..MaxCalls, MaxIterations)
  /\ \A s \in {messages, sent} : \A n \in DOMAIN s : s[n] \in Messages
  /\ \A n \in DOMAIN todo : todo[n] \in IDs
  /\ status \in {"running", "succeeded", "failed"}

Message(role) == [role |-> role, calls |-> <<>>, id |-> None]

Init ==
  /\ responses = <<>> /\ todo = <<>> /\ sent = <<>>
  /\ messages = <<Message("system"), Message("user")>>
  /\ status = "running"

\* buildCompletionRequest: message by message, with its tool calls.
Request == [n \in DOMAIN messages |->
             [role |-> messages[n].role, id |-> messages[n].id,
              calls |-> [j \in DOMAIN messages[n].calls |-> messages[n].calls[j]]]]

MayAsk == status = "running" /\ todo = <<>> /\ Len(responses) < MaxIterations

\* Complete is refused or fails.
CompleteFails ==
  /\ MayAsk
  /\ status' = "failed" /\ sent' = Request
  /\ UNCHANGED <<responses, messages, todo>>

\* The response calls c tools; with none it is the loop's answer.
Completed ==
  /\ MayAsk
  /\ sent' = Request
  /\ \E c \in 0..MaxCalls :
       /\ responses' = Append(responses, c)
       /\ todo' = [j \in 1..c |-> <<Len(responses) + 1, j>>]
       /\ messages' = IF c = 0 THEN messages
                      ELSE Append(messages,
                             [Message("assistant") EXCEPT !.calls = todo'])
       /\ status' = IF c = 0 THEN "succeeded" ELSE status

\* Faulty variant: an unknown tool leaves no result.
ExecuteToolIfKnown ==
  /\ status = "running" /\ todo # <<>>
  /\ \/ messages' = Append(messages, [Message("tool") EXCEPT !.id = Head(todo)])
     \/ UNCHANGED messages
  /\ todo' = Tail(todo)
  /\ UNCHANGED <<responses, sent, status>>

\* An unknown tool and arguments that do not parse have results, too.
ExecuteTool ==
  /\ status = "running" /\ todo # <<>>
  /\ messages' = Append(messages, [Message("tool") EXCEPT !.id = Head(todo)])
  /\ todo' = Tail(todo)
  /\ UNCHANGED <<responses, sent, status>>

MaxReached ==
  /\ status = "running" /\ todo = <<>> /\ Len(responses) = MaxIterations
  /\ status' = "failed"
  /\ UNCHANGED <<responses, messages, todo, sent>>

Step == CompleteFails \/ Completed \/ ExecuteTool \/ MaxReached

Returned == status # "running" /\ UNCHANGED vars
Next == Step \/ Returned
Spec == Init /\ [][Next]_vars

-----------------------------------------------------------------------------
(* Properties *)

\* In every request the calls of an assistant message are followed by their
\* results, one each, in order, before anything else is said; and every result
\* is that of a call.
CallsAreAnswered ==
  \A n \in DOMAIN sent :
    CASE sent[n].role = "assistant" ->
           \A j \in DOMAIN sent[n].calls :
             /\ n + j \in DOMAIN sent
             /\ sent[n + j].role = "tool"
             /\ sent[n + j].id = sent[n].calls[j]
      [] sent[n].role = "tool" ->
           \E a \in 1..n - 1 :
             n - a \in DOMAIN sent[a].calls /\ sent[a].calls[n - a] = sent[n].id
      [] OTHER -> n <= 2

\* The loop as a Conversation: a turn is a response or a failed Complete.
Failed == status = "failed" /\ todo = <<>> /\ Len(responses) < MaxIterations
Turns == [n \in 1..Len(responses) |-> "ok"]
         \o (IF Failed THEN <<"error">> ELSE <<>>)
Limit == MaxIterations
=============================================================================
