-------------------------- MODULE CompletionStream --------------------------
(***************************************************************************)
(* Streaming completions: CompleteStream and ResumeStream of               *)
(* pkg/athyr/llm.go, one call at a time, and the platform they read from.  *)
(*                                                                         *)
(* The platform numbers the chunks of an answer from 1; the last of a      *)
(* complete answer has Done set.  When the backend fails it sends an error *)
(* chunk, which is numbered too, and then ends the stream.  A durable      *)
(* answer goes on growing while nobody reads it.                           *)
(***************************************************************************)
EXTENDS Naturals, Sequences

CONSTANTS
  MaxChunks,   \* bound on the length of an answer
  FailureEnds  \* how a stream ends after an error chunk: "error", "eof"

CompletionStreamAssumption ==
  /\ MaxChunks \in Nat \ {0}
  /\ FailureEnds \subseteq {"error", "eof"} /\ FailureEnds # {}

VARIABLES
  answer,      \* the latest answer: its chunks so far and how it ended
  call,        \* the call that is receiving, or "none"
  next,        \* the number of the chunk Recv returns next
  errorChunk,  \* lastErrorChunk: "none", or its PartialResponse
  result,      \* what the last call has returned
  shown        \* the chunks given to handlers that returned nil

stream == <<answer, call, next, errorChunk, result>>

StreamTypeOK ==
  /\ answer \in [chunks : 0..MaxChunks, end : {"none", "open", "done", "failed"}]
  /\ call \in {"none", "complete", "resume"}
  /\ next \in 1..MaxChunks + 2
  /\ errorChunk \in {"none", "empty", "partial"}
  /\ result \in {"none", "nil", "handler", "stream", "athyr"}

StreamInit ==
  /\ answer = [chunks |-> 0, end |-> "none"]
  /\ call = "none" /\ next = 1 /\ errorChunk = "none" /\ result = "none"
  /\ shown = <<>>

-----------------------------------------------------------------------------
(* The platform *)

\* An answer is complete at the latest when it is MaxChunks long.
Generate ==
  /\ answer.end = "open" /\ answer.chunks < MaxChunks
  /\ \E end \in {"open", "done"} :
       /\ answer.chunks + 1 = MaxChunks => end = "done"
       /\ answer' = [chunks |-> answer.chunks + 1, end |-> end]
  /\ UNCHANGED <<call, next, errorChunk, result, shown>>

BackendFails ==
  /\ answer.end = "open"
  /\ answer' = [answer EXCEPT !.end = "failed"]
  /\ UNCHANGED <<call, next, errorChunk, result, shown>>

-----------------------------------------------------------------------------
(* The calls *)

\* CompleteStream has a new answer made; it may fail before it receives.
CompleteStream ==
  /\ call = "none"
  /\ answer' = [chunks |-> 0, end |-> "open"]
  /\ next' = 1 /\ errorChunk' = "none"
  /\ \/ call' = "complete" /\ result' = "none"
     \/ UNCHANGED call /\ result' = "athyr"

\* Faulty variant: it reads on from the chunk lastSequence.
ResumeStreamFrom(lastSequence) ==
  /\ call = "none"
  /\ next' = lastSequence /\ errorChunk' = "none"
  /\ \/ call' = "resume" /\ result' = "none"
     \/ UNCHANGED call /\ result' = "athyr"
  /\ UNCHANGED answer

\* ResumeStream reads on after the chunk lastSequence.
ResumeStream(lastSequence) ==
  /\ call = "none"
  /\ next' = lastSequence + 1 /\ errorChunk' = "none"
  /\ \/ call' = "resume" /\ result' = "none"
     \/ UNCHANGED call /\ result' = "athyr"
  /\ UNCHANGED answer

Return(x) == call' = "none" /\ result' = x

\* A chunk is received; the handler takes it, or its error is returned.
ChunkReady == call # "none" /\ next <= answer.chunks

ChunkHandled ==
  /\ ChunkReady
  /\ shown' = Append(shown, next)
  /\ next' = next + 1
  /\ UNCHANGED <<answer, call, errorChunk, result>>

HandlerFails ==
  /\ ChunkReady
  /\ Return("handler")
  /\ next' = next + 1
  /\ UNCHANGED <<answer, errorChunk, shown>>

\* CompleteStream keeps an error chunk to itself.  ResumeStream gives it to
\* the handler, which returns its error.
ErrorChunk ==
  /\ call # "none" /\ answer.end = "failed" /\ next = answer.chunks + 1
  /\ next' = next + 1
  /\ IF call = "complete"
     THEN /\ errorChunk' = IF answer.chunks > 0 THEN "partial" ELSE "empty"
          /\ UNCHANGED <<call, result>>
     ELSE Return("handler") /\ UNCHANGED errorChunk
  /\ UNCHANGED <<answer, shown>>

\* Recv returns io.EOF.
StreamEnds ==
  /\ call # "none"
  /\ \/ answer.end = "done" /\ next = answer.chunks + 1
     \/ answer.end = "failed" /\ next = answer.chunks + 2 /\ "eof" \in FailureEnds
  /\ Return("nil")
  /\ UNCHANGED <<answer, next, errorChunk, shown>>

\* Faulty variant: every error is taken for the end.
StreamFailsAsEnd ==
  /\ call # "none"
  /\ Return("nil")
  /\ UNCHANGED <<answer, next, errorChunk, shown>>

\* Recv returns another error: after the error chunk, or at any time because
\* the connection is lost or the context done.
StreamFails ==
  /\ call # "none"
  /\ Return(IF errorChunk = "partial" THEN "stream" ELSE "athyr")
  /\ UNCHANGED <<answer, next, errorChunk, shown>>

\* What Recv returns on a connection that holds.
Recv ==
  \/ ChunkHandled \/ ErrorChunk \/ StreamEnds
  \/ "error" \in FailureEnds /\ next = answer.chunks + 2 /\ StreamFails

Platform == Generate \/ BackendFails

-----------------------------------------------------------------------------
(* Properties *)

\* "the error will be returned" (llm.go 88): CompleteStream returns nil only
\* if the answer is complete.
NilMeansComplete == result = "nil" => answer.end = "done"
=============================================================================
