--------------------------- MODULE DurableStream ---------------------------
(***************************************************************************)
(* An application that recovers from disconnects as llm.go (129-130) has   *)
(* it: it completes with Durable set, keeps the request id that the first  *)
(* chunk brings and the number of the last chunk it has handled, and       *)
(* resumes from there when a call has failed.                              *)
(***************************************************************************)
EXTENDS CompletionStream

CONSTANT MaxResumes   \* bound on the calls of ResumeStream

VARIABLES
  lastSequence,  \* of the last chunk handled; 0: there is no request id yet
  resumes,       \* calls of ResumeStream so far
  status         \* "started", "running", or how it ended for the application

durable == <<lastSequence, resumes, status>>
vars == <<stream, shown, durable>>

TypeOK ==
  /\ StreamTypeOK
  /\ shown \in Seq(1..MaxChunks)
  /\ lastSequence \in 0..MaxChunks /\ resumes \in 0..MaxResumes
  /\ status \in {"started", "running", "succeeded", "failed"}

Init ==
  /\ StreamInit
  /\ lastSequence = 0 /\ resumes = 0 /\ status = "started"

Complete ==
  /\ status = "started" /\ CompleteStream
  /\ status' = "running"
  /\ UNCHANGED <<lastSequence, resumes, shown>>

\* The handler: the number is kept once the chunk is dealt with.
Handle ==
  /\ ChunkHandled
  /\ lastSequence' = next
  /\ UNCHANGED <<resumes, status>>

HandleFails ==
  /\ HandlerFails
  /\ UNCHANGED durable

Receive ==
  /\ ErrorChunk \/ StreamEnds \/ StreamFails
  /\ UNCHANGED durable

Returned(x) == status = "running" /\ call = "none" /\ result \in x

\* A failed call is resumed while there is something to resume; a StreamError
\* means that the answer itself has failed.
MayResume == lastSequence > 0 /\ resumes < MaxResumes /\ result # "stream"

Resume ==
  /\ Returned({"handler", "athyr"}) /\ MayResume
  /\ ResumeStream(lastSequence)
  /\ resumes' = resumes + 1
  /\ UNCHANGED <<lastSequence, status, shown>>

Succeed ==
  /\ Returned({"nil"})
  /\ status' = "succeeded"
  /\ UNCHANGED <<stream, shown, lastSequence, resumes>>

GiveUp ==
  /\ Returned({"handler", "athyr", "stream"}) /\ ~MayResume
  /\ status' = "failed"
  /\ UNCHANGED <<stream, shown, lastSequence, resumes>>

\* Steps of the application's goroutine.
Step ==
  \/ Complete \/ Handle \/ HandleFails \/ Receive
  \/ Resume \/ Succeed \/ GiveUp
PlatformStep == Platform /\ UNCHANGED durable
Next == Step \/ PlatformStep

Spec == Init /\ [][Next]_vars

\* What the platform has sent is received and handled, unless the connection
\* breaks first; the backend need not go on.
Progress ==
  \/ Complete \/ Handle \/ Resume \/ Succeed \/ GiveUp
  \/ Recv /\ UNCHANGED durable
FairSpec == Spec /\ WF_vars(Progress)

-----------------------------------------------------------------------------

\* The stream as a Delivery: the application's first call begins it.
Asked == status # "started"
Answer == IF Asked THEN answer ELSE [chunks |-> 0, end |-> "open"]
Status == IF Asked THEN status ELSE "running"
=============================================================================
