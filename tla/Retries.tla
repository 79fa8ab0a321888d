------------------------------ MODULE Retries ------------------------------
(***************************************************************************)
(* What is done again when it has failed: an application resumes a durable *)
(* stream, the resilience example goes from strategy to strategy, or a     *)
(* retry loop of the SDK waits.  One of them runs; the variables of the    *)
(* others do not exist meanwhile (their value is None).                    *)
(***************************************************************************)
EXTENDS Integers, Sequences

CONSTANTS
  MaxChunks, FailureEnds, MaxResumes,   \* see CompletionStream, DurableStream
  maxRetries, Notice, Whole,            \* see Resilience
  Width, Bases, Caps, MaxAttempts,      \* see Backoff
  None

VARIABLES
  what,                                                \* the one that runs
  answer, call, next, errorChunk, result, shown, status,
  lastSequence, resumes,                               \* DurableStream
  askedBackup, tried, from,                            \* Resilience
  loop, base, cap, attempt, wait                       \* Backoff

streamOnly == <<answer, call, next, errorChunk, result, shown, status>>
durableOnly == <<lastSequence, resumes>>
resilienceOnly == <<askedBackup, tried, from>>
backoffOnly == <<loop, base, cap, attempt, wait>>
vars == <<what, streamOnly, durableOnly, resilienceOnly, backoffOnly>>

Durable == INSTANCE DurableStream
Resilient == INSTANCE Resilience
Waits == INSTANCE Backoff

ASSUME RetriesAssumption ==
  /\ Durable!CompletionStreamAssumption /\ Waits!BackoffAssumption
  /\ MaxResumes \in Nat /\ maxRetries \in Nat

TypeOK ==
  CASE what = "durable" -> Durable!TypeOK
    [] what = "resilient" -> Resilient!TypeOK
    [] what = "waits" -> Waits!TypeOK

NoStream ==
  /\ answer = None /\ call = None /\ next = None /\ errorChunk = None
  /\ result = None /\ shown = None /\ status = None
NoDurable == lastSequence = None /\ resumes = None
NoResilience == askedBackup = None /\ tried = None /\ from = None
NoBackoff ==
  loop = None /\ base = None /\ cap = None /\ attempt = None /\ wait = None

Init ==
  \/ what = "durable" /\ Durable!Init /\ NoResilience /\ NoBackoff
  \/ what = "resilient" /\ Resilient!Init /\ NoDurable /\ NoBackoff
  \/ what = "waits" /\ Waits!Init /\ NoStream /\ NoDurable /\ NoResilience

Next ==
  /\ \/ /\ what = "durable" /\ Durable!Next
        /\ UNCHANGED <<resilienceOnly, backoffOnly>>
     \/ /\ what = "resilient" /\ Resilient!Next
        /\ UNCHANGED <<durableOnly, backoffOnly>>
     \/ /\ what = "waits" /\ Waits!Next
        /\ UNCHANGED <<streamOnly, durableOnly, resilienceOnly>>
  /\ UNCHANGED what

Spec == Init /\ [][Next]_vars

FairSpec == Spec /\ WF_vars(/\ what = "durable" /\ Durable!Progress
                            /\ UNCHANGED <<what, resilienceOnly, backoffOnly>>)

-----------------------------------------------------------------------------
(* Properties *)

\* DurableStream delivers the chunks of an answer once each and in order, and
\* comes to an end once the answer has.  (The others deliver nothing.)
Promised == INSTANCE Delivery WITH
  answer <- IF what = "durable" THEN Durable!Answer
                                ELSE [chunks |-> 0, end |-> "open"],
  delivered <- IF what = "durable" THEN shown ELSE <<>>,
  status <- IF what = "durable" THEN Durable!Status ELSE "running"
ImplementsDelivery == Promised!Spec

\* Resilience: success means that the whole of an answer is printed last, and
\* failure that every strategy has had its turn.
WholeOrAllTried == what = "resilient" => Resilient!WholeOrAllTried

\* Backoff: waits are what is meant as long as nothing overflows.
WaitsAsMeant == what = "waits" => Waits!WaitsAsMeant

\* "the error will be returned" (llm.go 88).  (Expected to be violated when a
\* stream that has failed ends with io.EOF.)
NilMeansComplete == what # "waits" => Durable!NilMeansComplete

\* What documents and comments say besides.  (Expected to be violated.)
InterruptionsAreTold == what = "resilient" => Resilient!InterruptionsAreTold
CappedAtMaxBackoff == what = "waits" => Waits!CappedAtMaxBackoff
AlwaysWaits == what = "waits" => Waits!AlwaysWaits
=============================================================================
