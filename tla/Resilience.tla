----------------------------- MODULE Resilience -----------------------------
(***************************************************************************)
(* resilientStream of examples/resilience/main.go: maxRetries streams with *)
(* the model asked for, one with the backup model, and a blocking          *)
(* completion as the last resort.                                          *)
(***************************************************************************)
EXTENDS CompletionStream

CONSTANT maxRetries

\* What shown has besides chunks: a message that the answer so far is void,
\* and the answer of the blocking completion.
CONSTANTS Notice, Whole

VARIABLES
  askedBackup,  \* req.Model is backupModel already
  tried,        \* the strategies tried, in order
  from,         \* the length of shown when the latest one began
  status        \* "running", or what resilientStream has returned

resilience == <<askedBackup, tried, from, status>>
vars == <<stream, shown, resilience>>

Strategies == {"primary", "backup", "blocking"}

TypeOK ==
  /\ StreamTypeOK
  /\ shown \in Seq(1..MaxChunks \cup {Notice, Whole})
  /\ askedBackup \in BOOLEAN
  /\ tried \in Seq(Strategies) /\ Len(tried) <= maxRetries + 2
  /\ from \in 0..Len(shown)
  /\ status \in {"running", "succeeded", "failed"}

Init ==
  /\ StreamInit
  /\ askedBackup \in BOOLEAN
  /\ tried = <<>> /\ from = 0 /\ status = "running"

\* Every strategy that is tried, the blocking one last.
Plan == [n \in 1..maxRetries |-> "primary"]
        \o (IF askedBackup THEN <<>> ELSE <<"backup">>) \o <<"blocking">>

\* The strategy tried last has come back without success, or there is none.
Unanswered ==
  status = "running" /\ call = "none" /\ result # "nil"

\* After a stream with the first model there is a message if its error is a
\* StreamError, which llm.go 74 makes only when there was content; the other
\* strategies announce themselves.
TryNext(strategy) ==
  /\ Unanswered
  /\ Len(tried) < Len(Plan) /\ Plan[Len(tried) + 1] = strategy
  /\ tried' = Append(tried, strategy)
  /\ shown' = IF tried # <<>> /\ (result = "stream" \/ strategy # "primary")
              THEN Append(shown, Notice) ELSE shown
  /\ from' = Len(shown')
  /\ UNCHANGED <<askedBackup, status>>

\* streamWithRecovery.
Stream ==
  /\ TryNext("primary") \/ TryNext("backup")
  /\ CompleteStream

\* Its handler prints the chunk and never fails.
PrintChunk == ChunkHandled /\ UNCHANGED resilience

Receive ==
  /\ ErrorChunk \/ StreamEnds \/ StreamFails
  /\ UNCHANGED resilience

\* The answer of a stream that has returned nil is there.
Succeed ==
  /\ status = "running" /\ call = "none" /\ result = "nil"
  /\ status' = "succeeded"
  /\ UNCHANGED <<stream, shown, askedBackup, tried, from>>

\* client.Complete prints the whole answer or fails.
Block ==
  /\ Unanswered
  /\ Len(tried) < Len(Plan) /\ Plan[Len(tried) + 1] = "blocking"
  /\ tried' = Append(tried, "blocking")
  /\ from' = Len(shown) + 1
  /\ \/ shown' = shown \o <<Notice, Whole>> /\ status' = "succeeded"
     \/ shown' = Append(shown, Notice) /\ status' = "failed"
  /\ UNCHANGED <<stream, askedBackup>>

Step == Stream \/ PrintChunk \/ Receive \/ Succeed \/ Block
PlatformStep == Platform /\ UNCHANGED resilience
Next == Step \/ PlatformStep

Spec == Init /\ [][Next]_vars

-----------------------------------------------------------------------------
(* Properties *)

\* Success means that what has been printed since the last strategy began is
\* the whole of a complete answer, failure that each has had its turn.
WholeOrAllTried ==
  LET printed == SubSeq(shown, from + 1, Len(shown)) IN
  /\ status = "succeeded" =>
       IF Len(tried) = Len(Plan) THEN printed = <<Whole>>
       ELSE answer.end = "done" /\ printed = [n \in 1..answer.chunks |-> n]
  /\ status = "failed" => tried = Plan

\* "If a stream fails mid-response" the user is told (main.go 77): between the
\* chunks of two streams there is a message.  (Expected to be violated.)
InterruptionsAreTold ==
  \A n \in 1..Len(shown) - 1 :
    shown[n] \in Nat /\ shown[n + 1] \in Nat => shown[n + 1] = shown[n] + 1
=============================================================================
