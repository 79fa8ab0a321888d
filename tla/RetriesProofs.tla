--------------------------- MODULE RetriesProofs ---------------------------
(***************************************************************************)
(* Theorems about what is done again: resuming a durable stream, and going *)
(* from strategy to strategy, for answers of any length and any number of  *)
(* retries, and the waits of the SDK's own retry loops, for Durations of   *)
(* any width.  The first two are about a platform whose streams do not end *)
(* with io.EOF after the backend has failed; with one whose do, Retries    *)
(* shows that nil does not mean complete.                                  *)
(***************************************************************************)
EXTENDS Retries, SequenceTheorems, WellFoundedInduction, TLAPS

\* A stream that has failed ends with an error.
FailuresAreErrors == FailureEnds = {"error"}

-----------------------------------------------------------------------------
(* Sequences *)

\* What Append does, for a sequence over any set.
LEMMA Appended ==
  ASSUME NEW S, NEW s \in Seq(S), NEW x \in S, NEW t, t = Append(s, x)
  PROVE  /\ t \in Seq(S)
         /\ Len(s) \in Nat /\ Len(t) = Len(s) + 1
         /\ t[Len(s) + 1] = x
         /\ \A n \in 1..Len(s) : t[n] = s[n]
BY AppendProperties, LenProperties

\* A function on the first numbers is a sequence.
LEMMA FunctionIsSeq ==
  ASSUME NEW S, NEW m \in Nat, NEW f \in [1..m -> S]
  PROVE  f \in Seq(S) /\ Len(f) = m
<1>1. f \in UNION {[1..n -> S] : n \in Nat}
  OBVIOUS
<1>2. f \in Seq(S)
  BY <1>1, SeqDef
<1>3. Len(f) \in Nat /\ 1..Len(f) = 1..m
  BY <1>2, LenProperties
<1> QED
  BY <1>2, <1>3

-----------------------------------------------------------------------------
(* The platform *)

AnswerType == [chunks : Nat, end : {"none", "open", "done", "failed"}]

\* An answer changes only while it is open, and only grows.
LEMMA PlatformGrows ==
  ASSUME answer \in AnswerType, Durable!Platform
  PROVE  /\ answer' \in AnswerType /\ answer.end = "open"
         /\ \/ answer' \in [chunks : {answer.chunks + 1}, end : {"open", "done"}]
            \/ answer' = [answer EXCEPT !.end = "failed"]
         /\ answer'.chunks >= answer.chunks
         /\ answer'.end \in {"open", "done", "failed"}
         /\ UNCHANGED <<call, next, errorChunk, result, shown>>
<1>1. CASE Durable!Generate
  <2>1. PICK end \in {"open", "done"} :
          answer' = [chunks |-> answer.chunks + 1, end |-> end]
    BY <1>1 DEF Durable!Generate
  <2> QED
    BY <1>1, <2>1 DEF Durable!Generate, AnswerType
<1>2. CASE Durable!BackendFails
  BY <1>2 DEF Durable!BackendFails, AnswerType
<1> QED
  BY <1>1, <1>2 DEF Durable!Platform

-----------------------------------------------------------------------------
(* DurableStream *)

DurableInv ==
  /\ answer \in AnswerType
  /\ call \in {"none", "complete", "resume"}
  /\ next \in Nat
  /\ result \in {"none", "nil", "handler", "stream", "athyr"}
  /\ shown \in Seq(Nat) /\ lastSequence = Len(shown)
  /\ status \in {"started", "running", "succeeded", "failed"}
  /\ status = "started" =>
       /\ call = "none" /\ result = "none" /\ shown = <<>>
       /\ answer.end = "none"
  /\ call # "none" => status = "running"
  /\ call # "none" =>
       \/ next = Len(shown) + 1
       \/ next = answer.chunks + 2 /\ answer.end = "failed"
  /\ status = "running" /\ call = "none" /\ result = "nil" =>
       answer.end = "done" /\ Len(shown) = answer.chunks

\* The stream's invariant holds at first, and nothing is delivered yet.
LEMMA DurableInit ==
  ASSUME Durable!Init
  PROVE  DurableInv /\ shown = <<>>
<1>1. /\ answer = [chunks |-> 0, end |-> "none"]
      /\ call = "none" /\ next = 1 /\ result = "none" /\ shown = <<>>
      /\ lastSequence = 0 /\ status = "started"
  BY DEF Durable!Init, Durable!StreamInit
<1>2. shown \in Seq(Nat) /\ Len(shown) = 0
  BY <1>1, EmptySeq
<1> QED
  BY <1>1, <1>2 DEF DurableInv, AnswerType

\* Each step of the application or the platform keeps the invariant; it gives
\* the handler the next chunk, or ends the delivery as a Delivery may.
LEMMA DurableStep ==
  ASSUME FailuresAreErrors, DurableInv, Durable!Next
  PROVE  /\ DurableInv'
         /\ \/ /\ Durable!Answer' = Durable!Answer /\ shown' = shown
               /\ Durable!Status' = Durable!Status
            \/ /\ Durable!Answer.end = "open"
               /\ \/ Durable!Answer' \in [chunks : {Durable!Answer.chunks + 1},
                                          end : {"open", "done"}]
                  \/ Durable!Answer' = [Durable!Answer EXCEPT !.end = "failed"]
               /\ shown' = shown /\ Durable!Status' = Durable!Status
            \/ /\ Durable!Status = "running"
               /\ Len(shown) < Durable!Answer.chunks
               /\ shown' = Append(shown, Len(shown) + 1)
               /\ Durable!Answer' = Durable!Answer
               /\ Durable!Status' = Durable!Status
            \/ /\ Durable!Status = "running"
               /\ Durable!Answer.end = "done"
               /\ Len(shown) = Durable!Answer.chunks
               /\ Durable!Status' = "succeeded"
               /\ Durable!Answer' = Durable!Answer /\ shown' = shown
            \/ /\ Durable!Status = "running" /\ Durable!Status' = "failed"
               /\ Durable!Answer' = Durable!Answer /\ shown' = shown
<1>len. Len(shown) \in Nat /\ Len(<<>>) = 0
  BY LenProperties, EmptySeq DEF DurableInv
<1>asked. status # "started" =>
            Durable!Answer = answer /\ Durable!Status = status
  BY Zenon DEF Durable!Answer, Durable!Status, Durable!Asked
<1>still. status' # "started" =>
            Durable!Answer' = answer' /\ Durable!Status' = status'
  BY Zenon DEF Durable!Answer, Durable!Status, Durable!Asked
<1>1. CASE Durable!Complete
  <2>1. /\ status = "started" /\ status' = "running" /\ shown' = shown
        /\ lastSequence' = lastSequence
        /\ answer' = [chunks |-> 0, end |-> "open"] /\ next' = 1
        /\ \/ call' = "complete" /\ result' = "none"
           \/ call' = call /\ result' = "athyr"
    BY <1>1 DEF Durable!Complete, Durable!CompleteStream
  <2>2. DurableInv'
    BY <1>len, <2>1 DEF DurableInv, AnswerType
  <2>3. Durable!Answer = [chunks |-> 0, end |-> "open"]
        /\ Durable!Status = "running"
    BY <2>1, Zenon DEF Durable!Answer, Durable!Status, Durable!Asked
  <2>4. Durable!Answer' = Durable!Answer /\ Durable!Status' = Durable!Status
    BY <1>still, <2>1, <2>3
  <2> QED
    BY <2>1, <2>2, <2>4
<1>2. CASE Durable!Handle
  <2>1. /\ call # "none" /\ next <= answer.chunks
        /\ shown' = Append(shown, next) /\ next' = next + 1
        /\ answer' = answer /\ call' = call /\ result' = result
        /\ lastSequence' = next /\ status' = status
    BY <1>2 DEF Durable!Handle, Durable!ChunkHandled, Durable!ChunkReady
  <2>2. status = "running" /\ next = Len(shown) + 1
    BY <2>1 DEF DurableInv, AnswerType
  <2>3. shown' \in Seq(Nat) /\ Len(shown') = Len(shown) + 1
    BY <2>1, Appended DEF DurableInv
  <2>4. DurableInv'
    BY <1>len, <2>1, <2>2, <2>3 DEF DurableInv
  <2>5. Durable!Answer' = Durable!Answer /\ Durable!Status' = Durable!Status
    BY <1>asked, <1>still, <2>1, <2>2
  <2>6. /\ Durable!Answer = answer /\ Durable!Status = "running"
        /\ Len(shown) < answer.chunks /\ shown' = Append(shown, Len(shown) + 1)
    <3>1. answer.chunks \in Nat
      BY DEF DurableInv, AnswerType
    <3> QED
      BY <1>len, <1>asked, <2>1, <2>2, <3>1
  <2> QED
    BY <2>4, <2>5, <2>6
<1>3. CASE Durable!HandleFails
  <2>1. /\ call # "none" /\ call' = "none" /\ result' = "handler"
        /\ next' = next + 1
        /\ answer' = answer /\ shown' = shown
        /\ lastSequence' = lastSequence /\ status' = status
    BY <1>3
    DEF Durable!HandleFails, Durable!HandlerFails, Durable!ChunkReady,
        Durable!Return, Durable!durable
  <2>2. DurableInv' /\ status = "running"
    BY <2>1 DEF DurableInv
  <2> QED
    BY <1>asked, <1>still, <2>1, <2>2
<1>4. CASE Durable!Receive
  <2>1. /\ answer' = answer /\ shown' = shown
        /\ lastSequence' = lastSequence /\ status' = status
    BY <1>4
    DEF Durable!Receive, Durable!ErrorChunk, Durable!StreamEnds,
        Durable!StreamFails, Durable!durable
  <2>2. DurableInv' /\ status = "running"
    <3>1. CASE Durable!ErrorChunk
      BY <2>1, <3>1 DEF Durable!ErrorChunk, Durable!Return, DurableInv, AnswerType
    <3>2. CASE Durable!StreamEnds
      <4>1. /\ call # "none" /\ call' = "none" /\ result' = "nil"
            /\ next' = next
        BY <3>2 DEF Durable!StreamEnds, Durable!Return
      <4>2. answer.end = "done" /\ next = answer.chunks + 1
        BY <3>2 DEF Durable!StreamEnds, FailuresAreErrors
      <4> QED
        BY <1>len, <2>1, <4>1, <4>2 DEF DurableInv, AnswerType
    <3>3. CASE Durable!StreamFails
      BY <2>1, <3>3 DEF Durable!StreamFails, Durable!Return, DurableInv
    <3> QED
      BY <1>4, <3>1, <3>2, <3>3 DEF Durable!Receive
  <2> QED
    BY <1>asked, <1>still, <2>1, <2>2
<1>5. CASE Durable!Resume
  <2>1. /\ status = "running" /\ call = "none" /\ result # "nil"
        /\ next' = lastSequence + 1
        /\ \/ call' = "resume" /\ result' = "none"
           \/ call' = call /\ result' = "athyr"
        /\ answer' = answer /\ shown' = shown
        /\ lastSequence' = lastSequence /\ status' = status
    BY <1>5
    DEF Durable!Resume, Durable!Returned, Durable!ResumeStream
  <2>2. DurableInv'
    BY <1>len, <2>1 DEF DurableInv
  <2> QED
    BY <1>asked, <1>still, <2>1, <2>2
<1>6. CASE Durable!Succeed
  <2>1. /\ status = "running" /\ call = "none" /\ result = "nil"
        /\ status' = "succeeded" /\ answer' = answer /\ shown' = shown
        /\ call' = call /\ next' = next /\ result' = result
        /\ lastSequence' = lastSequence
    BY <1>6 DEF Durable!Succeed, Durable!Returned, Durable!stream
  <2>2. DurableInv' /\ answer.end = "done" /\ Len(shown) = answer.chunks
    BY <2>1 DEF DurableInv
  <2> QED
    BY <1>asked, <1>still, <2>1, <2>2
<1>7. CASE Durable!GiveUp
  <2>1. /\ status = "running" /\ call = "none"
        /\ status' = "failed" /\ answer' = answer /\ shown' = shown
        /\ call' = call /\ next' = next /\ result' = result
        /\ lastSequence' = lastSequence
    BY <1>7 DEF Durable!GiveUp, Durable!Returned, Durable!stream
  <2>2. DurableInv'
    BY <2>1 DEF DurableInv
  <2> QED
    BY <1>asked, <1>still, <2>1, <2>2
<1>8. CASE Durable!PlatformStep
  <2>1. /\ Durable!Platform /\ lastSequence' = lastSequence /\ status' = status
    BY <1>8 DEF Durable!PlatformStep, Durable!durable
  <2>2. /\ answer' \in AnswerType /\ answer.end = "open"
        /\ \/ answer' \in [chunks : {answer.chunks + 1}, end : {"open", "done"}]
           \/ answer' = [answer EXCEPT !.end = "failed"]
        /\ call' = call /\ next' = next /\ result' = result /\ shown' = shown
    BY <2>1, PlatformGrows DEF DurableInv
  <2>3. DurableInv' /\ status # "started"
    BY <2>1, <2>2 DEF DurableInv
  <2> QED
    BY <1>asked, <1>still, <2>1, <2>2, <2>3
<1> QED
  BY <1>1, <1>2, <1>3, <1>4, <1>5, <1>6, <1>7, <1>8, Zenon
  DEF Durable!Next, Durable!Step

-----------------------------------------------------------------------------
(* Resilience *)

Printed == Nat \cup {Notice, Whole}

\* The strategies tried are the first of the plan, and the last is still to come.
OnPlan ==
  /\ tried \in Seq(Resilient!Strategies)
  /\ Len(tried) < Len(Resilient!Plan)
  /\ \A n \in 1..Len(tried) : tried[n] = Resilient!Plan[n]

\* What has been printed since the latest strategy began: chunks 1 to m.
FirstChunks(m) ==
  Len(shown) = from + m /\ \A n \in 1..m : shown[from + n] = n

ResilientInv ==
  /\ answer \in AnswerType
  /\ call \in {"none", "complete"}
  /\ next \in Nat \ {0}
  /\ result \in {"none", "nil", "handler", "stream", "athyr"}
  /\ shown \in Seq(Printed) /\ from \in Nat
  /\ askedBackup \in BOOLEAN
  /\ status \in {"running", "succeeded", "failed"}
  /\ status = "running" => OnPlan
  /\ status # "running" => call = "none" /\ Resilient!WholeOrAllTried
  /\ call = "complete" /\ answer.end # "failed" => FirstChunks(next - 1)
  /\ status = "running" /\ call = "none" /\ result = "nil" =>
       answer.end = "done" /\ FirstChunks(answer.chunks)

\* The plan ends with the blocking completion, which it has nowhere else.
LEMMA PlanEndsBlocking ==
  ASSUME maxRetries \in Nat
  PROVE  /\ Resilient!Plan \in Seq(Resilient!Strategies)
         /\ Len(Resilient!Plan) \in Nat \ {0}
         /\ \A n \in 1..Len(Resilient!Plan) :
              Resilient!Plan[n] = "blocking" <=> n = Len(Resilient!Plan)
<1> DEFINE S == Resilient!Strategies
           p == [n \in 1..maxRetries |-> "primary"]
           b == IF askedBackup THEN <<>> ELSE <<"backup">>
           last == <<"blocking">>
           first == p \o b
           plan == Resilient!Plan
<1>1. p \in [1..maxRetries -> S]
  BY DEF Resilient!Strategies
<1>2. p \in Seq(S) /\ Len(p) = maxRetries
  BY <1>1, FunctionIsSeq
<1>3. b \in Seq(S) /\ Len(b) \in {0, 1} /\ (Len(b) = 1 => b[1] = "backup")
  <2>1. /\ <<>> \in Seq(S) /\ Len(<<>>) = 0
        /\ <<"backup">> \in Seq(S) /\ Len(<<"backup">>) = 1
        /\ <<"backup">>[1] = "backup"
    BY DEF Resilient!Strategies
  <2>2. b = <<>> \/ b = <<"backup">>
    BY Zenon
  <2> HIDE DEF S, b
  <2>3. CASE b = <<>>
    BY <2>1, <2>3
  <2>4. CASE b = <<"backup">>
    BY <2>1, <2>4
  <2> QED
    BY <2>2, <2>3, <2>4
<1>4. last \in Seq(S) /\ Len(last) = 1 /\ last[1] = "blocking"
  BY DEF Resilient!Strategies
<1>5. \A n \in 1..maxRetries : p[n] = "primary"
  OBVIOUS
<1>6. plan = first \o last
  BY Zenon DEF Resilient!Plan
<1> HIDE DEF S, p, b, last, plan
<1>7. /\ first \in Seq(S) /\ Len(first) \in Nat
      /\ Len(first) = maxRetries + Len(b)
      /\ \A n \in 1..Len(first) : first[n] # "blocking"
  <2>1. /\ first \in Seq(S) /\ Len(first) = Len(p) + Len(b)
        /\ \A n \in 1..Len(p) + Len(b) :
             first[n] = IF n <= Len(p) THEN p[n] ELSE b[n - Len(p)]
    BY <1>2, <1>3, ConcatProperties
  <2> HIDE DEF first
  <2>2. ASSUME NEW n \in 1..maxRetries + Len(b) PROVE first[n] # "blocking"
    <3>1. CASE n <= maxRetries
      <4>1. n \in 1..maxRetries /\ first[n] = p[n]
        BY <1>2, <1>3, <2>1, <3>1
      <4> QED
        BY <1>5, <4>1
    <3>2. CASE n > maxRetries
      <4>0. Len(b) = 0 \/ Len(b) = 1
        BY <1>3
      <4>1. Len(b) = 1 /\ n - maxRetries = 1
        BY <3>2, <4>0
      <4>2. first[n] = b[1]
        BY <1>2, <2>1, <3>2, <4>1
      <4> QED
        BY <1>3, <4>1, <4>2
    <3> QED
      BY <1>3, <3>1, <3>2
  <2> QED
    BY <1>2, <1>3, <2>1, <2>2
<1> HIDE DEF first
<1>8. /\ plan \in Seq(S) /\ Len(plan) = Len(first) + 1
      /\ \A n \in 1..Len(first) + 1 :
           plan[n] = IF n <= Len(first) THEN first[n] ELSE last[n - Len(first)]
  <2>1. /\ first \in Seq(S) /\ last \in Seq(S) /\ Len(last) = 1
        /\ plan = first \o last
    BY <1>4, <1>6, <1>7
  <2>2. /\ plan \in Seq(S) /\ Len(plan) = Len(first) + Len(last)
        /\ \A n \in 1..Len(first) + Len(last) :
             plan[n] = IF n <= Len(first) THEN first[n]
                       ELSE last[n - Len(first)]
    BY <2>1, ConcatProperties
  <2> QED
    BY <2>1, <2>2
<1>9. \A n \in 1..Len(plan) : plan[n] = "blocking" <=> n = Len(plan)
  <2> TAKE n \in 1..Len(plan)
  <2>1. CASE n <= Len(first)
    <3>1. n \in 1..Len(first) /\ plan[n] = first[n] /\ n # Len(plan)
      BY <1>7, <1>8, <2>1
    <3> QED
      BY <1>7, <3>1
  <2>2. CASE n > Len(first)
    <3>1. n = Len(plan) /\ n - Len(first) = 1 /\ n \in 1..Len(first) + 1
      BY <1>7, <1>8, <2>2
    <3>2. plan[n] = last[1]
      BY <1>7, <1>8, <2>2, <3>1
    <3> QED
      BY <1>4, <3>1, <3>2
  <2> QED
    BY <1>7, <1>8, <2>1, <2>2
<1>10. Len(plan) \in Nat \ {0}
  BY <1>7, <1>8
<1> QED
  BY <1>8, <1>9, <1>10 DEF S, plan

\* The example's invariant holds at first.
LEMMA ResilientInit ==
  ASSUME maxRetries \in Nat, Resilient!Init
  PROVE  ResilientInv
<1>1. /\ answer = [chunks |-> 0, end |-> "none"]
      /\ call = "none" /\ next = 1 /\ result = "none" /\ shown = <<>>
      /\ askedBackup \in BOOLEAN
      /\ tried = <<>> /\ from = 0 /\ status = "running"
  BY DEF Resilient!Init, Resilient!StreamInit
<1>2. shown \in Seq(Printed) /\ tried \in Seq(Resilient!Strategies)
      /\ Len(tried) = 0
  BY <1>1, EmptySeq
<1>3. OnPlan
  BY <1>2, PlanEndsBlocking DEF OnPlan
<1> QED
  BY <1>1, <1>2, <1>3 DEF ResilientInv, AnswerType

\* Where the next strategy starts to print, it has printed nothing yet, and
\* the plan goes on.
LEMMA TryNextStarts ==
  ASSUME maxRetries \in Nat, ResilientInv, NEW strategy \in {"primary", "backup"},
         Resilient!TryNext(strategy)
  PROVE  /\ status' = "running" /\ OnPlan' /\ askedBackup' = askedBackup
         /\ shown' \in Seq(Printed) /\ from' = Len(shown') /\ from' \in Nat
<1>1. /\ status = "running" /\ status' = status /\ askedBackup' = askedBackup
      /\ Len(tried) < Len(Resilient!Plan)
      /\ Resilient!Plan[Len(tried) + 1] = strategy
      /\ tried' = Append(tried, strategy)
      /\ shown' = Append(shown, Notice) \/ shown' = shown
      /\ from' = Len(shown')
  BY DEF Resilient!TryNext, Resilient!Unanswered
<1>2. /\ tried \in Seq(Resilient!Strategies) /\ Len(tried) \in Nat
      /\ \A n \in 1..Len(tried) : tried[n] = Resilient!Plan[n]
  BY <1>1, LenProperties DEF ResilientInv, OnPlan
<1>3. strategy \in Resilient!Strategies /\ strategy # "blocking"
  BY DEF Resilient!Strategies
<1>4. /\ tried' \in Seq(Resilient!Strategies) /\ Len(tried') = Len(tried) + 1
      /\ tried'[Len(tried) + 1] = strategy
      /\ \A n \in 1..Len(tried) : tried'[n] = tried[n]
  BY <1>1, <1>2, <1>3, Appended
<1>5. Resilient!Plan' = Resilient!Plan
  BY <1>1, Zenon DEF Resilient!Plan
<1>6. Len(tried') < Len(Resilient!Plan)
  <2>1. /\ Len(Resilient!Plan) \in Nat
        /\ \A n \in 1..Len(Resilient!Plan) :
             Resilient!Plan[n] = "blocking" <=> n = Len(Resilient!Plan)
    BY PlanEndsBlocking
  <2>2. Len(tried) + 1 \in 1..Len(Resilient!Plan)
    BY <1>1, <1>2, <2>1
  <2>3. Len(tried) + 1 # Len(Resilient!Plan)
    BY <1>1, <1>3, <2>1, <2>2
  <2> QED
    BY <1>2, <1>4, <2>1, <2>2, <2>3
<1>7. \A n \in 1..Len(tried') : tried'[n] = Resilient!Plan[n]
  <2> TAKE n \in 1..Len(tried')
  <2>1. n \in 1..Len(tried) \/ n = Len(tried) + 1
    BY <1>2, <1>4
  <2> QED
    BY <1>1, <1>2, <1>4, <2>1
<1>8. shown' \in Seq(Printed) /\ Len(shown') \in Nat
  <2>1. Notice \in Printed /\ shown \in Seq(Printed)
    BY DEF Printed, ResilientInv
  <2>2. Append(shown, Notice) \in Seq(Printed)
    BY <2>1, AppendProperties
  <2> QED
    BY <1>1, <2>1, <2>2, LenProperties
<1> QED
  BY <1>1, <1>4, <1>5, <1>6, <1>7, <1>8 DEF OnPlan

\* What is printed since the strategy began is the answer, chunk by chunk.
LEMMA PrintedIsAnswer ==
  ASSUME NEW m \in Nat, shown \in Seq(Printed), from \in Nat, FirstChunks(m)
  PROVE  SubSeq(shown, from + 1, Len(shown)) = [n \in 1..m |-> n]
<1> DEFINE printed == SubSeq(shown, from + 1, Len(shown))
           chunks == [n \in 1..m |-> n]
<1>1. /\ Len(shown) = from + m
      /\ \A n \in 1..m : shown[from + n] = n
  BY DEF FirstChunks
<1>2. \A i \in from + 1..Len(shown) : shown[i] \in Printed
  <2> TAKE i \in from + 1..Len(shown)
  <2>1. i \in 1..Len(shown)
    BY <1>1
  <2> QED
    BY <2>1, ElementOfSeq
<1>3. from + 1 \in Int /\ Len(shown) \in Int
  BY <1>1
<1>4. /\ printed \in Seq(Printed)
      /\ Len(printed) = IF from + 1 <= Len(shown)
                        THEN Len(shown) - (from + 1) + 1 ELSE 0
      /\ \A i \in 1..Len(shown) - (from + 1) + 1 :
           printed[i] = shown[(from + 1) + i - 1]
  BY <1>2, <1>3, SubSeqProperties
<1>5. chunks \in [1..m -> Printed]
  BY DEF Printed
<1>6. chunks \in Seq(Printed) /\ Len(chunks) = m
  BY <1>5, FunctionIsSeq
<1> HIDE DEF printed
<1>7. Len(printed) = m /\ \A i \in 1..m : printed[i] = i
  <2>1. Len(printed) = m
    BY <1>1, <1>4
  <2>2. ASSUME NEW i \in 1..m PROVE printed[i] = i
    <3>1. i \in 1..Len(shown) - (from + 1) + 1 /\ (from + 1) + i - 1 = from + i
      BY <1>1
    <3> QED
      BY <1>1, <1>4, <3>1
  <2> QED
    BY <2>1, <2>2
<1>8. \A i \in 1..m : chunks[i] = i
  OBVIOUS
<1> HIDE DEF chunks
<1>9. printed = chunks
  BY <1>4, <1>6, <1>7, <1>8, SeqEqual
<1> QED
  BY <1>9 DEF printed, chunks

\* What has ended keeps what its end means.
LEMMA EndIsKept ==
  ASSUME Resilient!WholeOrAllTried, UNCHANGED <<tried, askedBackup, shown, from, status>>,
         status = "succeeded" /\ Len(tried) # Len(Resilient!Plan) => answer' = answer
  PROVE  Resilient!WholeOrAllTried'
<1>1. Resilient!Plan' = Resilient!Plan
  BY Zenon DEF Resilient!Plan
<1> QED
  BY <1>1 DEF Resilient!WholeOrAllTried

\* Each step of the example or the platform keeps the invariant.
LEMMA ResilientStep ==
  ASSUME FailuresAreErrors, maxRetries \in Nat, ResilientInv, Resilient!Next
  PROVE  ResilientInv'
<1>len. Len(shown) \in Nat
  BY LenProperties DEF ResilientInv
<1>plan. ASSUME askedBackup' = askedBackup
         PROVE  Resilient!Plan' = Resilient!Plan
  BY <1>plan, Zenon DEF Resilient!Plan
<1>1. CASE Resilient!Stream
  <2>1. PICK strategy \in {"primary", "backup"} : Resilient!TryNext(strategy)
    BY <1>1 DEF Resilient!Stream
  <2>2. /\ status' = "running" /\ OnPlan' /\ askedBackup' = askedBackup
        /\ shown' \in Seq(Printed) /\ from' = Len(shown') /\ from' \in Nat
    BY <2>1, TryNextStarts
  <2>3. /\ answer' = [chunks |-> 0, end |-> "open"] /\ next' = 1
        /\ \/ call' = "complete" /\ result' = "none"
           \/ call' = "none" /\ result' = "athyr"
    BY <1>1 DEF Resilient!Stream, Resilient!CompleteStream
  <2>4. FirstChunks(next - 1)'
    BY <2>2, <2>3 DEF FirstChunks
  <2> QED
    BY <2>2, <2>3, <2>4 DEF ResilientInv, AnswerType
<1>2. CASE Resilient!PrintChunk
  <2>1. /\ call # "none" /\ next <= answer.chunks
        /\ shown' = Append(shown, next) /\ next' = next + 1
        /\ answer' = answer /\ call' = call /\ result' = result
        /\ askedBackup' = askedBackup /\ tried' = tried /\ from' = from
        /\ status' = status
    BY <1>2
    DEF Resilient!PrintChunk, Resilient!ChunkHandled, Resilient!ChunkReady,
        Resilient!resilience
  <2>2. status = "running" /\ OnPlan
    BY <2>1 DEF ResilientInv
  <2>3. next \in Printed /\ shown \in Seq(Printed)
    BY DEF Printed, ResilientInv
  <2>4. /\ shown' \in Seq(Printed) /\ Len(shown') = Len(shown) + 1
        /\ shown'[Len(shown) + 1] = next
        /\ \A n \in 1..Len(shown) : shown'[n] = shown[n]
    BY <2>1, <2>3, Appended
  <2>5. ASSUME answer.end # "failed" PROVE FirstChunks(next - 1)'
    <3>1. /\ next \in Nat /\ from \in Nat /\ Len(shown) = from + (next - 1)
          /\ \A n \in 1..next - 1 : shown[from + n] = n
      BY <2>1, <2>5 DEF ResilientInv, FirstChunks
    <3>2. ASSUME NEW n \in 1..next PROVE shown'[from + n] = n
      <4>1. CASE n = next
        BY <2>4, <3>1, <4>1
      <4>2. CASE n # next
        <5>1. n \in 1..next - 1 /\ from + n \in 1..Len(shown)
          BY <3>1, <4>2
        <5> QED
          BY <2>4, <3>1, <5>1
      <4> QED
        BY <4>1, <4>2
    <3>3. Len(shown') = from' + (next' - 1) /\ next' - 1 = next
      BY <2>1, <2>4, <3>1
    <3> QED
      BY <2>1, <3>2, <3>3 DEF FirstChunks
  <2>6. OnPlan'
    BY <1>plan, <2>1, <2>2 DEF OnPlan
  <2> QED
    BY <2>1, <2>2, <2>4, <2>5, <2>6 DEF ResilientInv
<1>3. CASE Resilient!Receive
  <2>1. /\ call # "none" /\ answer' = answer /\ shown' = shown
        /\ askedBackup' = askedBackup /\ tried' = tried /\ from' = from
        /\ status' = status
    BY <1>3
    DEF Resilient!Receive, Resilient!ErrorChunk, Resilient!StreamEnds,
        Resilient!StreamFails, Resilient!resilience
  <2>2. status = "running" /\ OnPlan /\ call = "complete"
    BY <2>1 DEF ResilientInv
  <2>3. OnPlan'
    BY <1>plan, <2>1, <2>2 DEF OnPlan
  <2>4. \/ /\ answer.end = "failed" /\ call' = call /\ next' = next + 1
           /\ result' = result
        \/ /\ answer.end = "done" /\ next = answer.chunks + 1
           /\ call' = "none" /\ result' = "nil" /\ next' = next
        \/ /\ call' = "none" /\ result' \in {"stream", "athyr"}
           /\ next' = next
    <3>1. CASE Resilient!ErrorChunk
      BY <2>2, <3>1 DEF Resilient!ErrorChunk
    <3>2. CASE Resilient!StreamEnds
      BY <3>2 DEF Resilient!StreamEnds, Resilient!Return, FailuresAreErrors
    <3>3. CASE Resilient!StreamFails
      BY <3>3 DEF Resilient!StreamFails, Resilient!Return
    <3> QED
      BY <1>3, <3>1, <3>2, <3>3 DEF Resilient!Receive
  <2>5. answer.end = "done" /\ next = answer.chunks + 1
          => FirstChunks(answer.chunks)'
    <3>1. answer.chunks \in Nat
      BY DEF ResilientInv, AnswerType
    <3> QED
      BY <2>1, <2>2, <3>1 DEF ResilientInv, FirstChunks
  <2> QED
    BY <2>1, <2>2, <2>3, <2>4, <2>5 DEF ResilientInv
<1>4. CASE Resilient!Succeed
  <2>1. /\ status = "running" /\ call = "none" /\ result = "nil"
        /\ status' = "succeeded" /\ answer' = answer /\ call' = call
        /\ next' = next /\ result' = result /\ shown' = shown
        /\ askedBackup' = askedBackup /\ tried' = tried /\ from' = from
    BY <1>4 DEF Resilient!Succeed, Resilient!stream
  <2>2. /\ OnPlan /\ answer.end = "done" /\ FirstChunks(answer.chunks)
        /\ answer.chunks \in Nat
    BY <2>1 DEF ResilientInv, AnswerType
  <2>3. SubSeq(shown, from + 1, Len(shown)) = [n \in 1..answer.chunks |-> n]
    BY <2>2, PrintedIsAnswer DEF ResilientInv
  <2>4. Len(tried) # Len(Resilient!Plan)
    BY <2>2, LenProperties, PlanEndsBlocking DEF OnPlan
  <2>5. Resilient!WholeOrAllTried'
    BY <1>plan, <2>1, <2>2, <2>3, <2>4 DEF Resilient!WholeOrAllTried
  <2> QED
    BY <2>1, <2>5 DEF ResilientInv
<1>5. CASE Resilient!Block
  <2>1. /\ status = "running" /\ call = "none"
        /\ Len(tried) < Len(Resilient!Plan)
        /\ Resilient!Plan[Len(tried) + 1] = "blocking"
        /\ tried' = Append(tried, "blocking") /\ from' = Len(shown) + 1
        /\ \/ shown' = shown \o <<Notice, Whole>> /\ status' = "succeeded"
           \/ shown' = Append(shown, Notice) /\ status' = "failed"
        /\ answer' = answer /\ call' = call /\ next' = next
        /\ result' = result /\ askedBackup' = askedBackup
    BY <1>5 DEF Resilient!Block, Resilient!Unanswered, Resilient!stream
  <2>2. /\ tried \in Seq(Resilient!Strategies) /\ Len(tried) \in Nat
        /\ \A n \in 1..Len(tried) : tried[n] = Resilient!Plan[n]
    BY <2>1, LenProperties DEF ResilientInv, OnPlan
  <2>3. /\ Resilient!Plan \in Seq(Resilient!Strategies)
        /\ Len(Resilient!Plan) = Len(tried) + 1
    <3>1. /\ Resilient!Plan \in Seq(Resilient!Strategies)
          /\ Len(Resilient!Plan) \in Nat
          /\ \A n \in 1..Len(Resilient!Plan) :
               Resilient!Plan[n] = "blocking" <=> n = Len(Resilient!Plan)
      BY PlanEndsBlocking
    <3>2. Len(tried) + 1 \in 1..Len(Resilient!Plan)
      BY <2>1, <2>2, <3>1
    <3> QED
      BY <2>1, <3>1, <3>2
  <2>4. tried' = Resilient!Plan
    <3>1. "blocking" \in Resilient!Strategies
      BY DEF Resilient!Strategies
    <3>2. /\ tried' \in Seq(Resilient!Strategies)
          /\ Len(tried') = Len(tried) + 1
          /\ tried'[Len(tried) + 1] = "blocking"
          /\ \A n \in 1..Len(tried) : tried'[n] = tried[n]
      BY <2>1, <2>2, <3>1, Appended
    <3>3. ASSUME NEW n \in 1..Len(tried') PROVE tried'[n] = Resilient!Plan[n]
      <4>1. n \in 1..Len(tried) \/ n = Len(tried) + 1
        BY <2>2, <3>2
      <4> QED
        BY <2>1, <2>2, <3>2, <4>1
    <3> QED
      BY <2>3, <3>2, <3>3, SeqEqual
  <2>5. Notice \in Printed /\ Whole \in Printed /\ shown \in Seq(Printed)
    BY DEF Printed, ResilientInv
  <2>6. CASE shown' = shown \o <<Notice, Whole>> /\ status' = "succeeded"
    <3>1. <<Notice, Whole>> \in Seq(Printed) /\ Len(<<Notice, Whole>>) = 2
          /\ <<Notice, Whole>>[2] = Whole
      BY <2>5
    <3> DEFINE both == <<Notice, Whole>>
    <3> HIDE DEF both
    <3>2. /\ shown' \in Seq(Printed) /\ Len(shown') = Len(shown) + 2
          /\ shown'[Len(shown) + 2] = Whole
      <4>1. both \in Seq(Printed) /\ Len(both) = 2 /\ both[2] = Whole
            /\ shown' = shown \o both
        BY <2>6, <3>1 DEF both
      <4>2. /\ shown' \in Seq(Printed) /\ Len(shown') = Len(shown) + Len(both)
            /\ \A n \in 1..Len(shown) + Len(both) :
                 shown'[n] = IF n <= Len(shown) THEN shown[n]
                             ELSE both[n - Len(shown)]
        BY <2>5, <4>1, ConcatProperties
      <4>3. Len(shown) + 2 \in 1..Len(shown) + Len(both)
            /\ ~(Len(shown) + 2 <= Len(shown))
            /\ (Len(shown) + 2) - Len(shown) = 2
        BY <1>len, <4>1
      <4> QED
        BY <4>1, <4>2, <4>3
    <3>3. SubSeq(shown', from' + 1, Len(shown')) = <<Whole>>
      <4> DEFINE last == SubSeq(shown', from' + 1, Len(shown'))
      <4>1. from' + 1 = Len(shown) + 2 /\ Len(shown') = Len(shown) + 2
        BY <1>len, <2>1, <3>2
      <4>2. \A i \in Len(shown) + 2..Len(shown) + 2 : shown'[i] = Whole
        BY <1>len, <3>2
      <4>3. /\ last \in Seq(Printed) /\ Len(last) = 1 /\ last[1] = Whole
        <5>1. last = SubSeq(shown', Len(shown) + 2, Len(shown) + 2)
          BY <4>1
        <5>2. Len(shown) + 2 \in Int
          BY <1>len
        <5>3. \A i \in Len(shown) + 2..Len(shown) + 2 : shown'[i] \in Printed
          BY <2>5, <4>2
        <5> HIDE DEF last
        <5> DEFINE m == Len(shown) + 2
        <5>4. m \in Int /\ m - m + 1 = 1 /\ m + 1 - 1 = m
          BY <5>2
        <5> HIDE DEF m
        <5>5. /\ last \in Seq(Printed)
              /\ Len(last) = IF m <= m THEN m - m + 1 ELSE 0
              /\ \A i \in 1..m - m + 1 : last[i] = shown'[m + i - 1]
          BY <5>1, <5>3, <5>4, SubSeqProperties DEF m
        <5>6. Len(last) = 1 /\ last[1] = shown'[m]
          BY <5>4, <5>5
        <5> QED
          BY <3>2, <5>5, <5>6 DEF m
      <4>4. <<Whole>> \in Seq(Printed) /\ Len(<<Whole>>) = 1
            /\ <<Whole>>[1] = Whole
        BY <2>5
      <4> DEFINE whole == <<Whole>>
      <4> HIDE DEF last, whole
      <4>5. last = whole
        <5>1. whole \in Seq(Printed) /\ Len(whole) = 1 /\ whole[1] = Whole
          BY <4>4 DEF whole
        <5> QED
          BY <4>3, <5>1, SeqEqual
      <4> QED
        BY <4>5 DEF last, whole
    <3>4. Resilient!WholeOrAllTried'
      BY <1>plan, <2>1, <2>4, <2>6, <3>3 DEF Resilient!WholeOrAllTried
    <3> QED
      BY <1>len, <2>1, <2>6, <3>2, <3>4 DEF ResilientInv
  <2>7. CASE shown' = Append(shown, Notice) /\ status' = "failed"
    <3>1. shown' \in Seq(Printed)
      BY <2>5, <2>7, AppendProperties
    <3>2. Resilient!WholeOrAllTried'
      BY <1>plan, <2>1, <2>4, <2>7 DEF Resilient!WholeOrAllTried
    <3> QED
      BY <1>len, <2>1, <2>7, <3>1, <3>2 DEF ResilientInv
  <2> QED
    BY <2>1, <2>6, <2>7
<1>6. CASE Resilient!PlatformStep
  <2>1. /\ Durable!Platform
        /\ askedBackup' = askedBackup /\ tried' = tried /\ from' = from
        /\ status' = status
    BY <1>6
    DEF Resilient!PlatformStep, Resilient!resilience, Resilient!Platform,
        Resilient!Generate, Resilient!BackendFails, Durable!Platform,
        Durable!Generate, Durable!BackendFails
  <2>2. /\ answer' \in AnswerType /\ answer.end = "open"
        /\ call' = call /\ next' = next /\ result' = result /\ shown' = shown
    BY <2>1, PlatformGrows DEF ResilientInv
  <2>3. status = "running" => OnPlan'
    BY <1>plan, <2>1 DEF ResilientInv, OnPlan
  <2>4. status # "running" => Resilient!WholeOrAllTried'
    <3>1. status = "succeeded" /\ Len(tried) # Len(Resilient!Plan)
            /\ Resilient!WholeOrAllTried => answer.end = "done"
      BY DEF Resilient!WholeOrAllTried
    <3> QED
      BY <2>1, <2>2, <3>1, EndIsKept DEF ResilientInv
  <2>5. FirstChunks(next - 1)' <=> FirstChunks(next - 1)
    BY <2>1, <2>2 DEF FirstChunks
  <2> QED
    BY <2>1, <2>2, <2>3, <2>4, <2>5 DEF ResilientInv
<1> QED
  BY <1>1, <1>2, <1>3, <1>4, <1>5, <1>6, Zenon
  DEF Resilient!Next, Resilient!Step

-----------------------------------------------------------------------------
(* Backoff *)

\* Induction, for a set of numbers.
LEMMA InductionOnNat ==
  ASSUME NEW S \in SUBSET Nat, 0 \in S, \A n \in S : n + 1 \in S
  PROVE  S = Nat
<1> SUFFICES ASSUME Nat \ S # {} PROVE FALSE
  OBVIOUS
<1> DEFINE Smaller == {xy \in Nat \X Nat : xy[1] < xy[2]}
           Rest == Nat \ S
<1>1. IsWellFoundedOn(Smaller, Nat)
  BY NatLessThanWellFounded DEF OpToRel
<1>2. \E x \in Rest : \A y \in Rest : ~ (<<y, x>> \in Smaller)
  <2> HIDE DEF Smaller
  <2> QED
    BY <1>1, WFMin
<1>3. PICK x \in Rest : \A y \in Rest : ~ (y < x)
  BY <1>2
<1>4. x - 1 \in Nat /\ x - 1 \in S
  BY <1>3
<1> QED
  BY <1>4

\* There is a function that doubles with every step.
LEMMA DoublingExists ==
  \E f \in [Nat -> Nat] :
     f = [n \in Nat |-> IF n = 0 THEN 1 ELSE 2 * f[n - 1]]
<1> DEFINE Doubles(m, f) ==
             /\ f \in [0..m -> Nat] /\ f[0] = 1
             /\ \A n \in 1..m : f[n] = 2 * f[n - 1]
           Some == {m \in Nat : \E f : Doubles(m, f)}
           Upto(m) == CHOOSE f : Doubles(m, f)
           Same ==
             {n \in Nat : \A m \in Nat : n <= m => Upto(m)[n] = Upto(n)[n]}
           all == [n \in Nat |-> Upto(n)[n]]
<1>1. Some = Nat
  <2>1. 0 \in Some
    <3> DEFINE f == [n \in 0..0 |-> 1]
    <3>1. Doubles(0, f)
      OBVIOUS
    <3> QED
      BY <3>1
  <2>2. ASSUME NEW m \in Some PROVE m + 1 \in Some
    <3>1. PICK f : Doubles(m, f)
      OBVIOUS
    <3> DEFINE g == [n \in 0..m + 1 |-> IF n = m + 1 THEN 2 * f[m] ELSE f[n]]
    <3>2. Doubles(m + 1, g)
      <4>1. m \in Nat /\ f \in [0..m -> Nat] /\ f[0] = 1
        BY <3>1
      <4>2. ASSUME NEW n \in 0..m + 1
            PROVE  (IF n = m + 1 THEN 2 * f[m] ELSE f[n]) \in Nat
        BY <4>1
      <4>3. g \in [0..m + 1 -> Nat] /\ g[0] = 1
        BY <4>1, <4>2
      <4>4. ASSUME NEW n \in 1..m + 1 PROVE g[n] = 2 * g[n - 1]
        <5>1. CASE n = m + 1
          BY <4>1, <5>1
        <5>2. CASE n # m + 1
          <6>1. n \in 1..m /\ n \in 0..m + 1 /\ n - 1 \in 0..m + 1 /\ n - 1 # m + 1
            BY <4>1, <5>2
          <6>2. g[n] = f[n] /\ g[n - 1] = f[n - 1]
            BY <5>2, <6>1
          <6> QED
            BY <3>1, <6>1, <6>2
        <5> QED
          BY <5>1, <5>2
      <4> QED
        BY <4>3, <4>4
    <3> HIDE DEF Doubles, g
    <3> QED
      BY <3>2
  <2> HIDE DEF Some
  <2>3. Some \subseteq Nat
    BY DEF Some
  <2> QED
    BY <2>1, <2>2, <2>3, InductionOnNat
<1>2. ASSUME NEW m \in Nat PROVE Doubles(m, Upto(m))
  <2>1. \E f : Doubles(m, f)
    BY <1>1
  <2> HIDE DEF Doubles
  <2> QED
    BY <2>1
<1> HIDE DEF Upto
<1>3. Same = Nat
  <2>1. 0 \in Same
    <3>1. ASSUME NEW m \in Nat PROVE Upto(m)[0] = 1
      BY <1>2
    <3> QED
      BY <3>1
  <2>2. ASSUME NEW n \in Same PROVE n + 1 \in Same
    <3>1. ASSUME NEW m \in Nat, n + 1 <= m
          PROVE  Upto(m)[n + 1] = 2 * Upto(m)[n] /\ Upto(m)[n] = Upto(n)[n]
      <4>1. n + 1 \in 1..m /\ n \in Nat /\ (n + 1) - 1 = n
        BY <3>1
      <4> QED
        BY <1>2, <4>1
    <3>2. ASSUME NEW m \in Nat, n + 1 <= m
          PROVE  Upto(m)[n + 1] = Upto(n + 1)[n + 1]
      BY <3>1, <3>2
    <3> QED
      BY <3>2
  <2> HIDE DEF Same
  <2>3. Same \subseteq Nat
    BY DEF Same
  <2> QED
    BY <2>1, <2>2, <2>3, InductionOnNat
<1>4. all \in [Nat -> Nat]
  <2>1. ASSUME NEW n \in Nat PROVE Upto(n)[n] \in Nat
    BY <1>2
  <2> QED
    BY <2>1
<1>5. ASSUME NEW n \in Nat
      PROVE  all[n] = IF n = 0 THEN 1 ELSE 2 * all[n - 1]
  <2>1. CASE n = 0
    BY <1>2, <2>1
  <2>2. CASE n # 0
    <3>1. n - 1 \in Nat /\ n \in 1..n
      BY <2>2
    <3>2. Upto(n)[n] = 2 * Upto(n)[n - 1]
      BY <1>2, <3>1
    <3>3. Upto(n)[n - 1] = Upto(n - 1)[n - 1]
      BY <1>3, <3>1
    <3> QED
      BY <2>2, <3>1, <3>2, <3>3
  <2> QED
    BY <2>1, <2>2
<1> HIDE DEF all
<1>6. all = [n \in Nat |-> IF n = 0 THEN 1 ELSE 2 * all[n - 1]]
  BY <1>4, <1>5
<1> QED
  BY <1>4, <1>6

\* Pow2 is that function.
LEMMA Pow2Doubles ==
  /\ Waits!Pow2 \in [Nat -> Nat]
  /\ \A n \in Nat :
       Waits!Pow2[n] = IF n = 0 THEN 1 ELSE 2 * Waits!Pow2[n - 1]
<1> DEFINE Is(f) == f = [n \in Nat |-> IF n = 0 THEN 1 ELSE 2 * f[n - 1]]
<1>1. Waits!Pow2 = CHOOSE f : Is(f)
  BY Zenon DEF Waits!Pow2
<1>2. \E f : Is(f)
  BY DoublingExists
<1>3. Is(Waits!Pow2)
  <2> HIDE DEF Is
  <2> QED
    BY <1>1, <1>2
<1>4. ASSUME NEW n \in Nat
      PROVE  Waits!Pow2[n] = IF n = 0 THEN 1 ELSE 2 * Waits!Pow2[n - 1]
  BY <1>3, Zenon
<1>5. ASSUME NEW f, Is(f)
      PROVE  f \in [Nat -> Nat]
  <2> DEFINE S == {n \in Nat : f[n] \in Nat}
  <2>1. 0 \in S
    BY <1>5
  <2>2. ASSUME NEW n \in S PROVE n + 1 \in S
    <3>1. f[n + 1] = 2 * f[n]
      BY <1>5
    <3> QED
      BY <3>1
  <2>3. S = Nat
    <3> HIDE DEF S
    <3>1. S \subseteq Nat
      BY DEF S
    <3> QED
      BY <2>1, <2>2, <3>1, InductionOnNat
  <2>4. \A n \in Nat : f[n] \in Nat
    BY <2>3
  <2> QED
    BY <1>5, <2>4
<1> QED
  BY <1>3, <1>4, <1>5

\* A power of two is positive.
LEMMA Pow2Positive ==
  ASSUME NEW n \in Nat
  PROVE  Waits!Pow2[n] \in Nat \ {0}
<1> DEFINE S == {k \in Nat : Waits!Pow2[k] > 0}
<1>1. 0 \in S /\ \A k \in S : k + 1 \in S
  BY Pow2Doubles
<1>2. S = Nat
  <2> HIDE DEF S
  <2>1. S \subseteq Nat
    BY DEF S
  <2> QED
    BY <1>1, <2>1, InductionOnNat
<1> QED
  BY <1>2, Pow2Doubles

\* Powers of two never get smaller.
LEMMA Pow2Grows ==
  ASSUME NEW m \in Nat, NEW n \in Nat, m <= n
  PROVE  Waits!Pow2[m] <= Waits!Pow2[n]
<1> DEFINE S == {k \in Nat : Waits!Pow2[m] <= Waits!Pow2[m + k]}
<1>0. Waits!Pow2 \in [Nat -> Nat]
  BY Pow2Doubles
<1>1. 0 \in S
  BY <1>0
<1>2. ASSUME NEW k \in S PROVE k + 1 \in S
  <2>1. /\ m + k \in Nat /\ m + (k + 1) \in Nat /\ m + (k + 1) # 0
        /\ (m + (k + 1)) - 1 = m + k
    OBVIOUS
  <2>2. Waits!Pow2[m + (k + 1)] = 2 * Waits!Pow2[m + k]
    BY <2>1, Pow2Doubles
  <2>3. /\ Waits!Pow2[m] \in Nat /\ Waits!Pow2[m + k] \in Nat
        /\ Waits!Pow2[m] <= Waits!Pow2[m + k]
    BY <1>0, <2>1
  <2> QED
    BY <2>2, <2>3
<1>3. S = Nat
  <2> HIDE DEF S
  <2>1. S \subseteq Nat
    BY DEF S
  <2> QED
    BY <1>1, <1>2, <2>1, InductionOnNat
<1>4. n - m \in Nat /\ m + (n - m) = n
  OBVIOUS
<1>5. n - m \in S
  BY <1>3, <1>4
<1> QED
  BY <1>4, <1>5

\* A Duration is not changed by wrapping around.
LEMMA WrapKeeps ==
  ASSUME Width \in Nat \ {0}, NEW x \in Nat, x <= Waits!Largest
  PROVE  Waits!Wrap(x) = x
<1>1. /\ Waits!Pow2[Width] = 2 * Waits!Pow2[Width - 1]
      /\ Waits!Pow2[Width - 1] \in Nat \ {0}
  BY Pow2Doubles, Pow2Positive
<1>2. Waits!Largest = Waits!Pow2[Width - 1] - 1
  BY DEF Waits!Largest
<1>3. x < Waits!Pow2[Width] /\ Waits!Pow2[Width] \in Nat \ {0}
  BY <1>1, <1>2
<1>4. x % Waits!Pow2[Width] = x
  <2> DEFINE m == Waits!Pow2[Width]
  <2> HIDE DEF m
  <2>1. m \in Nat \ {0} /\ x < m
    BY <1>3 DEF m
  <2>2. x % m = x
    BY <2>1
  <2> QED
    BY <2>2 DEF m
<1>5. ~(x > Waits!Largest)
  BY <1>1, <1>2
<1> QED
  BY <1>4, <1>5, Zenon DEF Waits!Wrap

\* Wrapping around gives an integer.
LEMMA WrapType ==
  ASSUME Width \in Nat \ {0}, NEW x \in Int
  PROVE  Waits!Wrap(x) \in Int
<1>1. Waits!Pow2[Width] \in Nat \ {0}
  BY Pow2Positive
<1>2. x % Waits!Pow2[Width] \in Int
  BY <1>1
<1> QED
  BY <1>1, <1>2 DEF Waits!Wrap

\* Jitter takes a wait to between a half and one and a half of it, and what is
\* not above a cap to less than half above it, negative or not.
LEMMA JitterBounds ==
  ASSUME NEW d \in Int, NEW eighths \in 4..11
  PROVE  /\ Waits!Jittered(d, eighths) \in Int
         /\ d >= 0 => /\ d - 1 <= 2 * Waits!Jittered(d, eighths)
                      /\ 2 * Waits!Jittered(d, eighths) <= 3 * d
                      /\ d > 0 => 2 * Waits!Jittered(d, eighths) < 3 * d
         /\ d < 0 => Waits!Jittered(d, eighths) <= 0
         /\ \A c \in Nat \ {0} :
              d <= c => 2 * Waits!Jittered(d, eighths) < 3 * c
<1>1. /\ eighths = 4 \/ eighths = 5 \/ eighths = 6 \/ eighths = 7
         \/ eighths = 8 \/ eighths = 9 \/ eighths = 10 \/ eighths = 11
  OBVIOUS
<1>2. CASE d >= 0
  <2> DEFINE q == Waits!Jittered(d, eighths)
  <2>1. q = (d * eighths) \div 8
    BY <1>2 DEF Waits!Jittered
  <2>2. d * eighths \in Int /\ 4 * d <= d * eighths /\ d * eighths <= 11 * d
    BY <1>1, <1>2
  <2>3. q \in Int /\ 8 * q <= d * eighths /\ d * eighths < 8 * q + 8
    BY <2>1, <2>2
  <2> HIDE DEF q
  <2> QED
    BY <1>2, <2>2, <2>3 DEF q
<1>3. CASE d < 0
  <2>1. -d * eighths \in Int /\ -d * eighths >= 0
    BY <1>1, <1>3
  <2>2. (-d * eighths) \div 8 \in Int /\ (-d * eighths) \div 8 >= 0
    BY <2>1
  <2>3. Waits!Jittered(d, eighths) = -((-d * eighths) \div 8)
    BY <1>3 DEF Waits!Jittered
  <2> QED
    BY <1>3, <2>2, <2>3
<1> QED
  BY <1>2, <1>3

\* The settings stay what they are, and the latest wait is what was meant.
WaitsInv ==
  /\ loop \in {"reconnect", "retry"}
  /\ base \in Bases /\ cap \in Caps
  /\ attempt \in 0..MaxAttempts
  /\ Waits!WaitsAsMeant

\* What is assumed of the constants of the waits.
LEMMA WaitsConstants ==
  /\ Width \in Nat \ {0} /\ MaxAttempts \in Nat
  /\ \A b \in Bases \cup Caps : b \in Nat \ {0} /\ b <= Waits!Largest
<1>1. Waits!Pow2[Width - 1] \in Nat \ {0}
  BY RetriesAssumption, Pow2Positive DEF Waits!BackoffAssumption
<1> QED
  BY <1>1, RetriesAssumption DEF Waits!BackoffAssumption, Waits!Largest

\* What is meant is what is shifted, as long as it is a Duration.
LEMMA ShiftedIsMeant ==
  ASSUME WaitsInv, NEW n \in Nat
  PROVE  /\ Waits!Shifted(n) \in Int
         /\ Waits!Meant(n) \in Nat \ {0}
         /\ ~Waits!Overflows(n) => Waits!Shifted(n) = Waits!Meant(n)
<1> DEFINE p == Waits!Pow2[n]
<1>1. /\ Width \in Nat \ {0} /\ base \in Nat \ {0}
      /\ p \in Nat \ {0}
  BY WaitsConstants, Pow2Positive DEF WaitsInv
<1>2. base * p \in Nat \ {0} /\ p <= base * p
  <2> HIDE DEF p
  <2>1. base \in Nat /\ base >= 1 /\ p \in Nat /\ p >= 1
    BY <1>1
  <2>2. (base - 1) * p >= 0 /\ base * p = (base - 1) * p + p
    BY <2>1
  <2> QED
    BY <2>1, <2>2
<1>3. Waits!Shifted(n) \in Int
  <2>1. Waits!Wrap(p) \in Int
    BY <1>1, WrapType
  <2>2. base * Waits!Wrap(p) \in Int
    BY <1>1, <2>1
  <2> HIDE DEF p
  <2>3. Waits!Wrap(base * Waits!Wrap(p)) \in Int
    BY <1>1, <2>2, WrapType
  <2> QED
    BY <2>3 DEF Waits!Shifted, p
<1>4. ASSUME ~Waits!Overflows(n)
      PROVE  Waits!Shifted(n) = Waits!Meant(n)
  <2>1. Waits!Largest = Waits!Pow2[Width - 1] - 1
        /\ Waits!Pow2[Width - 1] \in Nat \ {0}
    BY <1>1, Pow2Positive DEF Waits!Largest
  <2>2. base * p <= Waits!Largest
    BY <1>2, <1>4, <2>1 DEF Waits!Overflows, Waits!Meant
  <2>3. p <= Waits!Largest
    BY <1>1, <1>2, <2>1, <2>2
  <2>4. ~(n >= Width)
    <3>1. SUFFICES ASSUME n >= Width PROVE FALSE
      OBVIOUS
    <3>2. Width - 1 \in Nat /\ Width - 1 <= n
      BY <1>1, <3>1
    <3>3. Waits!Pow2[Width - 1] <= p
      BY <3>2, Pow2Grows
    <3> QED
      BY <1>1, <2>1, <2>3, <3>3
  <2>5. Waits!Wrap(p) = p
    BY <1>1, <2>3, WrapKeeps
  <2>6. Waits!Wrap(base * p) = base * p
    <3> HIDE DEF p
    <3> QED
      BY <1>1, <1>2, <2>2, WrapKeeps
  <2> QED
    BY <2>4, <2>5, <2>6 DEF Waits!Shifted, Waits!Meant
<1> QED
  BY <1>2, <1>3, <1>4 DEF Waits!Meant

\* A wait keeps the invariant.
LEMMA WaitsStep ==
  ASSUME WaitsInv, Waits!Next
  PROVE  WaitsInv'
<1>0. PICK n \in Nat : n = attempt
  BY WaitsConstants DEF WaitsInv
<1> DEFINE most == IF Waits!Meant(n) < cap THEN Waits!Meant(n) ELSE cap
<1>1. /\ attempt' = n + 1 /\ attempt' \in 1..MaxAttempts
      /\ attempt' - 1 = n
      /\ loop' = loop /\ base' = base /\ cap' = cap
  BY <1>0, WaitsConstants
  DEF WaitsInv, Waits!Next, Waits!ReconnectWait, Waits!RetryWait
<1>2. /\ Waits!Shifted(n) \in Int /\ Waits!Meant(n) \in Nat \ {0}
      /\ ~Waits!Overflows(n) => Waits!Shifted(n) = Waits!Meant(n)
  BY ShiftedIsMeant
<1>3. cap \in Nat \ {0}
  BY WaitsConstants DEF WaitsInv
<1>4. /\ Waits!Meant(attempt - 1)' = Waits!Meant(n)
      /\ Waits!Overflows(attempt - 1)' <=> Waits!Overflows(n)
  BY <1>1, Zenon DEF Waits!Meant, Waits!Overflows
<1>5. CASE Waits!ReconnectWait
  <2>1. PICK eighths \in 4..11 :
          wait' = Waits!Jittered(Waits!Capped(Waits!Shifted(n)), eighths)
    BY <1>0, <1>5 DEF Waits!ReconnectWait
  <2> DEFINE d == Waits!Capped(Waits!Shifted(n))
  <2>2. d \in Int /\ d <= cap
        /\ (~Waits!Overflows(n) => d = most /\ d > 0)
    BY <1>2, <1>3 DEF Waits!Capped
  <2> HIDE DEF d, most
  <2>3. /\ wait' \in Int
        /\ d >= 0 => /\ d - 1 <= 2 * wait' /\ 2 * wait' <= 3 * d
                     /\ d > 0 => 2 * wait' < 3 * d
        /\ d < 0 => wait' <= 0
        /\ \A c \in Nat \ {0} : d <= c => 2 * wait' < 3 * c
    BY <2>1, <2>2, JitterBounds DEF d
  <2>4. 2 * wait' < 3 * cap
    BY <1>3, <2>2, <2>3
  <2>5. loop = "reconnect"
    BY <1>5 DEF Waits!ReconnectWait
  <2>6. ~Waits!Overflows(n) => most - 1 <= 2 * wait' /\ 2 * wait' < 3 * most
    BY <2>2, <2>3
  <2>7. most \in Nat \ {0}
    BY <1>2, <1>3 DEF most
  <2>8. wait' <= 0 /\ ~Waits!Overflows(n) => most = 1
    <3>1. PICK m \in Nat \ {0}, w \in Int : m = most /\ w = wait'
      BY <2>3, <2>7
    <3>2. ASSUME w <= 0, m - 1 <= 2 * w PROVE m = 1
      BY <3>2
    <3> QED
      BY <2>6, <3>1, <3>2
  <2>9. Waits!WaitsAsMeant'
    BY <1>1, <1>4, <2>4, <2>5, <2>6, <2>8 DEF Waits!WaitsAsMeant, most
  <2> QED
    BY <1>1, <2>9 DEF WaitsInv
<1>6. CASE Waits!RetryWait
  <2>1. loop = "retry" /\ wait' = Waits!Shifted(n)
    BY <1>0, <1>6 DEF Waits!RetryWait
  <2>2. Waits!WaitsAsMeant'
    BY <1>1, <1>2, <1>4, <2>1 DEF Waits!WaitsAsMeant
  <2> QED
    BY <1>1, <2>2 DEF WaitsInv
<1> QED
  BY <1>5, <1>6 DEF Waits!Next

-----------------------------------------------------------------------------
(* The one that runs *)

Inv ==
  /\ what = "durable" => DurableInv
  /\ what = "resilient" => ResilientInv

\* The invariant of the one that runs holds at first, and nothing is delivered.
LEMMA InvInit == Init => Inv /\ Promised!Init
<1> SUFFICES ASSUME Init PROVE Inv /\ Promised!Init
  OBVIOUS
<1>1. CASE what = "durable" /\ Durable!Init
  <2>1. status = "started"
    BY <1>1 DEF Durable!Init
  <2> QED
    BY <1>1, <2>1, DurableInit
    DEF Inv, Promised!Init, Durable!Answer, Durable!Status, Durable!Asked
<1>2. CASE what = "resilient" /\ Resilient!Init
  BY <1>2, ResilientInit, RetriesAssumption DEF Inv, Promised!Init
<1>3. CASE what = "waits"
  BY <1>3 DEF Inv, Promised!Init
<1> QED
  BY <1>1, <1>2, <1>3 DEF Init

\* Every step keeps it, and delivers as promised.
LEMMA InvStep ==
  ASSUME FailuresAreErrors, Inv, [Next]_vars
  PROVE  Inv' /\ [Promised!Next]_Promised!delivery
<1>0. what' = what
  BY DEF Next, vars
<1>1. CASE what = "durable" /\ Durable!Next
  <2>1. DurableInv
    BY <1>1 DEF Inv
  <2>2. Inv'
    BY <1>0, <1>1, <2>1, DurableStep DEF Inv
  <2> QED
    BY <1>0, <1>1, <2>1, <2>2, DurableStep
    DEF Promised!Next, Promised!delivery, Promised!Grow, Promised!Deliver,
        Promised!Succeed, Promised!Fail
<1>2. CASE what = "resilient" /\ Resilient!Next
  <2>1. Inv'
    BY <1>0, <1>2, ResilientStep, RetriesAssumption DEF Inv
  <2> QED
    BY <1>0, <1>2, <2>1, Zenon DEF Promised!delivery
<1>3. CASE what = "waits"
  <2>1. Inv'
    BY <1>0, <1>3 DEF Inv
  <2> QED
    BY <1>0, <1>3, <2>1 DEF Promised!delivery
<1>4. CASE UNCHANGED vars
  <2>1. /\ UNCHANGED <<what, answer, call, next, errorChunk, result, shown,
                       status, lastSequence, resumes, askedBackup, tried, from>>
    BY <1>4 DEF vars, streamOnly, durableOnly, resilienceOnly
  <2>2. UNCHANGED <<Durable!Answer, Durable!Status>>
    BY <2>1, Zenon DEF Durable!Answer, Durable!Status, Durable!Asked
  <2>3. DurableInv => DurableInv'
    BY <2>1 DEF DurableInv
  <2>4. ResilientInv => ResilientInv'
    <3>1. UNCHANGED Resilient!Plan
      BY <2>1, Zenon DEF Resilient!Plan
    <3>2. Resilient!WholeOrAllTried => Resilient!WholeOrAllTried'
      BY <2>1, EndIsKept
    <3>3. OnPlan => OnPlan'
      BY <2>1, <3>1 DEF OnPlan
    <3>4. UNCHANGED <<FirstChunks(next - 1), FirstChunks(answer.chunks)>>
      BY <2>1 DEF FirstChunks
    <3> QED
      BY <2>1, <3>2, <3>3, <3>4 DEF ResilientInv
  <2> QED
    BY <2>1, <2>2, <2>3, <2>4 DEF Inv, Promised!delivery
<1> QED
  BY <1>1, <1>2, <1>3, <1>4 DEF Next

\* When no failed stream ends with io.EOF, resilientStream (examples/
\* resilience/main.go 131-179) returns nil only with the whole of an answer
\* printed last, and an error only when every strategy has had its turn, for
\* any number of retries.
THEOREM ResilienceIsWholeOrExhausted ==
  ASSUME FailuresAreErrors
  PROVE  Spec => []WholeOrAllTried
<1>1. Inv /\ [Next]_vars => Inv'
  BY InvStep
<1>2. Inv => WholeOrAllTried
  <2>1. status = "running" => Resilient!WholeOrAllTried
    BY DEF Resilient!WholeOrAllTried
  <2> QED
    BY <2>1 DEF Inv, ResilientInv, WholeOrAllTried
<1> QED
  BY <1>1, <1>2, InvInit, PTL DEF Spec

\* When no failed stream ends with io.EOF, an application that recovers as
\* llm.go (129-130) has it is given the chunks of an answer once each and in
\* order, through any number of failures and resumptions, and is told of
\* success only after all of a complete answer: Delivery's safety.
THEOREM ChunksAreDeliveredAsPromised ==
  ASSUME FailuresAreErrors
  PROVE  Spec => Promised!Safety
<1>1. Inv /\ [Next]_vars => Inv' /\ [Promised!Next]_Promised!delivery
  BY InvStep
<1> QED
  BY <1>1, InvInit, PTL DEF Spec, Promised!Safety

\* As long as base << attempt is a Duration, Retry (middleware.go 191) waits
\* base doubled every time and reconnectLoop (agent.go 334-347) within half of
\* that, or of maxBackoff, around it; no wait of reconnectLoop is half longer
\* than maxBackoff, and only after an overflow, or by the jitter of the smallest
\* Duration, is one over at once: for Durations of any width, the 64 bits of the
\* code among them, any base, any cap and any number of attempts.
THEOREM WaitsAreAsMeant == Spec => []WaitsAsMeant
<1> DEFINE Waiting == what = "waits" => WaitsInv
<1>1. Init => Waiting
  <2>1. Waits!Init => WaitsInv
    BY WaitsConstants DEF Waits!Init, Waits!WaitsAsMeant, WaitsInv
  <2> QED
    BY <2>1 DEF Init
<1>2. Waiting /\ [Next]_vars => Waiting'
  <2>1. SUFFICES ASSUME WaitsInv, [Next]_vars, what = "waits", what' = "waits"
                 PROVE  WaitsInv'
    BY DEF Next, vars
  <2>2. CASE Next
    BY <2>1, <2>2, WaitsStep DEF Next
  <2>3. CASE UNCHANGED vars
    <3>1. UNCHANGED <<loop, base, cap, attempt, wait>>
      BY <2>3 DEF vars, backoffOnly
    <3> QED
      BY <2>1, <3>1
      DEF WaitsInv, Waits!WaitsAsMeant, Waits!Overflows, Waits!Meant
  <2> QED
    BY <2>1, <2>2, <2>3
<1>3. Waiting => WaitsAsMeant
  BY DEF WaitsInv, WaitsAsMeant
<1> QED
  BY <1>1, <1>2, <1>3, PTL DEF Spec
=============================================================================
