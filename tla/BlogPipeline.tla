---------------------------- MODULE BlogPipeline ----------------------------
(***************************************************************************)
(* One pipeline.Run of examples/pipeline: an agent of its own runs a       *)
(* Pipeline over four stages, each a server whose handler has the model    *)
(* write one field of the data it is sent, and the last reply is printed.  *)
(*                                                                         *)
(* A field is empty, about the topic, or "stray": written from a field     *)
(* that was not about it.                                                  *)
(***************************************************************************)
EXTENDS Naturals, Sequences

CONSTANTS MaxSteps, None

BlogAssumption == MaxSteps = 4 /\ None \notin {"data", "error"}

VARIABLES
  pc,        \* where Run is: "connect", "execute", "close", "returned"
  agent,     \* its agent is connected and not closed
  transforms, steps, current, status,   \* of its Pipeline
  data,      \* the PipelineData that current holds, and Run returns
  failures,  \* the stages whose completion has failed
  result     \* "data" or "error": what Run returns

line == <<transforms, steps, current, status>>
vars == <<pc, agent, line, data, failures, result>>

Line == INSTANCE Pipeline

Fields == {"topic", "outline", "draft", "edited", "final"}
PipelineData == [Fields -> {"", "about", "stray"}]
Empty == [f \in Fields |-> ""]

\* What the stages write.
Writes == <<"outline", "draft", "edited", "final">>

TypeOK ==
  /\ pc \in {"connect", "execute", "close", "returned"}
  /\ agent \in BOOLEAN
  /\ Line!TypeOK
  /\ data \in PipelineData
  /\ failures \subseteq 1..MaxSteps
  /\ result \in {None, "data", "error"}

\* Four Steps without transforms.
Init ==
  /\ pc = "connect" /\ agent = FALSE
  /\ Line!Init /\ transforms = <<FALSE, FALSE, FALSE, FALSE>>
  /\ data = [Empty EXCEPT !["topic"] = "about"]
  /\ failures = {} /\ result = None

Connect ==
  /\ pc = "connect"
  /\ \/ agent' = TRUE /\ pc' = "execute" /\ UNCHANGED result
     \/ UNCHANGED agent /\ pc' = "returned" /\ result' = "error"
  /\ UNCHANGED <<line, data, failures>>

\* The handlers of the stages, when the completion succeeds: each has the model
\* write a field from others.
Written(d, field, reads) ==
  [d EXCEPT ![field] = IF \A f \in reads : d[f] = "about" THEN "about" ELSE "stray"]
Outline(d) == Written(d, "outline", {"topic"})
Draft(d) == Written(d, "draft", {"topic", "outline"})
Edit(d) == Written(d, "edited", {"draft"})
Optimize(d) == Written(d, "final", {"edited"})
Handled(n, d) ==
  CASE n = 1 -> Outline(d) [] n = 2 -> Draft(d) [] n = 3 -> Edit(d)
    [] n = 4 -> Optimize(d)

Executing == pc = "execute" /\ UNCHANGED <<pc, agent, result>>

StageAnswers ==
  /\ Executing /\ Line!StepDone
  /\ data' = Handled(Line!k, data)
  /\ UNCHANGED failures

\* Faulty variant: the handler returns the data it has got with the error, and
\* the data is what is sent.
StageFailsKeeping ==
  /\ Executing /\ Line!StepDone
  /\ failures' = failures \cup {Line!k}
  /\ UNCHANGED data

\* When it fails the handler returns Unavailable(...): the reply is an error
\* in JSON, to Request a reply like any other, and as PipelineData it is empty.
StageFails ==
  /\ Executing /\ Line!StepDone
  /\ data' = Empty
  /\ failures' = failures \cup {Line!k}

\* Nobody answers in time, or the platform refuses.
StageSilent ==
  /\ Executing /\ Line!RequestFails
  /\ UNCHANGED <<data, failures>>

Executed ==
  /\ Executing /\ Line!Finish
  /\ UNCHANGED <<data, failures>>

\* trace.Output() always parses: what a stage sends is JSON, an error too.
Report ==
  /\ pc = "execute" /\ status # "running"
  /\ result' = IF status = "failed" THEN "error" ELSE "data"
  /\ pc' = "close"
  /\ UNCHANGED <<agent, line, data, failures>>

Close ==
  /\ pc = "close"
  /\ agent' = FALSE /\ pc' = "returned"
  /\ UNCHANGED <<line, data, failures, result>>

Step ==
  \/ Connect \/ StageAnswers \/ StageFails \/ StageSilent
  \/ Executed \/ Report \/ Close

Returned == pc = "returned" /\ UNCHANGED vars
Next == Step \/ Returned

Spec == Init /\ [][Next]_vars

-----------------------------------------------------------------------------
(* Properties *)

\* A result has an output for each stage after the last that failed and for
\* none before; the outputs are about the topic when no stage has failed, and
\* only then.
OutputsSinceLastFailure ==
  result = "data" =>
    \A n \in 1..MaxSteps :
      data[Writes[n]] =
        IF failures = {} THEN "about"
        ELSE IF \E m \in failures : n <= m THEN "" ELSE "stray"

\* "temporary failure error (retry later)" (service.go 202): a stage that has
\* failed is an error of the run.  (Expected to be violated.)
FailedStageIsAnError == result # None /\ failures # {} => result = "error"
=============================================================================
