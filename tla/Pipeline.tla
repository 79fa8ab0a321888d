------------------------------ MODULE Pipeline ------------------------------
(***************************************************************************)
(* One Pipeline.ExecuteWithTrace of pkg/orchestration/pipeline.go: each    *)
(* step's agent is asked with what the step before has put out.            *)
(*                                                                         *)
(* Data is named by where it comes from: <<k, TRUE>> is what step k's      *)
(* agent answered, after the step's transform, <<k, FALSE>> its answer as  *)
(* it is, and the caller's input counts as the answer of step 0.           *)
(***************************************************************************)
EXTENDS Naturals, Sequences, SequencesExt

CONSTANT MaxSteps   \* bound on the number of steps

VARIABLES
  transforms,  \* p.steps: for each step, whether it has a transform
  steps,       \* trace.Steps
  current,     \* the data the next step gets
  status       \* "running", or what the pipeline has returned

vars == <<transforms, steps, current, status>>

Data == (0..MaxSteps) \X BOOLEAN
Input == <<0, FALSE>>

\* How a step ended: an output, a failed Request, a failed transform.
StepTraces == [input : Data, output : Data,
               error : {"", "request", "transform"}]

\* Any sequence of Step(...) calls, with WithTransform or without.
Configurations == BoundedSeq(BOOLEAN, MaxSteps)

TypeOK ==
  /\ transforms \in Configurations
  /\ steps \in Seq(StepTraces) /\ Len(steps) <= Len(transforms)
  /\ current \in Data
  /\ status \in {"running", "succeeded", "failed"}

Init ==
  /\ transforms \in Configurations
  /\ steps = <<>> /\ current = Input /\ status = "running"

k == Len(steps) + 1
MoreSteps == status = "running" /\ k <= Len(transforms)

StepFails(error) ==
  /\ steps' = Append(steps, [input |-> current, output |-> Input,
                             error |-> error])
  /\ status' = "failed"
  /\ UNCHANGED <<transforms, current>>

\* The Request fails, or the step's timeout fires first.
RequestFails == MoreSteps /\ StepFails("request")

TransformFails == MoreSteps /\ transforms[k] /\ StepFails("transform")

\* Faulty variants: the untransformed answer is passed on; a failed transform
\* is ignored.
StepDoneUntransformed ==
  /\ MoreSteps
  /\ LET output == <<k, transforms[k]>> IN
       /\ steps' = Append(steps, [input |-> current, output |-> output,
                                  error |-> ""])
       /\ current' = <<k, FALSE>>
  /\ UNCHANGED <<transforms, status>>

StepDoneWhatever ==
  /\ MoreSteps
  /\ LET output == <<k, transforms[k]>> IN
       /\ \E error \in {"", "transform"} :
            steps' = Append(steps, [input |-> current, output |-> output,
                                    error |-> error])
       /\ current' = output
  /\ UNCHANGED <<transforms, status>>

StepDone ==
  /\ MoreSteps
  /\ LET output == <<k, transforms[k]>> IN
       /\ steps' = Append(steps, [input |-> current, output |-> output,
                                  error |-> ""])
       /\ current' = output
  /\ UNCHANGED <<transforms, status>>

Finish ==
  /\ status = "running" /\ k > Len(transforms)
  /\ status' = "succeeded"
  /\ UNCHANGED <<transforms, steps, current>>

\* What Execute returns: the output of the last step, or the input itself.
Result == IF steps = <<>> THEN Input ELSE Last(steps).output

Returned == status # "running" /\ UNCHANGED vars

Step == RequestFails \/ TransformFails \/ StepDone \/ Finish
Next == Step \/ Returned

Spec == Init /\ [][Next]_vars

\* Request returns: the client gives it a deadline (messaging.go 81-86).
FairSpec == Spec /\ WF_vars(Step)

-----------------------------------------------------------------------------
(* Properties *)

\* "each agent processes the output from the previous agent": the trace shows
\* every step with the transformed output of the step before as its input.
Chained ==
  \A n \in 1..Len(steps) :
    steps[n].input = IF n = 1 THEN Input
                                  ELSE <<n - 1, transforms[n - 1]>>

\* A pipeline succeeds when each of its steps has, on the data of the last.
SucceedsWithAllSteps ==
  status = "succeeded" =>
    /\ Len(steps) = Len(transforms)
    /\ \A n \in 1..Len(steps) : steps[n].error = ""
    /\ Result = current

\* The pipeline as a Conversation: steps are taken in turn.
Turns == [n \in 1..Len(steps) |->
           IF steps[n].error = "" THEN "ok" ELSE "error"]
Limit == Len(transforms)
=============================================================================
