------------------------------ MODULE Delivery ------------------------------
(***************************************************************************)
(* What recovering from disconnects promises: the chunks of one answer are *)
(* delivered once each and in order, success means that all of a complete  *)
(* answer were delivered, and once the answer is complete or has failed    *)
(* the delivery ends.                                                      *)
(***************************************************************************)
EXTENDS Naturals, Sequences

VARIABLES answer, delivered, status

delivery == <<answer, delivered, status>>

Init ==
  /\ answer = [chunks |-> 0, end |-> "open"]
  /\ delivered = <<>> /\ status = "running"

Grow ==
  /\ answer.end = "open"
  /\ \/ answer' \in [chunks : {answer.chunks + 1}, end : {"open", "done"}]
     \/ answer' = [answer EXCEPT !.end = "failed"]
  /\ UNCHANGED <<delivered, status>>

\* The chunk after the last one delivered; it may complete the delivery.
Deliver ==
  /\ status = "running" /\ Len(delivered) < answer.chunks
  /\ delivered' = Append(delivered, Len(delivered) + 1)
  /\ UNCHANGED <<answer, status>>

Succeed ==
  /\ status = "running"
  /\ answer.end = "done" /\ Len(delivered) = answer.chunks
  /\ status' = "succeeded"
  /\ UNCHANGED <<answer, delivered>>

Fail ==
  /\ status = "running"
  /\ status' = "failed"
  /\ UNCHANGED <<answer, delivered>>

Next == Grow \/ Deliver \/ Succeed \/ Fail

Safety == Init /\ [][Next]_delivery
Spec == Safety /\ (answer.end # "open" ~> status # "running")
=============================================================================
