---------------------------- MODULE Conversation ----------------------------
(***************************************************************************)
(* What Pipeline, HandoffRouter and GroupChat promise alike: turns are     *)
(* taken one after the other, nobody is asked after a turn has failed or   *)
(* after the end, and the end comes within the limit on turns that was set *)
(* when the conversation began.                                            *)
(***************************************************************************)
EXTENDS Naturals, Sequences

VARIABLES limit, turns, status

conversation == <<limit, turns, status>>

Init == limit \in Nat /\ turns = <<>> /\ status = "running"

Turn ==
  /\ status = "running"
  /\ Len(turns) < limit
  /\ \/ /\ turns' = Append(turns, "ok")
        /\ status' \in {"running", "succeeded", "failed"}
     \/ /\ turns' = Append(turns, "error")
        /\ status' = "failed"
  /\ UNCHANGED limit

End ==
  /\ status = "running"
  /\ status' \in {"succeeded", "failed"}
  /\ UNCHANGED <<limit, turns>>

Next == Turn \/ End

Safety == Init /\ [][Next]_conversation
Spec == Safety /\ WF_conversation(Next)
=============================================================================
