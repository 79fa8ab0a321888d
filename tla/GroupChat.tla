----------------------------- MODULE GroupChat -----------------------------
(***************************************************************************)
(* One GroupChat.DiscussWithTrace of pkg/orchestration/groupchat.go: round *)
(* after round the manager names a speaker, who is asked with the messages *)
(* so far, until there is a consensus, nobody is left to speak, or the     *)
(* rounds are used up.                                                     *)
(***************************************************************************)
EXTENDS Naturals, Sequences, SequencesExt, FiniteSetsExt

CONSTANTS
  Names,            \* names of participants
  MaxParticipants,  \* bound on the calls of Participant
  MaxRounds         \* g.maxRounds

\* The names of nobody and of somebody else are not names of participants.
GroupChatAssumption == {"", "stranger"} \cap Names = {}

VARIABLES
  roundRobin,    \* the manager is RoundRobinManager(), not FuncManager(fn)
  participants,  \* g.participants: their names, in order
  index,         \* the index of roundRobinState
  messages,      \* trace.Messages: which entry of participants has spoken
  failed,        \* trace.Error is set: the speaker is unknown or has failed
  status

vars == <<roundRobin, participants, index, messages, failed, status>>

Entries == 1..Len(participants)

\* Any sequence of Participant(...) calls.
Configurations == BoundedSeq(Names, MaxParticipants)

TypeOK ==
  /\ roundRobin \in BOOLEAN
  /\ participants \in Configurations
  /\ index \in 0..Len(participants) - 1
  /\ messages \in Seq(Entries) /\ Len(messages) <= MaxRounds
  /\ failed \in BOOLEAN
  /\ status \in {"running", "succeeded", "failed"}

\* With no participants Discuss is an error.
Init ==
  /\ roundRobin \in BOOLEAN
  /\ participants \in Configurations \ {<<>>}
  /\ index = 0 /\ messages = <<>>
  /\ failed = FALSE /\ status = "running"

\* The manager's Next: the participants in order, or whatever the selection
\* function names (nobody, or somebody else).
Speakers == IF roundRobin THEN {participants[index + 1]}
                          ELSE Names \cup {"", "stranger"}

\* Faulty variant: the index is advanced by who has spoken before.
AdvanceByMessages ==
  index' = IF roundRobin THEN (index + Len(messages)) % Len(participants)
                         ELSE index

Advance ==
  index' = IF roundRobin THEN (index + 1) % Len(participants) ELSE index

\* participantMap: the last participant with the name has it.
Entry(name) == Max({e \in Entries : participants[e] = name})

Known(name) == \E e \in Entries : participants[e] = name
MoreRounds == status = "running" /\ Len(messages) < MaxRounds

\* The speaker's Request succeeds; its message is added, and the consensus
\* function may end the discussion.
Speak ==
  /\ MoreRounds
  /\ \E s \in Speakers :
       Known(s) /\ messages' = Append(messages, Entry(s))
  /\ Advance
  /\ status' \in {"running", "succeeded"}
  /\ UNCHANGED <<roundRobin, participants, failed>>

\* Faulty variant: the discussion goes on without the speaker.
FailAndGoOn ==
  /\ MoreRounds
  /\ \E s \in Speakers : s # ""
  /\ Advance
  /\ failed' = TRUE
  /\ UNCHANGED <<roundRobin, participants, messages, status>>

\* Nobody by that name, or the speaker's Request fails.
Fail ==
  /\ MoreRounds
  /\ \E s \in Speakers : s # ""
  /\ Advance
  /\ failed' = TRUE /\ status' = "failed"
  /\ UNCHANGED <<roundRobin, participants, messages>>

\* The rounds are used up, or the manager names nobody.
Finish ==
  /\ status = "running"
  /\ Len(messages) >= MaxRounds \/ "" \in Speakers
  /\ status' = "succeeded"
  /\ UNCHANGED <<roundRobin, participants, index, messages, failed>>

Returned == status # "running" /\ UNCHANGED vars

Step == Speak \/ Fail \/ Finish
Next == Step \/ Returned

Spec == Init /\ [][Next]_vars

\* Request returns: the client gives it a deadline (messaging.go 81-86).
FairSpec == Spec /\ WF_vars(Step)

-----------------------------------------------------------------------------
(* Properties *)

Spoken(e) == Cardinality({n \in DOMAIN messages : messages[n] = e})

\* Round robin: "Each participant speaks once per cycle", so at any time no
\* participant is more than one message ahead of another.
SpeaksOncePerCycle ==
  roundRobin => \A e, f \in Entries : Spoken(e) <= Spoken(f) + 1

\* It does when no two participants have the same name.
NamedApartSpeaksOncePerCycle == IsInjective(participants) => SpeaksOncePerCycle

\* The discussion as a Conversation: rounds are taken in turn.
Turns == [n \in 1..Len(messages) |-> "ok"]
         \o (IF failed THEN <<"error">> ELSE <<>>)
Limit == MaxRounds
=============================================================================
