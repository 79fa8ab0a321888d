------------------------------- MODULE Debate -------------------------------
(***************************************************************************)
(* The orchestrator of examples/group-chat: a GroupChat whose turns are    *)
(* given out by a function.  Its participants are servers whose handlers   *)
(* keep nothing: what they say follows from the messages they are shown.   *)
(***************************************************************************)
EXTENDS Naturals, Sequences, SequencesExt, FiniteSetsExt

VARIABLES
  pc,       \* where runOrchestrator is: "connect", "discuss", "returned"
  agent,    \* its agent is connected and not closed
  roundRobin, participants, index, messages, failed, status,  \* see GroupChat
  said      \* the content of each message, see the handlers

chat == <<roundRobin, participants, index, messages, failed, status>>
vars == <<pc, agent, chat, said>>

Debaters == <<"pro", "con", "moderator">>

Chat == INSTANCE GroupChat WITH
  Names <- ToSet(Debaters), MaxParticipants <- 3, MaxRounds <- 5

TypeOK ==
  /\ pc \in {"connect", "discuss", "returned"}
  /\ agent \in BOOLEAN
  /\ Chat!TypeOK
  /\ said \in Seq([speaker : ToSet(Debaters), number : 0..5])

Init ==
  /\ pc = "connect" /\ agent = FALSE
  /\ Chat!Init
  /\ roundRobin = FALSE /\ participants = Debaters
  /\ said = <<>>

\* MustConnect: without a connection the program panics.
Connect ==
  /\ pc = "connect"
  /\ \/ agent' = TRUE /\ pc' = "discuss"
     \/ UNCHANGED agent /\ pc' = "returned"
  /\ UNCHANGED <<chat, said>>

\* Faulty variant: one more turn before the moderator's, which MaxRounds cuts.
TurnManagerLate(n) ==
  IF n < 5 THEN Debaters[(n % 2) + 1] ELSE IF n = 5 THEN "moderator" ELSE ""

\* Whose turn it is after n messages.
TurnManager(n) ==
  IF n < 4 THEN Debaters[(n % 2) + 1] ELSE IF n = 4 THEN "moderator" ELSE ""

Turn == TurnManager(Len(messages))

Count(speaker, shown) ==
  Cardinality({n \in DOMAIN shown : shown[n].speaker = speaker})

\* Faulty variant: each side is given its arguments by the round.
ArgumentOfRound(shown) == Min({Len(shown), 1})

\* Which of its two arguments a side makes, 0 or 1.
Argument(shown) == Min({Len(shown) \div 2, 1})

\* proHandler and conHandler, and moderatorHandler, whose summary gives one
\* number of arguments for both sides.
Handler(speaker, shown) ==
  [speaker |-> speaker,
   number |-> IF speaker = "moderator" THEN Count("pro", shown)
                                       ELSE Argument(shown)]

\* The one whose turn it is answers; there is no consensus function.
Speak ==
  /\ pc = "discuss" /\ Turn # ""
  /\ Chat!Speak
  /\ Last(messages') = Chat!Entry(Turn) /\ status' = "running"
  /\ said' = Append(said, Handler(Turn, said))
  /\ UNCHANGED <<pc, agent>>

\* Its Request fails.
SpeakerFails ==
  /\ pc = "discuss" /\ Turn # ""
  /\ Chat!Fail
  /\ UNCHANGED <<pc, agent, said>>

Finish ==
  /\ pc = "discuss"
  /\ Turn = "" \/ ~Chat!MoreRounds
  /\ Chat!Finish
  /\ UNCHANGED <<pc, agent, said>>

\* The transcript or the error is printed, and the deferred Close runs.
Report ==
  /\ pc = "discuss" /\ status # "running"
  /\ pc' = "returned" /\ agent' = FALSE
  /\ UNCHANGED <<chat, said>>

Returned == pc = "returned" /\ UNCHANGED vars

Step == Connect \/ Speak \/ SpeakerFails \/ Finish \/ Report
Next == Step \/ Returned

Spec == Init /\ [][Next]_vars

-----------------------------------------------------------------------------
(* Properties *)

Printed == pc = "returned" /\ status = "succeeded"

\* "debate flow: pro, con, pro, con, moderator" (main.go 112): no side repeats
\* an argument, and a debate that is printed ends with a summary whose number
\* of arguments is that of either side.
SummaryIsTrue ==
  /\ \A m, n \in 1..Len(said) : said[m] = said[n] => m = n
  /\ Printed =>
       /\ Len(said) = Len(messages)
       /\ Last(said).speaker = "moderator"
       /\ \A s \in {"pro", "con"} : Count(s, said) = Last(said).number
=============================================================================
