------------------------------ MODULE ReadLoop ------------------------------
(***************************************************************************)
(* The programs under examples/ that read lines from a user: features-demo *)
(* (with its commands, memory session and preferences), tool-calling,      *)
(* resilience and the orchestrator of pipeline ("blog"), which connects    *)
(* anew for every line.                                                    *)
(*                                                                         *)
(* A signal ends the program's context (signal.NotifyContext), which every *)
(* call is given; it does not end a read of a line.                        *)
(***************************************************************************)
EXTENDS Store

CONSTANTS
  Models,    \* the models a user may choose
  Default,   \* defaultModel
  MaxHints,  \* bound on the hints a user gives
  MaxRuns    \* bound on the runs of the program

VARIABLES
  program,
  pc,         \* where run is: "idle" before, "returned" after it
  runs,
  agent,      \* the program has an agent that is connected and not closed
  signaled,   \* the program has got SIGINT or SIGTERM
  line,       \* the line read last
  model,      \* the model in use
  sessionID,  \* the program's session; 0: none
  hints,      \* how many hints have been given
  told,       \* <<session, hint>>: it said "Hint added to memory."
  saved       \* the model it said was saved to the preferences

vars == <<program, pc, runs, agent, signaled, line, model, sessionID, hints,
          told, saved, store>>

Programs == {"features-demo", "tool-calling", "resilience", "blog"}
Demo == program = "features-demo"

\* "/quit" is exact; "/quit ..." is a command with an argument.
Lines == {"", "/quit", "/quit ...", "/model", "/hint", "/session", "text"}
Commands == {"/model", "/hint", "/session"}

TypeOK ==
  /\ program \in Programs
  /\ pc \in {"idle", "connect", "session", "preferences", "read", "check",
             "handle", "close", "returned"}
  /\ runs \in 0..MaxRuns
  /\ agent \in BOOLEAN /\ signaled \in BOOLEAN
  /\ line \in Lines
  /\ model \in Models \cup {Default}
  /\ sessionID \in 0..Len(sessions)
  /\ hints \in 0..MaxHints
  /\ told \subseteq (1..Len(sessions)) \X (1..MaxHints)
  /\ saved \in Models \cup {None} /\ kv \in Models \cup {None}
  /\ sessions \in Seq(SUBSET (1..MaxHints)) /\ Len(sessions) <= MaxRuns

Init ==
  /\ program \in Programs
  /\ pc = "idle" /\ runs = 0
  /\ agent = FALSE /\ signaled = FALSE
  /\ line = "" /\ model = Default
  /\ sessionID = 0 /\ hints = 0 /\ told = {} /\ saved = None
  /\ StoreInit

\* With a context that is done every call fails.
Outcomes == IF signaled THEN {FALSE} ELSE BOOLEAN

Go(to) == pc' = to
Kept == <<program, runs, model, sessionID, hints, told, saved>>

-----------------------------------------------------------------------------
(* Up to the first line *)

Start ==
  /\ pc \in {"idle", "returned"} /\ runs < MaxRuns
  /\ runs' = runs + 1 /\ signaled' = FALSE /\ model' = Default
  /\ Go(IF program = "blog" THEN "read" ELSE "connect")
  /\ UNCHANGED <<program, agent, line, sessionID, hints, told, saved, store>>

\* The deferred Close is there from the end of Connect on.
Connect ==
  /\ pc = "connect"
  /\ \E ok \in Outcomes :
       /\ agent' = ok
       /\ Go(IF ~ok THEN "returned" ELSE IF Demo THEN "session" ELSE "read")
  /\ UNCHANGED <<Kept, signaled, line, store>>

OpenSession ==
  /\ pc = "session"
  /\ \E ok \in Outcomes :
       /\ CreateSession(ok)
       /\ IF ok THEN Go("preferences") /\ sessionID' = Len(sessions')
                ELSE Go("close") /\ UNCHANGED sessionID
  /\ UNCHANGED <<program, runs, agent, signaled, line, model, hints, told,
                 saved>>

\* A failure to load the preference is taken for its absence.
LoadPreference ==
  /\ pc = "preferences"
  /\ \E ok \in Outcomes, value \in Models \cup {None} :
       /\ Get(value, ok)
       /\ model' = IF ok THEN value ELSE model
  /\ Go("read")
  /\ UNCHANGED <<program, runs, agent, signaled, line, sessionID, hints, told,
                 saved>>

-----------------------------------------------------------------------------
(* The loop *)

ReadLine(l) ==
  /\ pc = "read"
  /\ line' = l
  /\ Go("check")
  /\ UNCHANGED <<Kept, agent, signaled, store>>

EndOfInput ==
  /\ pc = "read"
  /\ Go("close")
  /\ UNCHANGED <<Kept, agent, signaled, line, store>>

\* tool-calling looks at its context after it has skipped an empty line, the
\* orchestrator never does.
Cancelled ==
  /\ signaled /\ program # "blog"
  /\ program = "tool-calling" => line # ""

\* Faulty variant: the break is one from the select.
CheckBreaks ==
  /\ pc = "check"
  /\ Go(IF line = "" THEN "read" ELSE IF line = "/quit" THEN "close" ELSE "handle")
  /\ UNCHANGED <<Kept, agent, signaled, line, store>>

Check ==
  /\ pc = "check"
  /\ Go(IF Cancelled \/ line = "/quit" THEN "close"
        ELSE IF line = "" THEN "read" ELSE "handle")
  /\ UNCHANGED <<Kept, agent, signaled, line, store>>

Handling(l) == pc = "handle" /\ Demo /\ line = l /\ Go("read")

\* The model changes whether or not it is saved.
ChangeModel ==
  /\ Handling("/model")
  /\ \E m \in Models, ok \in Outcomes :
       model' = m /\ saved' = m /\ Put(m, ok)
  /\ UNCHANGED <<program, runs, agent, signaled, line, sessionID, hints, told>>

\* Faulty variant: what AddHint returns is ignored.
GiveHintUnchecked ==
  /\ Handling("/hint") /\ hints < MaxHints
  /\ hints' = hints + 1
  /\ \E ok \in Outcomes :
       AddHint(sessionID, hints', ok) /\ told' = told \cup {<<sessionID, hints'>>}
  /\ UNCHANGED <<program, runs, agent, signaled, line, model, sessionID, saved>>

GiveHint ==
  /\ Handling("/hint") /\ hints < MaxHints
  /\ hints' = hints + 1
  /\ \E ok \in Outcomes :
       /\ AddHint(sessionID, hints', ok)
       /\ told' = IF ok THEN told \cup {<<sessionID, hints'>>} ELSE told
  /\ UNCHANGED <<program, runs, agent, signaled, line, model, sessionID, saved>>

\* /session and /stream, and what has its usage or an error printed.
OtherCommand ==
  /\ Handling("/session") \/ Handling("/hint")
  /\ Read
  /\ UNCHANGED <<Kept, agent, signaled, line>>

\* Anything else is for the model (a pipeline.Run in the orchestrator),
\* "/quit ..." included; what comes of it, or the error, is printed.
Ask ==
  /\ pc = "handle" /\ (Demo => line \notin Commands)
  /\ Go("read")
  /\ UNCHANGED <<Kept, agent, signaled, line, store>>

Close ==
  /\ pc = "close"
  /\ agent' = FALSE
  /\ Go("returned")
  /\ UNCHANGED <<Kept, signaled, line, store>>

Signal ==
  /\ pc \notin {"idle", "returned"} /\ ~signaled
  /\ signaled' = TRUE
  /\ UNCHANGED <<Kept, pc, agent, line, store>>

-----------------------------------------------------------------------------

\* What the program does by itself.
Proceed ==
  \/ Connect \/ OpenSession \/ LoadPreference
  \/ Check \/ ChangeModel \/ GiveHint \/ OtherCommand \/ Ask \/ Close

Step == Start \/ Proceed \/ (\E l \in Lines : ReadLine(l)) \/ EndOfInput \/ Signal

Returned == pc = "returned" /\ UNCHANGED vars
Next == Step \/ Returned

Spec == Init /\ [][Next]_vars

-----------------------------------------------------------------------------
(* Properties *)

\* What a user was told is in the memory is in the session's memory, though
\* calls fail and fail to say that they have not.
HintsAreStored == \A t \in told : t[2] \in sessions[t[1]]

\* "saved to preferences" (features-demo/main.go 210).  (Expected to be
\* violated.)
ModelIsSaved == saved # None => kv = saved

Ended == pc = "returned" /\ ~agent
=============================================================================
