------------------------- MODULE ApplicationsProofs -------------------------
(***************************************************************************)
(* Theorems about the programs on the SDK: what they print of the work of  *)
(* their agents, and what they say is stored, is so, for any models and    *)
(* any number of hints and runs.                                           *)
(***************************************************************************)
EXTENDS Applications, Integers, SequenceTheorems, FiniteSetTheorems, TLAPS

-----------------------------------------------------------------------------
(* Sequences *)

\* What Append does, for a sequence over any set.
LEMMA Appended ==
  ASSUME NEW S, NEW s \in Seq(S), NEW x \in S, NEW t, t = Append(s, x)
  PROVE  /\ t \in Seq(S)
         /\ Len(s) \in Nat /\ Len(t) = Len(s) + 1
         /\ t[Len(s) + 1] = x
         /\ \A n \in 1..Len(s) : t[n] = s[n]
BY AppendProperties, LenProperties

\* A sequence with another element in one of its places.
LEMMA Replaced ==
  ASSUME NEW S, NEW s \in Seq(S), NEW k \in 1..Len(s), NEW x \in S,
         NEW t, t = [s EXCEPT ![k] = x]
  PROVE  /\ t \in Seq(S)
         /\ Len(s) \in Nat /\ Len(t) = Len(s)
         /\ \A n \in 1..Len(s) : t[n] = IF n = k THEN x ELSE s[n]
<1>1. Len(s) \in Nat /\ s \in [1..Len(s) -> S]
  BY LenProperties
<1>2. t \in [1..Len(s) -> S]
  BY <1>1
<1>3. t \in UNION {[1..n -> S] : n \in Nat}
  BY <1>1, <1>2
<1>4. t \in Seq(S)
  BY <1>3, SeqDef
<1>5. Len(t) \in Nat /\ 1..Len(t) = 1..Len(s)
  BY <1>2, <1>4, LenProperties
<1> QED
  BY <1>1, <1>4, <1>5

\* A sequence of anything.
IsSeq(s) == \E S : s \in Seq(S)

\* What Append does to it.
LEMMA OneMore ==
  ASSUME NEW s, IsSeq(s), NEW x, NEW t, t = Append(s, x)
  PROVE  /\ IsSeq(t)
         /\ Len(s) \in Nat /\ Len(t) = Len(s) + 1
         /\ t[Len(s) + 1] = x
         /\ \A n \in 1..Len(s) : t[n] = s[n]
<1>1. PICK S : s \in Seq(S)
  BY DEF IsSeq
<1>2. s \in Seq(S \cup {x})
  <2>1. Len(s) \in Nat /\ s \in [1..Len(s) -> S]
    BY <1>1, LenProperties
  <2>2. s \in [1..Len(s) -> S \cup {x}]
    BY <2>1
  <2> QED
    BY <2>1, <2>2, SeqDef
<1>3. x \in S \cup {x}
  OBVIOUS
<1> QED
  BY <1>2, <1>3, Appended DEF IsSeq

\* The empty sequence is one.
LEMMA NothingYet == IsSeq(<<>>) /\ Len(<<>>) = 0
BY EmptySeq DEF IsSeq

-----------------------------------------------------------------------------
(* ReadLoop *)

\* Where features-demo has a session.
InSession == {"preferences", "read", "check", "handle"}

\* What has been said of the memory is so, and the session in use is one that
\* the platform has.
HintsInv ==
  /\ sessions \in Seq(SUBSET Nat)
  /\ hints \in Nat
  /\ told \subseteq (1..Len(sessions)) \X Nat
  /\ Loop!HintsAreStored
  /\ sessionID \in 0..Len(sessions)
  /\ Loop!Demo /\ pc \in InSession => sessionID # 0

\* There are no hints at first.
LEMMA HintsInit ==
  ASSUME Loop!Init
  PROVE  HintsInv
<1>1. /\ sessions = <<>> /\ hints = 0 /\ told = {} /\ sessionID = 0
      /\ pc = "idle"
  BY Zenon DEF Loop!Init, Loop!StoreInit
<1>2. sessions \in Seq(SUBSET Nat) /\ Len(sessions) = 0
  BY <1>1, EmptySeq
<1> QED
  BY <1>1, <1>2 DEF HintsInv, Loop!HintsAreStored, InSession

\* A step that leaves the sessions and what has been said of them alone.
LEMMA HintsStay ==
  ASSUME HintsInv,
         UNCHANGED <<program, sessions, hints, told, sessionID>>,
         Loop!Demo /\ pc' \in InSession => pc \in InSession
  PROVE  HintsInv'
BY DEF HintsInv, Loop!HintsAreStored, Loop!Demo

\* Each step keeps what has been said true.
LEMMA HintsStep ==
  ASSUME HintsInv, Loop!Next
  PROVE  HintsInv'
<1>len. Len(sessions) \in Nat
  BY LenProperties DEF HintsInv
<1>1. CASE Loop!Start
  <2>1. /\ UNCHANGED <<program, sessions, hints, told, sessionID>>
        /\ pc' = IF program = "blog" THEN "read" ELSE "connect"
    BY <1>1, Zenon DEF Loop!Start, Loop!Go, Loop!store
  <2> QED
    BY <2>1, HintsStay DEF Loop!Demo, InSession
<1>2. CASE Loop!Connect
  <2>1. /\ UNCHANGED <<program, sessions, hints, told, sessionID>>
        /\ \E ok \in {TRUE, FALSE} :
             pc' = IF ~ok THEN "returned" ELSE IF Loop!Demo THEN "session" ELSE "read"
    BY <1>2 DEF Loop!Connect, Loop!Go, Loop!store, Loop!Kept, Loop!Outcomes
  <2> QED
    BY <2>1, HintsStay DEF InSession
<1>3. CASE Loop!OpenSession
  <2>1. /\ UNCHANGED <<program, hints, told>>
        /\ \/ sessions' = sessions
           \/ sessions' = Append(sessions, {})
        /\ \/ pc' = "close" /\ sessionID' = sessionID
           \/ /\ pc' = "preferences" /\ sessions' = Append(sessions, {})
              /\ sessionID' = Len(sessions')
    BY <1>3 DEF Loop!OpenSession, Loop!CreateSession, Loop!Go
  <2>2. /\ sessions' \in Seq(SUBSET Nat)
        /\ Len(sessions) <= Len(sessions')
        /\ \A n \in 1..Len(sessions) : sessions'[n] = sessions[n]
        /\ sessionID' \in 0..Len(sessions')
        /\ pc' = "preferences" => sessionID' # 0
    <3>1. CASE sessions' = Append(sessions, {})
      <4>1. {} \in SUBSET Nat /\ sessions \in Seq(SUBSET Nat)
        BY DEF HintsInv
      <4>2. /\ sessions' \in Seq(SUBSET Nat)
            /\ Len(sessions') = Len(sessions) + 1
            /\ \A n \in 1..Len(sessions) : sessions'[n] = sessions[n]
        BY <3>1, <4>1, Appended
      <4> QED
        BY <1>len, <2>1, <4>2 DEF HintsInv
    <3>2. CASE sessions' = sessions /\ sessions' # Append(sessions, {})
      BY <1>len, <2>1, <3>2 DEF HintsInv
    <3> QED
      BY <2>1, <3>1, <3>2
  <2>3. told' \subseteq (1..Len(sessions')) \X Nat
    BY <1>len, <2>1, <2>2, LenProperties DEF HintsInv
  <2>4. Loop!HintsAreStored'
    BY <2>1, <2>2 DEF HintsInv, Loop!HintsAreStored
  <2> QED
    BY <2>1, <2>2, <2>3, <2>4 DEF HintsInv, InSession
<1>4. CASE Loop!LoadPreference
  <2>1. /\ UNCHANGED <<program, sessions, hints, told, sessionID>>
        /\ pc = "preferences"
    BY <1>4 DEF Loop!LoadPreference, Loop!Get, Loop!store
  <2> QED
    BY <2>1, HintsStay DEF InSession
<1>5. CASE Loop!Check
  <2>1. /\ UNCHANGED <<program, sessions, hints, told, sessionID>>
        /\ pc = "check"
    BY <1>5, Zenon DEF Loop!Check, Loop!Kept, Loop!store
  <2> QED
    BY <2>1, HintsStay DEF InSession
<1>6. CASE Loop!ChangeModel
  <2>1. /\ UNCHANGED <<program, sessions, hints, told, sessionID>>
        /\ pc = "handle"
    BY <1>6 DEF Loop!ChangeModel, Loop!Handling, Loop!Put
  <2> QED
    BY <2>1, HintsStay DEF InSession
<1>7. CASE Loop!GiveHint
  <2>1. /\ pc = "handle" /\ Loop!Demo /\ pc' = "read" /\ hints' = hints + 1
        /\ UNCHANGED <<program, sessionID>>
        /\ \/ /\ sessions' = [sessions EXCEPT ![sessionID] = @ \cup {hints'}]
              /\ told' \in {told, told \cup {<<sessionID, hints'>>}}
           \/ sessions' = sessions /\ told' = told
    BY <1>7 DEF Loop!GiveHint, Loop!Handling, Loop!AddHint, Loop!Go
  <2>2. sessionID \in 1..Len(sessions) /\ hints' \in Nat
    BY <1>len, <2>1 DEF HintsInv, InSession
  <2>3. CASE sessions' = sessions /\ told' = told
    BY <2>1, <2>2, <2>3, <1>len DEF HintsInv, Loop!HintsAreStored
  <2>4. CASE /\ sessions' = [sessions EXCEPT ![sessionID] = @ \cup {hints'}]
             /\ told' \in {told, told \cup {<<sessionID, hints'>>}}
    <3> DEFINE more == sessions[sessionID] \cup {hints'}
    <3>1. more \in SUBSET Nat /\ sessions \in Seq(SUBSET Nat)
      BY <2>2, ElementOfSeq DEF HintsInv
    <3>2. sessions' = [sessions EXCEPT ![sessionID] = more]
      BY <2>4
    <3> HIDE DEF more
    <3>3. /\ sessions' \in Seq(SUBSET Nat) /\ Len(sessions') = Len(sessions)
          /\ \A n \in 1..Len(sessions) :
               sessions'[n] = IF n = sessionID THEN more ELSE sessions[n]
      BY <2>2, <3>1, <3>2, Replaced
    <3>4. told' \subseteq (1..Len(sessions')) \X Nat
      BY <2>2, <2>4, <3>3 DEF HintsInv
    <3>5. ASSUME NEW t \in told' PROVE t[2] \in sessions'[t[1]]
      <4>1. CASE t \in told
        <5>1. t[1] \in 1..Len(sessions) /\ t[2] \in sessions[t[1]]
          BY <4>1 DEF HintsInv, Loop!HintsAreStored
        <5> QED
          BY <3>3, <5>1 DEF more
      <4>2. CASE t = <<sessionID, hints'>>
        BY <2>2, <3>3, <4>2 DEF more
      <4> QED
        BY <2>4, <4>1, <4>2
    <3> QED
      BY <2>1, <2>2, <3>3, <3>4, <3>5 DEF HintsInv, Loop!HintsAreStored
  <2> QED
    BY <2>1, <2>3, <2>4
<1>8. CASE Loop!OtherCommand
  <2>1. /\ UNCHANGED <<program, sessions, hints, told, sessionID>>
        /\ pc = "handle"
    BY <1>8
    DEF Loop!OtherCommand, Loop!Handling, Loop!Read, Loop!Kept, Loop!store
  <2> QED
    BY <2>1, HintsStay DEF InSession
<1>9. CASE Loop!Ask
  <2>1. /\ UNCHANGED <<program, sessions, hints, told, sessionID>>
        /\ pc = "handle"
    BY <1>9 DEF Loop!Ask, Loop!Kept, Loop!store
  <2> QED
    BY <2>1, HintsStay DEF InSession
<1>10. CASE Loop!Close
  <2>1. /\ UNCHANGED <<program, sessions, hints, told, sessionID>>
        /\ pc' = "returned"
    BY <1>10 DEF Loop!Close, Loop!Go, Loop!Kept, Loop!store
  <2> QED
    BY <2>1, HintsStay DEF InSession
<1>11. CASE Loop!EndOfInput \/ \E l \in Loop!Lines : Loop!ReadLine(l)
  <2>1. /\ UNCHANGED <<program, sessions, hints, told, sessionID>>
        /\ pc = "read"
    BY <1>11, Zenon
    DEF Loop!ReadLine, Loop!EndOfInput, Loop!Kept, Loop!store
  <2> QED
    BY <2>1, HintsStay DEF InSession
<1>12. CASE Loop!Signal \/ Loop!Returned
  <2>1. UNCHANGED <<program, sessions, hints, told, sessionID, pc>>
    BY <1>12, Zenon
    DEF Loop!Signal, Loop!Returned, Loop!Kept, Loop!store, Loop!vars
  <2> QED
    BY <2>1, HintsStay
<1> QED
  BY <1>1, <1>2, <1>3, <1>4, <1>5, <1>6, <1>7, <1>8, <1>9, <1>10, <1>11,
     <1>12, Zenon
  DEF Loop!Next, Loop!Step, Loop!Proceed

\* features-demo says "Hint added to memory." (examples/features-demo/main.go
\* 221) only of hints that the session's memory has, though calls fail and fail to
\* say that they have not, and over any number of hints and runs.
THEOREM HintsToldAreStored == Spec => []HintsAreStored
<1> DEFINE Looping == what = "loop" => HintsInv
<1>1. Init => Looping
  BY HintsInit DEF Init
<1>2. Looping /\ [Next]_vars => Looping'
  <2>1. SUFFICES ASSUME HintsInv, [Next]_vars, what = "loop"
                 PROVE  HintsInv'
    BY DEF Next, vars
  <2>2. CASE Next
    BY <2>1, <2>2, HintsStep DEF Next
  <2>3. CASE UNCHANGED vars
    <3>1. UNCHANGED <<program, sessions, hints, told, sessionID, pc>>
      BY <2>3 DEF vars, loopOnly
    <3> QED
      BY <2>1, <3>1, HintsStay
  <2> QED
    BY <2>1, <2>2, <2>3
<1>3. Looping => HintsAreStored
  BY DEF HintsInv, HintsAreStored
<1> QED
  BY <1>1, <1>2, <1>3, PTL DEF Spec

-----------------------------------------------------------------------------
(* BlogPipeline *)

\* An empty field.
Blank == ""
Values == {Blank, "about", "stray"}

\* What stage n has written after j stages, when those in fs have failed.
Expected(n, j, fs) ==
  IF n > j THEN Blank
  ELSE IF fs = {} THEN "about"
  ELSE IF \E m \in fs : n <= m THEN Blank ELSE "stray"

\* The data then.
DataAfter(d, j, fs) ==
  /\ d \in [Blog!Fields -> Values]
  /\ fs \subseteq 1..j
  /\ d["topic"] = IF fs = {} THEN "about" ELSE Blank
  /\ \A n \in 1..4 : d[Blog!Writes[n]] = Expected(n, j, fs)

\* Until the pipeline's execution fails, the fields are what the stages done so
\* far have made of them; data is printed only when all four have been run.
BlogInv ==
  /\ IsSeq(steps)
  /\ Len(transforms) = 4
  /\ status \in {"running", "succeeded", "failed"}
  /\ status \in {"running", "succeeded"} =>
       Len(steps) \in 0..4 /\ DataAfter(data, Len(steps), failures)
  /\ status = "succeeded" => Len(steps) = 4
  /\ result = "data" => status = "succeeded"

\* The names of the values and the fields.
LEMMA BlogNames ==
  /\ Blank # "about" /\ Blank # "stray"
  /\ Blog!Fields = {"topic", "outline", "draft", "edited", "final"}
  /\ Blog!Writes[1] = "outline" /\ Blog!Writes[2] = "draft"
  /\ Blog!Writes[3] = "edited" /\ Blog!Writes[4] = "final"
<1>1. Blank # "about" /\ Blank # "stray"
  BY Zenon DEF Blank
<1> QED
  BY <1>1 DEF Blog!Fields, Blog!Writes

\* The same, field by field.
LEMMA AfterFields ==
  ASSUME NEW j \in 0..4, NEW d \in [Blog!Fields -> Values],
         NEW fs \in SUBSET (1..j),
         d["topic"] = IF fs = {} THEN "about" ELSE Blank
  PROVE  DataAfter(d, j, fs) <=>
           /\ d["outline"] = Expected(1, j, fs)
           /\ d["draft"] = Expected(2, j, fs)
           /\ d["edited"] = Expected(3, j, fs)
           /\ d["final"] = Expected(4, j, fs)
<1>1. \A n \in 1..4 : n = 1 \/ n = 2 \/ n = 3 \/ n = 4
  OBVIOUS
<1> QED
  BY <1>1, BlogNames DEF DataAfter

\* A stage whose model answers adds its field.
LEMMA StageWrites ==
  ASSUME NEW j \in 0..3, NEW d, NEW fs, DataAfter(d, j, fs)
  PROVE  DataAfter(Blog!Handled(j + 1, d), j + 1, fs)
<1> DEFINE e == Blog!Handled(j + 1, d)
           new == IF fs = {} THEN "about" ELSE "stray"
<1>0. /\ d \in [Blog!Fields -> Values] /\ fs \in SUBSET (1..j)
      /\ d["topic"] = IF fs = {} THEN "about" ELSE Blank
  BY DEF DataAfter
<1>1. /\ d["outline"] = Expected(1, j, fs) /\ d["draft"] = Expected(2, j, fs)
      /\ d["edited"] = Expected(3, j, fs) /\ d["final"] = Expected(4, j, fs)
  BY <1>0, AfterFields
<1>2. /\ fs \in SUBSET (1..j + 1) /\ j + 1 \in 0..4
      /\ \A n \in 1..4 : n # j + 1 => Expected(n, j + 1, fs) = Expected(n, j, fs)
      /\ Expected(j + 1, j + 1, fs) = new
  BY <1>0 DEF Expected
<1> HIDE DEF new
<1>3. ASSUME NEW field \in {"outline", "draft", "edited", "final"},
             e = [d EXCEPT ![field] = new],
             field = Blog!Writes[j + 1]
      PROVE  DataAfter(e, j + 1, fs)
  <2> HIDE DEF e
  <2>1. e \in [Blog!Fields -> Values]
    BY <1>0, <1>3, BlogNames DEF Values, new
  <2>2. /\ e["topic"] = d["topic"] /\ e[field] = new
        /\ \A f \in {"outline", "draft", "edited", "final"} :
             f # field => e[f] = d[f]
    BY <1>0, <1>3, BlogNames
  <2>3. j = 0 \/ j = 1 \/ j = 2 \/ j = 3
    OBVIOUS
  <2>4. /\ e["outline"] = Expected(1, j + 1, fs)
        /\ e["draft"] = Expected(2, j + 1, fs)
        /\ e["edited"] = Expected(3, j + 1, fs)
        /\ e["final"] = Expected(4, j + 1, fs)
    BY <1>1, <1>2, <1>3, <2>2, <2>3, BlogNames
  <2> QED
    BY <1>0, <1>2, <2>1, <2>2, <2>4, AfterFields
<1>4. CASE j = 0
  <2>1. e = Blog!Outline(d)
    BY <1>4 DEF Blog!Handled
  <2>2. e = [d EXCEPT !["outline"] = new]
    BY <1>0, <1>1, <1>4, <2>1, BlogNames DEF Blog!Outline, Blog!Written, Expected, new
  <2> HIDE DEF e
  <2>3. DataAfter(e, j + 1, fs)
    BY <1>3, <1>4, <2>2, BlogNames
  <2> QED
    BY <2>3 DEF e
<1>5. CASE j = 1
  <2>1. e = Blog!Draft(d)
    BY <1>5 DEF Blog!Handled
  <2>2. e = [d EXCEPT !["draft"] = new]
    BY <1>0, <1>1, <1>5, <2>1, BlogNames DEF Blog!Draft, Blog!Written, Expected, new
  <2> HIDE DEF e
  <2>3. DataAfter(e, j + 1, fs)
    BY <1>3, <1>5, <2>2, BlogNames
  <2> QED
    BY <2>3 DEF e
<1>6. CASE j = 2
  <2>1. e = Blog!Edit(d)
    BY <1>6 DEF Blog!Handled
  <2>2. e = [d EXCEPT !["edited"] = new]
    BY <1>0, <1>1, <1>6, <2>1, BlogNames DEF Blog!Edit, Blog!Written, Expected, new
  <2> HIDE DEF e
  <2>3. DataAfter(e, j + 1, fs)
    BY <1>3, <1>6, <2>2, BlogNames
  <2> QED
    BY <2>3 DEF e
<1>7. CASE j = 3
  <2>1. e = Blog!Optimize(d)
    BY <1>7 DEF Blog!Handled
  <2>2. e = [d EXCEPT !["final"] = new]
    BY <1>0, <1>1, <1>7, <2>1, BlogNames DEF Blog!Optimize, Blog!Written, Expected,
       new
  <2> HIDE DEF e
  <2>3. DataAfter(e, j + 1, fs)
    BY <1>3, <1>7, <2>2, BlogNames
  <2> QED
    BY <2>3 DEF e
<1> QED
  BY <1>4, <1>5, <1>6, <1>7

\* After one whose model does not, nothing is left.
LEMMA StageBlanks ==
  ASSUME NEW j \in 0..3, NEW fs \in SUBSET (1..j)
  PROVE  DataAfter(Blog!Empty, j + 1, fs \cup {j + 1})
<1>1. Blog!Empty = [f \in Blog!Fields |-> Blank]
  BY Zenon DEF Blog!Empty, Blank
<1>2. \A n \in 1..4 : Blog!Writes[n] \in Blog!Fields
  <2>1. \A n \in 1..4 : n = 1 \/ n = 2 \/ n = 3 \/ n = 4
    OBVIOUS
  <2> QED
    BY <2>1, BlogNames
<1> QED
  BY <1>1, <1>2, BlogNames DEF DataAfter, Expected, Values

\* The run of a line starts with the topic.
LEMMA BlogInit ==
  ASSUME Blog!Init
  PROVE  BlogInv
<1>1. /\ steps = <<>> /\ status = "running" /\ failures = {} /\ result = None
      /\ transforms = <<FALSE, FALSE, FALSE, FALSE>>
      /\ data = [Blog!Empty EXCEPT !["topic"] = "about"]
  BY Zenon DEF Blog!Init, Blog!Line!Init
<1>2. Blog!Empty = [f \in Blog!Fields |-> Blank]
  BY Zenon DEF Blog!Empty, Blank
<1>3. DataAfter(data, 0, {})
  BY <1>1, <1>2, BlogNames DEF DataAfter, Expected, Values
<1>4. IsSeq(steps) /\ Len(steps) = 0
  BY <1>1, NothingYet
<1>5. Len(transforms) = 4
  BY <1>1
<1>6. None # "data"
  BY ApplicationsAssumption DEF Blog!BlogAssumption
<1> QED
  BY <1>1, <1>3, <1>4, <1>5, <1>6 DEF BlogInv

\* Each step of a run keeps that.
LEMMA BlogStep ==
  ASSUME BlogInv, Blog!Next
  PROVE  BlogInv'
<1>len. Len(steps) \in Nat
  BY LenProperties DEF BlogInv, IsSeq
<1>1. CASE Blog!StageAnswers
  <2>1. /\ status = "running" /\ Len(steps) + 1 <= 4
        /\ \E x : steps' = Append(steps, x)
        /\ UNCHANGED <<transforms, status, result, failures>>
        /\ data' = Blog!Handled(Len(steps) + 1, data)
    BY <1>1 DEF Blog!StageAnswers, Blog!Executing, Blog!Line!StepDone, BlogInv,
                Blog!Line!MoreSteps, Blog!Line!k
  <2>2. IsSeq(steps') /\ Len(steps') = Len(steps) + 1
    <3>1. PICK x : steps' = Append(steps, x)
      BY <2>1
    <3>2. IsSeq(steps)
      BY DEF BlogInv
    <3> QED
      BY <3>1, <3>2, OneMore
  <2>3. Len(steps) \in 0..3 /\ DataAfter(data, Len(steps), failures)
    BY <1>len, <2>1 DEF BlogInv
  <2>4. DataAfter(data', Len(steps'), failures')
    BY <2>1, <2>2, <2>3, StageWrites
  <2> QED
    BY <2>1, <2>2, <2>3, <2>4 DEF BlogInv
<1>2. CASE Blog!StageFails
  <2>1. /\ status = "running" /\ Len(steps) + 1 <= 4
        /\ \E x : steps' = Append(steps, x)
        /\ UNCHANGED <<transforms, status, result>>
        /\ data' = Blog!Empty /\ failures' = failures \cup {Len(steps) + 1}
    BY <1>2 DEF Blog!StageFails, Blog!Executing, Blog!Line!StepDone, BlogInv,
                Blog!Line!MoreSteps, Blog!Line!k
  <2>2. IsSeq(steps') /\ Len(steps') = Len(steps) + 1
    <3>1. PICK x : steps' = Append(steps, x)
      BY <2>1
    <3>2. IsSeq(steps)
      BY DEF BlogInv
    <3> QED
      BY <3>1, <3>2, OneMore
  <2>3. Len(steps) \in 0..3 /\ failures \in SUBSET (1..Len(steps))
    <3>1. Len(steps) \in 0..4 /\ DataAfter(data, Len(steps), failures)
      BY <2>1 DEF BlogInv
    <3>2. Len(steps) \in 0..3
      BY <2>1, <3>1
    <3> QED
      BY <3>1, <3>2 DEF DataAfter
  <2>4. DataAfter(data', Len(steps'), failures')
    BY <2>1, <2>2, <2>3, StageBlanks
  <2> QED
    BY <2>1, <2>2, <2>3, <2>4 DEF BlogInv
<1>3. CASE Blog!StageSilent
  <2>1. /\ status = "running" /\ status' = "failed"
        /\ \E x : steps' = Append(steps, x)
        /\ UNCHANGED <<transforms, result>>
    BY <1>3, Zenon
    DEF Blog!StageSilent, Blog!Executing, Blog!Line!RequestFails,
        Blog!Line!StepFails, Blog!Line!MoreSteps
  <2>2. IsSeq(steps')
    BY <2>1, OneMore DEF BlogInv
  <2> QED
    BY <2>1, <2>2 DEF BlogInv
<1>4. CASE Blog!Executed
  <2>1. /\ status = "running" /\ status' = "succeeded"
        /\ Len(steps) + 1 > Len(transforms)
        /\ UNCHANGED <<transforms, steps, data, failures, result>>
    BY <1>4 DEF Blog!Executed, Blog!Executing, Blog!Line!Finish, Blog!Line!k
  <2>2. /\ Len(steps) \in 0..4 /\ Len(transforms) = 4
        /\ DataAfter(data, Len(steps), failures)
    BY <2>1 DEF BlogInv
  <2>3. Len(steps) = 4
    <3>1. PICK n \in 0..4 : n = Len(steps)
      BY <2>2
    <3>2. n + 1 > 4
      BY <2>1, <2>2, <3>1
    <3> QED
      BY <3>1, <3>2
  <2> QED
    BY <2>1, <2>2, <2>3 DEF BlogInv
<1>5. CASE Blog!Report
  <2>1. /\ status # "running"
        /\ result' = IF status = "failed" THEN "error" ELSE "data"
        /\ UNCHANGED <<transforms, steps, status, data, failures>>
    BY <1>5 DEF Blog!Report, Blog!line
  <2> QED
    BY <2>1 DEF BlogInv
<1>6. CASE Blog!Connect \/ Blog!Close \/ Blog!Returned
  <2>1. /\ UNCHANGED <<transforms, steps, status, data, failures>>
        /\ result' \in {result, "error"}
    BY <1>6
    DEF Blog!Connect, Blog!Close, Blog!Returned, Blog!line, Blog!vars
  <2> QED
    BY <2>1 DEF BlogInv
<1> QED
  BY <1>1, <1>2, <1>3, <1>4, <1>5, <1>6 DEF Blog!Next, Blog!Step

\* What a run returns is what BlogPipeline promises.
LEMMA BlogIsTrue ==
  ASSUME BlogInv
  PROVE  Blog!OutputsSinceLastFailure
<1>1. SUFFICES ASSUME result = "data"
               PROVE  \A n \in 1..MaxSteps :
                        data[Blog!Writes[n]] =
                          IF failures = {} THEN "about"
                          ELSE IF \E m \in failures : n <= m
                               THEN Blank ELSE "stray"
  BY Zenon DEF Blog!OutputsSinceLastFailure, Blank
<1>2. DataAfter(data, 4, failures) /\ MaxSteps = 4
  BY <1>1, ApplicationsAssumption DEF BlogInv, Blog!BlogAssumption
<1>3. failures \subseteq 1..4 /\ \A n \in 1..4 : ~(n > 4)
  BY <1>2 DEF DataAfter
<1> QED
  BY <1>2, <1>3 DEF DataAfter, Expected

-----------------------------------------------------------------------------
(* Debate *)

\* What the participants say, message by message.
Speaker(n) == IF n > 4 THEN "moderator"
              ELSE IF n \in {1, 3} THEN "pro" ELSE "con"
Script(n) ==
  [speaker |-> Speaker(n), number |-> IF n > 4 THEN 2 ELSE IF n > 2 THEN 1 ELSE 0]

\* What has been said follows the script, and there is a message for each.
DebateInv ==
  /\ IsSeq(messages) /\ IsSeq(said)
  /\ Len(said) \in 0..5 /\ Len(messages) = Len(said)
  /\ \A n \in 1..Len(said) : said[n] = Script(n)
  /\ status = "succeeded" => Len(said) = 5

\* What the model counts with is the cardinality of the library's theorems.
LEMMA SameCardinality ==
  ASSUME NEW S
  PROVE  Club!Cardinality(S) = Cardinality(S)
BY Zenon DEF Club!Cardinality, Cardinality

\* Whose turn it is after m messages: that of message m + 1.
LEMMA TurnsOfDebate ==
  ASSUME NEW m \in 0..5
  PROVE  /\ m < 5 => Club!TurnManager(m) = Speaker(m + 1)
         /\ Club!TurnManager(m) = Blank <=> m = 5
<1>1. /\ Blank # "pro" /\ Blank # "con" /\ Blank # "moderator"
  BY Zenon DEF Blank
<1>2. Club!TurnManager(m) = IF m < 4 THEN Club!Debaters[(m % 2) + 1]
                            ELSE IF m = 4 THEN "moderator" ELSE Blank
  BY Zenon DEF Club!TurnManager, Blank
<1>3. Club!Debaters[1] = "pro" /\ Club!Debaters[2] = "con"
  BY DEF Club!Debaters
<1>4. m = 0 \/ m = 1 \/ m = 2 \/ m = 3 \/ m = 4 \/ m = 5
  OBVIOUS
<1> QED
  BY <1>1, <1>2, <1>3, <1>4 DEF Speaker

\* A side makes its arguments in turn.
LEMMA ArgumentsOfDebate ==
  ASSUME NEW s, Len(s) \in 0..3
  PROVE  Club!Argument(s) = IF Len(s) > 1 THEN 1 ELSE 0
<1> DEFINE h == Len(s) \div 2
<1>1. h = IF Len(s) > 1 THEN 1 ELSE 0
  <2>1. PICK m \in 0..3 : m = Len(s)
    OBVIOUS
  <2>2. m \div 2 = IF m > 1 THEN 1 ELSE 0
    OBVIOUS
  <2> QED
    BY <2>1, <2>2
<1>2. \A x \in {h, 1} : (\A y \in {h, 1} : x <= y) <=> x = h
  BY <1>1
<1>3. Club!Min({h, 1}) = CHOOSE x \in {h, 1} : \A y \in {h, 1} : x <= y
  BY Zenon DEF Club!Min
<1> HIDE DEF h
<1>4. Club!Min({h, 1}) = h
  BY <1>2, <1>3
<1> QED
  BY <1>1, <1>4 DEF Club!Argument, h

\* Each side has spoken twice when the moderator's turn comes.
LEMMA TwoArgumentsEach ==
  ASSUME NEW s, IsSeq(s), Len(s) \in {4, 5},
         \A n \in 1..Len(s) : s[n] = Script(n)
  PROVE  Club!Count("pro", s) = 2 /\ Club!Count("con", s) = 2
<1>1. DOMAIN s = 1..Len(s)
  BY LenProperties DEF IsSeq
<1>2. ASSUME NEW n \in 1..Len(s) PROVE s[n].speaker = Speaker(n)
  <2>1. s[n] = Script(n)
    OBVIOUS
  <2>2. Script(n).speaker = Speaker(n)
    BY DEF Script
  <2> QED
    BY <2>1, <2>2
<1>3. {n \in DOMAIN s : s[n].speaker = "pro"} = {1, 3}
  BY <1>1, <1>2 DEF Speaker
<1>4. {n \in DOMAIN s : s[n].speaker = "con"} = {2, 4}
  BY <1>1, <1>2 DEF Speaker
<1>5. ASSUME NEW x, NEW y, x # y PROVE Cardinality({x, y}) = 2
  <2>1. IsFiniteSet({x}) /\ Cardinality({x}) = 1
    BY FS_Singleton
  <2>2. y \notin {x} /\ {x, y} = {x} \cup {y}
    BY <1>5
  <2>3. Cardinality({x} \cup {y}) = Cardinality({x}) + 1
    BY <2>1, <2>2, FS_AddElement
  <2>4. Cardinality({x} \cup {y}) = 1 + 1
    BY <2>1, <2>2, <2>3
  <2>5. 1 + 1 = 2
    OBVIOUS
  <2> QED
    BY <2>2, <2>4, <2>5, Zenon
<1>6. Cardinality({1, 3}) = 2 /\ Cardinality({2, 4}) = 2
  <2>1. 1 # 3 /\ 2 # 4
    OBVIOUS
  <2> QED
    BY <1>5, <2>1
<1> QED
  BY <1>3, <1>4, <1>6, SameCardinality DEF Club!Count

\* Nothing has been said at first.
LEMMA DebateInit ==
  ASSUME Club!Init
  PROVE  DebateInv
<1>1. messages = <<>> /\ said = <<>> /\ status = "running"
  BY DEF Club!Init, Club!Chat!Init
<1> QED
  BY <1>1, NothingYet DEF DebateInv

\* Who speaks keeps to the script.
LEMMA DebateStep ==
  ASSUME DebateInv, Club!Next
  PROVE  DebateInv'
<1>1. CASE Club!Speak
  <2>1. /\ Len(messages) < 5 /\ \E x : messages' = Append(messages, x)
        /\ said' = Append(said, Club!Handler(Club!Turn, said))
        /\ status' = "running"
    BY <1>1, Zenon DEF Club!Speak, Club!Chat!Speak, Club!Chat!MoreRounds
  <2>2. PICK m \in 0..4 : m = Len(said) /\ m = Len(messages)
    BY <2>1 DEF DebateInv
  <2> DEFINE speech == Club!Handler(Club!Turn, said)
  <2>3. /\ IsSeq(said') /\ Len(said') = m + 1 /\ said'[m + 1] = speech
        /\ \A n \in 1..m : said'[n] = said[n]
    <3>1. PICK y : y = speech
      OBVIOUS
    <3>2. IsSeq(said) /\ said' = Append(said, y)
      BY <2>1, <3>1 DEF DebateInv
    <3>3. IsSeq(said') /\ Len(said') = Len(said) + 1
      BY <3>2, OneMore
    <3>4. said'[Len(said) + 1] = y
      BY <3>2, OneMore
    <3>5. \A n \in 1..Len(said) : said'[n] = said[n]
      BY <3>2, OneMore
    <3> HIDE DEF speech
    <3> QED
      BY <2>2, <3>1, <3>3, <3>4, <3>5
  <2>4. IsSeq(messages') /\ Len(messages') = m + 1
    <3>1. PICK y : messages' = Append(messages, y)
      BY <2>1
    <3>2. IsSeq(messages)
      BY DEF DebateInv
    <3> QED
      BY <2>2, <3>1, <3>2, OneMore
  <2>5. speech = Script(m + 1)
    <3>0. Club!Turn = Club!TurnManager(m)
      BY <2>2, Zenon DEF Club!Turn
    <3>1. Club!Turn = Speaker(m + 1)
      <4>1. m \in 0..5 /\ m < 5
        OBVIOUS
      <4> QED
        BY <3>0, <4>1, TurnsOfDebate
    <3>2. CASE m = 4
      <4>1. Club!Count("pro", said) = 2
        BY <2>2, <3>2, TwoArgumentsEach DEF DebateInv
      <4>2. Speaker(m + 1) = "moderator"
        BY <3>2 DEF Speaker
      <4> QED
        BY <3>1, <3>2, <4>1, <4>2 DEF Club!Handler, Script
    <3>3. CASE m < 4
      <4>1. Club!Argument(said) = IF m > 1 THEN 1 ELSE 0
        <5>1. Len(said) \in 0..3
          BY <2>2, <3>3
        <5>2. Club!Argument(said) = IF Len(said) > 1 THEN 1 ELSE 0
          BY <5>1, ArgumentsOfDebate
        <5> QED
          BY <2>2, <5>2
      <4>2. Speaker(m + 1) # "moderator"
        BY <3>3 DEF Speaker
      <4>3. m + 1 > 2 <=> m > 1
        OBVIOUS
      <4> QED
        BY <3>1, <3>3, <4>1, <4>2, <4>3 DEF Club!Handler, Script
    <3> QED
      BY <3>2, <3>3
  <2> HIDE DEF speech
  <2>6. ASSUME NEW n \in 1..m + 1 PROVE said'[n] = Script(n)
    <3>1. n = m + 1 \/ n \in 1..m
      OBVIOUS
    <3> QED
      BY <2>2, <2>3, <2>5, <3>1 DEF DebateInv
  <2> QED
    BY <2>1, <2>2, <2>3, <2>4, <2>6 DEF DebateInv
<1>2. CASE Club!Finish
  <2>1. /\ Club!Turn = Blank \/ ~Club!Chat!MoreRounds
        /\ status = "running"
        /\ UNCHANGED <<messages, said>>
    BY <1>2, Zenon DEF Club!Finish, Club!Chat!Finish, Blank
  <2>2. PICK m \in 0..5 : m = Len(said) /\ m = Len(messages)
    BY DEF DebateInv
  <2>3. m = 5
    <3>1. CASE Club!Turn = Blank
      BY <2>2, <3>1, TurnsOfDebate DEF Club!Turn
    <3>2. CASE ~Club!Chat!MoreRounds
      <4>1. ~(m < 5)
        BY <2>1, <2>2, <3>2 DEF Club!Chat!MoreRounds
      <4> QED
        BY <4>1
    <3> QED
      BY <2>1, <3>1, <3>2
  <2> QED
    BY <2>1, <2>2, <2>3 DEF DebateInv
<1>3. CASE Club!SpeakerFails
  <2>1. UNCHANGED <<messages, said>> /\ status' = "failed"
    BY <1>3, Zenon DEF Club!SpeakerFails, Club!Chat!Fail
  <2> QED
    BY <2>1 DEF DebateInv
<1>4. CASE Club!Connect \/ Club!Report \/ Club!Returned
  <2>1. UNCHANGED <<messages, said, status>>
    BY <1>4
    DEF Club!Connect, Club!Report, Club!Returned, Club!chat, Club!vars
  <2> QED
    BY <2>1 DEF DebateInv
<1> QED
  BY <1>1, <1>2, <1>3, <1>4 DEF Club!Next, Club!Step

\* What is printed of a debate is what Debate promises.
LEMMA DebateIsTrue ==
  ASSUME DebateInv
  PROVE  Club!SummaryIsTrue
<1>1. ASSUME NEW m \in 1..Len(said), NEW n \in 1..Len(said), said[m] = said[n]
      PROVE  m = n
  <2>1. m \in 1..5 /\ n \in 1..5
    BY DEF DebateInv
  <2>2. Script(m) = Script(n)
    BY <1>1 DEF DebateInv
  <2>3. /\ m = 1 \/ m = 2 \/ m = 3 \/ m = 4 \/ m = 5
        /\ n = 1 \/ n = 2 \/ n = 3 \/ n = 4 \/ n = 5
    BY <2>1
  <2>4. Script(m).speaker = Script(n).speaker /\ Script(m).number = Script(n).number
    BY <2>2
  <2> QED
    BY <2>3, <2>4 DEF Script, Speaker
<1>2. ASSUME Club!Printed
      PROVE  /\ Len(said) = Len(messages)
             /\ Club!Last(said).speaker = "moderator"
             /\ \A s \in {"pro", "con"} : Club!Count(s, said) = Club!Last(said).number
  <2>1. Len(said) = 5 /\ Len(messages) = 5
    BY <1>2 DEF DebateInv, Club!Printed
  <2>2. Club!Last(said) = Script(5)
    BY <2>1 DEF DebateInv, Club!Last
  <2>3. Script(5).speaker = "moderator" /\ Script(5).number = 2
    BY DEF Script, Speaker
  <2>4. Club!Count("pro", said) = 2 /\ Club!Count("con", said) = 2
    BY <2>1, TwoArgumentsEach DEF DebateInv
  <2> QED
    BY <2>1, <2>2, <2>3, <2>4
<1> QED
  BY <1>1, <1>2 DEF Club!SummaryIsTrue

-----------------------------------------------------------------------------
(* IntentRouter *)

\* The specialist for the words of the query.
Intent == Intents!ClassifyIntent(Intents!Queries[Intents!query])

\* Triage has been asked with the query.
Triaged ==
  /\ IsSeq(path) /\ IsSeq(requests)
  /\ Len(path) >= 1 /\ path[1].agent = "triage"
  /\ Len(requests) = Len(path) /\ requests[1][2] = 0

\* The specialist has been, with the context of triage's decision.
SpecialistAsked ==
  Len(path) = 2 /\ path[2].agent = Intent /\ requests[2][2] = 1

\* Where the router is in its two turns, and that the answers so far are right.
IntentsInv ==
  /\ IsSeq(answers)
  /\ Intents!AnsweredBySpecialist
  /\ status \in {"running", "succeeded", "failed"}
  /\ at \in {"loop", "specialist", "returned"}
  /\ status = "running" <=> at # "returned"
  /\ at = "loop" =>
       /\ i = 0 /\ current = 0
       /\ IsSeq(path) /\ Len(path) = 0 /\ IsSeq(requests) /\ Len(requests) = 0
  /\ at = "specialist" =>
       Triaged /\ Len(path) = 1 /\ target = Intent /\ current = 1
  /\ status = "succeeded" => Triaged /\ SpecialistAsked /\ output = 2

\* Nothing has been asked at first.
LEMMA IntentsInit ==
  ASSUME Intents!Init
  PROVE  IntentsInv
<1>1. /\ answers = <<>> /\ at = "loop" /\ status = "running" /\ i = 0
      /\ current = 0 /\ path = <<>> /\ requests = <<>>
  BY Zenon DEF Intents!Init, Intents!Router!Init
<1>2. DOMAIN answers = {}
  BY <1>1
<1> QED
  BY <1>1, <1>2, NothingYet DEF IntentsInv, Intents!AnsweredBySpecialist

\* What is asked is the last of what has been.
LEMMA Asked ==
  ASSUME IsSeq(path), IsSeq(requests), Len(requests) = Len(path),
         NEW who, NEW route, NEW context, Intents!Router!Ask(who, route, context)
  PROVE  /\ IsSeq(path') /\ IsSeq(requests') /\ Len(path) \in Nat
         /\ Len(path') = Len(path) + 1 /\ Len(requests') = Len(path')
         /\ path'[Len(path) + 1] =
              [agent |-> who, route |-> route, context |-> context]
         /\ requests'[Len(path) + 1][2] = current
         /\ \A n \in 1..Len(path) :
              path'[n] = path[n] /\ requests'[n] = requests[n]
<1>1. PICK to : requests' = Append(requests, <<to, current>>)
  BY Zenon DEF Intents!Router!Ask
<1>2. PICK r : r = <<to, current>>
  OBVIOUS
<1>3. PICK p : p = [agent |-> who, route |-> route, context |-> context]
  OBVIOUS
<1>4. requests' = Append(requests, r) /\ path' = Append(path, p)
  BY <1>1, <1>2, <1>3, Zenon DEF Intents!Router!Ask
<1>5. IsSeq(path') /\ Len(path') = Len(path) + 1 /\ Len(path) \in Nat
  BY <1>4, OneMore
<1>6. IsSeq(requests') /\ Len(requests') = Len(path) + 1
  BY <1>4, OneMore
<1>7. path'[Len(path) + 1] = p
  BY <1>4, OneMore
<1>8. requests'[Len(requests) + 1] = r
  BY <1>4, OneMore
<1>9. \A n \in 1..Len(path) : path'[n] = path[n]
  BY <1>4, OneMore
<1>10. \A n \in 1..Len(requests) : requests'[n] = requests[n]
  BY <1>4, OneMore
<1>11. r[2] = current
  BY <1>2
<1> QED
  BY <1>3, <1>5, <1>6, <1>7, <1>8, <1>9, <1>10, <1>11

\* The query is where the context of a decision on it comes from.
LEMMA OriginIsQuery ==
  ASSUME Triaged, Len(path) = 2, requests[2][2] = 1
  PROVE  Intents!Origin[1] = Intents!query
<1> DEFINE q == Intents!query
           Is(f) == f = [d \in 0..Len(requests) |->
                          IF d = 0 THEN q ELSE f[requests[d][2]]]
           same == [d \in 0..Len(requests) |-> q]
<1>1. Intents!Origin = CHOOSE f : Is(f)
  BY Zenon DEF Intents!Origin
<1>2. Len(requests) = 2 /\ requests[1][2] = 0
  BY DEF Triaged
<1>3. Is(same)
  <2> HIDE DEF q
  <2>1. ASSUME NEW d \in 0..2
        PROVE  q = IF d = 0 THEN q ELSE same[requests[d][2]]
    <3>1. d = 0 \/ d = 1 \/ d = 2
      OBVIOUS
    <3> QED
      BY <1>2, <3>1
  <2> QED
    BY <1>2, <2>1
<1>4. Is(Intents!Origin)
  <2> HIDE DEF Is, same
  <2> QED
    BY <1>1, <1>3
<1>5. ASSUME NEW f, Is(f) PROVE f[1] = q
  <2> HIDE DEF q
  <2>1. f[1] = f[requests[1][2]] /\ f[0] = q
    BY <1>2, <1>5
  <2> QED
    BY <1>2, <2>1
<1> QED
  BY <1>4, <1>5, Zenon

\* Nothing changes when none of this does.
LEMMA IntentsStay ==
  ASSUME IntentsInv,
         UNCHANGED <<at, i, target, current, path, status, output, requests,
                     answers>>
  PROVE  IntentsInv'
<1>1. Intent' = Intent
  BY Zenon DEF Intent, Intents!query
<1>2. Triaged' = Triaged /\ SpecialistAsked' = SpecialistAsked
  BY <1>1 DEF Triaged, SpecialistAsked
<1>3. Intents!AnsweredBySpecialist'
  BY DEF IntentsInv, Intents!AnsweredBySpecialist
<1> QED
  BY <1>1, <1>2, <1>3 DEF IntentsInv

\* Each step asks the right one, or prints what has been answered.
LEMMA IntentsStep ==
  ASSUME IntentsInv, Intents!Next
  PROVE  IntentsInv'
<1>1. CASE Intents!TriageRoutes
  <2>0. Intents!Router!FirstRoutes
    BY <1>1, Zenon DEF Intents!TriageRoutes
  <2>1. PICK x \in Intents!Router!Handoffs :
          /\ target' = x.route
          /\ Intents!Router!Ask(Intents!Router!First, x.route, x.context)
          /\ current' = IF x.context THEN Len(path') ELSE current
    BY <2>0, Zenon DEF Intents!Router!FirstRoutes
  <2>2. /\ at = "loop" /\ at' = "specialist" /\ status' = status
        /\ answers' = answers
        /\ Intents!Last(path').route = Intent /\ Intents!Last(path').context
    BY <1>1, Zenon
    DEF Intents!TriageRoutes, Intents!Router!FirstRoutes, Intents!Handling,
        Intents!Router!MoreHandoffs, Intent
  <2>3. /\ status = "running" /\ i = 0 /\ current = 0
        /\ IsSeq(path) /\ Len(path) = 0 /\ IsSeq(requests) /\ Len(requests) = 0
    BY <2>2 DEF IntentsInv
  <2>4. Intents!Router!First = "triage"
    BY <2>3, Zenon DEF Intents!Router!First
  <2>5. /\ IsSeq(path') /\ IsSeq(requests') /\ Len(path') = 1
        /\ Len(requests') = 1
        /\ path'[1] =
             [agent |-> "triage", route |-> x.route, context |-> x.context]
        /\ requests'[1][2] = 0
    BY <2>1, <2>3, <2>4, Asked
  <2>6. Intents!Last(path') = path'[1]
    BY <2>5, Zenon DEF Intents!Last
  <2>7. x.route = Intent /\ x.context
    BY <2>2, <2>5, <2>6
  <2>8. target' = Intent' /\ current' = 1
    <3>1. Intent' = Intent
      BY <2>2, Zenon DEF Intent, Intents!query
    <3>2. current' = Len(path')
      BY <2>1, <2>7, Zenon
    <3> QED
      BY <2>1, <2>5, <2>7, <3>1, <3>2
  <2>9. Triaged'
    BY <2>5 DEF Triaged
  <2> QED
    BY <2>2, <2>3, <2>5, <2>8, <2>9 DEF IntentsInv, Intents!AnsweredBySpecialist
<1>2. CASE Intents!SpecialistAnswers
  <2>1. /\ at = "specialist" /\ at' = "returned" /\ status' = "succeeded"
        /\ Intents!Router!Ask(target, "final", FALSE)
        /\ output' = Len(path') /\ answers' = answers
    BY <1>2, Zenon
    DEF Intents!SpecialistAnswers, Intents!Handling,
        Intents!Router!SpecialistFinal, Intents!Router!AskAndFinish,
        Intents!Router!Finish
  <2>2. /\ Triaged /\ Len(path) = 1 /\ target = Intent /\ current = 1
    BY <2>1 DEF IntentsInv
  <2>3. /\ IsSeq(path') /\ IsSeq(requests') /\ Len(path') = 2
        /\ Len(requests') = 2
        /\ path'[2] = [agent |-> target, route |-> "final", context |-> FALSE]
        /\ path'[1] = path[1] /\ requests'[1] = requests[1]
        /\ requests'[2][2] = 1
    <3>1. IsSeq(path) /\ IsSeq(requests) /\ Len(requests) = Len(path)
      BY <2>2 DEF Triaged
    <3>2. /\ IsSeq(path') /\ IsSeq(requests') /\ Len(path) \in Nat
          /\ Len(path') = Len(path) + 1 /\ Len(requests') = Len(path')
          /\ path'[Len(path) + 1] =
               [agent |-> target, route |-> "final", context |-> FALSE]
          /\ requests'[Len(path) + 1][2] = current
          /\ \A n \in 1..Len(path) :
               path'[n] = path[n] /\ requests'[n] = requests[n]
      BY <2>1, <3>1, Asked
    <3>3. Len(path) + 1 = 2 /\ 1 \in 1..Len(path)
      BY <2>2
    <3> QED
      BY <2>2, <3>2, <3>3
  <2>4. Intent' = Intent
    BY <2>1, Zenon DEF Intent, Intents!query
  <2>5. Triaged' /\ SpecialistAsked'
    BY <2>2, <2>3, <2>4 DEF Triaged, SpecialistAsked
  <2> QED
    BY <2>1, <2>3, <2>5 DEF IntentsInv, Intents!AnsweredBySpecialist
<1>3. CASE Intents!WorkerSilent
  <2>1. /\ at' = "returned" /\ status' = "failed" /\ answers' = answers
    BY <1>3, Zenon
    DEF Intents!WorkerSilent, Intents!Handling, Intents!Router!FirstFails,
        Intents!Router!SpecialistFails, Intents!Router!AskAndFail,
        Intents!Router!Finish
  <2> QED
    BY <2>1 DEF IntentsInv, Intents!AnsweredBySpecialist
<1>4. CASE Intents!NextQuery
  <2>1. /\ status # "running" /\ at' = "loop" /\ i' = 0 /\ current' = 0
        /\ path' = <<>> /\ requests' = <<>> /\ status' = "running"
    BY <1>4, Zenon DEF Intents!NextQuery
  <2>2. PICK a :
          /\ answers' = Append(answers, a)
          /\ a = IF status = "failed" THEN [route |-> <<>>, query |-> 0]
                 ELSE [route |-> [n \in 1..Len(path) |-> path[n].agent],
                       query |-> Intents!Origin[requests[output][2]]]
    BY <1>4, Zenon DEF Intents!NextQuery, Intents!Show
  <2>3. IsSeq(answers)
    BY DEF IntentsInv
  <2>4. IsSeq(answers') /\ Len(answers) \in Nat /\ Len(answers') = Len(answers) + 1
    <3>1. answers' = Append(answers, a)
      BY <2>2
    <3>2. IsSeq(answers') /\ Len(answers') = Len(answers) + 1
      BY <2>3, <3>1, OneMore
    <3>3. Len(answers) \in Nat
      BY <2>3, <3>1, OneMore
    <3> QED
      BY <3>2, <3>3
  <2>5. answers'[Len(answers) + 1] = a
    BY <2>2, <2>3, OneMore
  <2>6. \A n \in 1..Len(answers) : answers'[n] = answers[n]
    BY <2>2, <2>3, OneMore
  <2>7. /\ DOMAIN answers = 1..Len(answers)
        /\ DOMAIN answers' = 1..Len(answers) + 1
    BY <2>3, <2>4, LenProperties DEF IsSeq
  <2>8. \/ a.route = <<>>
        \/ a = [route |-> <<"triage", Intent>>, query |-> Len(answers) + 1]
    <3>1. CASE status = "failed"
      BY <2>2, <3>1
    <3>2. CASE status = "succeeded"
      <4>1. Triaged /\ SpecialistAsked /\ output = 2
        BY <3>2 DEF IntentsInv
      <4>2. Intents!Origin[requests[output][2]] = Intents!query
        BY <4>1, OriginIsQuery DEF SpecialistAsked
      <4>3. [n \in 1..Len(path) |-> path[n].agent] = <<"triage", Intent>>
        <5>1. Len(path) = 2 /\ path[1].agent = "triage" /\ path[2].agent = Intent
          BY <4>1 DEF Triaged, SpecialistAsked
        <5>2. \A n \in 1..2 : n = 1 \/ n = 2
          OBVIOUS
        <5> QED
          BY <5>1, <5>2
      <4>4. Intents!query = Len(answers) + 1
        BY Zenon DEF Intents!query
      <4> QED
        BY <2>2, <3>2, <4>2, <4>3, <4>4
    <3> QED
      BY <2>1, <3>1, <3>2 DEF IntentsInv
  <2>9. Intents!AnsweredBySpecialist'
    <3>1. ASSUME NEW n \in DOMAIN answers'
          PROVE  \/ answers'[n].route = <<>>
                 \/ answers'[n] =
                      [route |-> <<"triage",
                                   Intents!ClassifyIntent(Intents!Queries[n])>>,
                       query |-> n]
      <4>1. CASE n = Len(answers) + 1
        <5>1. Intent = Intents!ClassifyIntent(Intents!Queries[n])
          BY <4>1, Zenon DEF Intent, Intents!query
        <5> QED
          BY <2>5, <2>8, <4>1, <5>1
      <4>2. CASE n # Len(answers) + 1
        <5>1. n \in 1..Len(answers)
          BY <2>4, <2>7, <4>2
        <5> QED
          BY <2>6, <2>7, <5>1 DEF IntentsInv, Intents!AnsweredBySpecialist
      <4> QED
        BY <4>1, <4>2
    <3> QED
      BY <3>1, Zenon DEF Intents!AnsweredBySpecialist
  <2> QED
    BY <2>1, <2>4, <2>9, NothingYet DEF IntentsInv
<1>5. CASE Intents!Connect \/ Intents!Finish \/ Intents!Returned
  <2>1. UNCHANGED <<at, i, target, current, path, status, output, requests,
                    answers>>
    BY <1>5
    DEF Intents!Connect, Intents!Finish, Intents!Returned, Intents!router,
        Intents!vars
  <2> QED
    BY <2>1, IntentsStay
<1> QED
  BY <1>1, <1>2, <1>3, <1>4, <1>5 DEF Intents!Next, Intents!Step

-----------------------------------------------------------------------------
(* Whichever program runs *)

\* The invariant of the program that runs.
PrintInv ==
  /\ what \in {"loop", "blog", "debate", "intents"}
  /\ what = "blog" => BlogInv
  /\ what = "debate" => DebateInv
  /\ what = "intents" => IntentsInv

\* What the three programs that ask several agents print of their work is so,
\* whichever of the agents fail to answer: examples/pipeline prints what the
\* stages since the last failure have written (internal/pipeline/pipeline.go
\* 73-95), group-chat a summary that counts right (main.go 168-185), and
\* handoff-router for each query the answer of the right specialist to that
\* very query (main.go 117-133).
THEOREM WhatIsPrintedIsTrue == Spec => []PrintedIsTrue
<1>1. Init => PrintInv
  BY BlogInit, DebateInit, IntentsInit DEF Init, PrintInv
<1>2. PrintInv /\ [Next]_vars => PrintInv'
  <2> SUFFICES ASSUME PrintInv, [Next]_vars PROVE PrintInv'
    OBVIOUS
  <2>0. what' = what
    BY DEF Next, vars
  <2>1. CASE what = "loop"
    BY <2>0, <2>1 DEF PrintInv
  <2>2. CASE what = "blog" /\ Blog!Next
    BY <2>0, <2>2, BlogStep DEF PrintInv
  <2>3. CASE what = "debate" /\ Club!Next
    BY <2>0, <2>3, DebateStep DEF PrintInv
  <2>4. CASE what = "intents" /\ Intents!Next
    BY <2>0, <2>4, IntentsStep DEF PrintInv
  <2>5. CASE UNCHANGED vars
    <3>1. /\ UNCHANGED <<transforms, steps, data, failures, result, status>>
          /\ UNCHANGED <<messages, said>>
          /\ UNCHANGED <<at, i, target, current, path, output, requests, answers>>
      BY <2>5 DEF vars, blogOnly, debateOnly, routerOnly
    <3>2. BlogInv => BlogInv'
      BY <3>1 DEF BlogInv
    <3>3. DebateInv => DebateInv'
      BY <3>1 DEF DebateInv
    <3>4. IntentsInv => IntentsInv'
      BY <3>1, IntentsStay
    <3> QED
      BY <2>0, <3>2, <3>3, <3>4 DEF PrintInv
  <2> QED
    BY <2>1, <2>2, <2>3, <2>4, <2>5 DEF Next, PrintInv
<1>3. PrintInv => PrintedIsTrue
  <2>1. IntentsInv => Intents!AnsweredBySpecialist
    BY DEF IntentsInv
  <2> QED
    BY <2>1, BlogIsTrue, DebateIsTrue DEF PrintInv, PrintedIsTrue
<1> QED
  BY <1>1, <1>2, <1>3, PTL DEF Spec
=============================================================================
