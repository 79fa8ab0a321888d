--------------------------- MODULE FanOutProofs ---------------------------
(***************************************************************************)
(* Theorems about FanOut for any number of agents and any names.           *)
(***************************************************************************)
EXTENDS FanOut, FiniteSetTheorems, TLAPS

\* Agent was called with a different name each time.
DistinctNames == \A a, b \in Agents : Name[a] = Name[b] => a = b

-----------------------------------------------------------------------------
(* The inductive invariant *)

\* A goroutine files its answer after it has one.
Answered ==
  \A a \in Agents : worker[a] \in {"answered", "done"} => answer[a] \in Answers

\* One that is done has filed it, or somebody of the same name has since.
DoneIsFiled ==
  \A a \in Agents : worker[a] = "done" =>
    \E b \in Agents : Name[b] = Name[a] /\ results[Name[a]] = b

\* The aggregator runs when all are done.
OutcomeIsLast == outcome # None => Waited

\* What it returned is what it would return still.
OutcomeStands == outcome # None => outcome \in Aggregated

IInv == TypeOK /\ Answered /\ DoneIsFiled /\ OutcomeIsLast /\ OutcomeStands

\* Whatever aggregator is used returns an output or an error.
LEMMA AggregatedType ==
  ASSUME TypeOK, Answered, Waited, NEW x \in Aggregated
  PROVE  x \in [ok : {TRUE}, output : SUBSET (Agents \X Answers)]
               \cup [ok : {FALSE}, output : {{}}]
<1> DEFINE Outcomes == [ok : {TRUE}, output : SUBSET (Agents \X Answers)]
                       \cup [ok : {FALSE}, output : {{}}]
<1>1. Bad \in Outcomes
  BY DEF Bad
<1>2. Good(Combined) \in Outcomes
  <2>1. Combined \subseteq Agents \X Answers
    BY DEF Combined, Embedded, Succeeded, Failed, Filed, Answers
  <2> QED
    BY <2>1 DEF Good
<1>3. \A a \in Succeeded : Good({<<a, answer[a]>>}) \in Outcomes
  <2> SUFFICES ASSUME NEW a \in Succeeded
               PROVE  Good({<<a, answer[a]>>}) \in Outcomes
    OBVIOUS
  <2>1. a \in Agents /\ answer[a] \in Answers
    BY DEF Succeeded, Filed, Failed, Waited, Answered
  <2> QED
    BY <2>1 DEF Good
<1>4. CASE aggregator = "allMustSucceed"
  BY <1>1, <1>2, <1>4 DEF Aggregated, AllMustSucceed
<1>5. CASE aggregator = "firstSuccess"
  <2>1. x \in FirstSuccess
    BY <1>5 DEF Aggregated
  <2> QED
    BY <1>1, <1>3, <2>1 DEF FirstSuccess
<1>6. CASE aggregator = "collectAll"
  BY <1>2, <1>6 DEF Aggregated, CollectAll
<1>7. CASE aggregator = "quorum"
  BY <1>1, <1>2, <1>7 DEF Aggregated, RequireQuorum
<1> QED
  BY <1>4, <1>5, <1>6, <1>7 DEF TypeOK, Aggregations

\* The invariant holds before any goroutine has started.
LEMMA InitInv == Init => IInv
<1> SUFFICES ASSUME Init PROVE IInv
  OBVIOUS
<1> QED
  BY DEF Init, IInv, TypeOK, Answered, DoneIsFiled, OutcomeIsLast,
         OutcomeStands

\* Before the outcome there is nothing to preserve but the goroutines' part.
LEMMA WorkersKeepInv ==
  ASSUME IInv, NEW a \in Agents, Spawn(a) \/ Answer(a) \/ Record(a)
  PROVE  IInv'
<1> USE DEF TypeOK, Answered, DoneIsFiled, OutcomeIsLast, OutcomeStands, IInv
<1>1. worker[a] # "done" /\ outcome = None
  BY DEF Spawn, Answer, Record, Waited
<1>2. CASE Spawn(a)
  BY <1>1, <1>2 DEF Spawn
<1>3. CASE Answer(a)
  BY <1>1, <1>3 DEF Answer
<1>4. CASE Record(a)
  <2>1. TypeOK'
    BY <1>1, <1>4 DEF Record, Names
  <2>2. Answered'
    BY <1>4 DEF Record
  <2>3. DoneIsFiled'
    <3> SUFFICES ASSUME NEW b \in Agents, worker'[b] = "done"
                 PROVE  \E d \in Agents : Name[d] = Name[b]
                                          /\ results'[Name[b]] = d
      OBVIOUS
    <3>1. Name[a] \in Names /\ Name[b] \in Names
      BY DEF Names
    <3>2. CASE Name[b] = Name[a]
      BY <1>4, <3>1, <3>2 DEF Record
    <3>3. CASE Name[b] # Name[a]
      BY <1>4, <3>1, <3>3 DEF Record
    <3> QED
      BY <3>2, <3>3
  <2>4. OutcomeIsLast' /\ OutcomeStands'
    BY <1>1, <1>4 DEF Record
  <2> QED
    BY <2>1, <2>2, <2>3, <2>4
<1> QED
  BY <1>2, <1>3, <1>4

\* What the aggregator looks at does not depend on the outcome.
LEMMA SameResultsSameAggregate ==
  ASSUME UNCHANGED <<aggregator, answer, results>>
  PROVE  Aggregated' = Aggregated
<1>1. Filed' = Filed
  BY DEF Filed
<1>2. Failed' = Failed /\ Succeeded' = Succeeded
  BY <1>1 DEF Failed, Succeeded
<1>3. Combined' = Combined
  BY <1>2 DEF Combined, Embedded
<1>4. AllMustSucceed' = AllMustSucceed /\ CollectAll' = CollectAll
  BY <1>2, <1>3 DEF AllMustSucceed, CollectAll, Good, Bad
<1>5. RequireQuorum' = RequireQuorum
  BY <1>2, <1>3 DEF RequireQuorum, Good, Bad
<1>6. FirstSuccess' = FirstSuccess
  <2> DEFINE some == {a \in Succeeded : answer[a] # "empty"}
  <2>1. some' = some
    BY <1>2
  <2>2. {Good({<<a, answer[a]>>}) : a \in some}'
          = {Good({<<a, answer[a]>>}) : a \in some}
    BY <2>1 DEF Good
  <2> QED
    BY <2>1, <2>2 DEF FirstSuccess, Bad
<1> QED
  BY <1>4, <1>5, <1>6 DEF Aggregated

\* The aggregator runs when all are done, and returns what it would return.
LEMMA AggregateKeepsInv ==
  ASSUME IInv, Aggregate
  PROVE  IInv'
<1>1. UNCHANGED <<aggregator, worker, answer, results>>
  BY DEF Aggregate
<1>2. Aggregated' = Aggregated
  BY <1>1, SameResultsSameAggregate
<1>3. outcome' \in Aggregated /\ Waited
  BY DEF Aggregate
<1>4. TypeOK'
  BY <1>1, <1>3, AggregatedType DEF IInv, TypeOK
<1> QED
  BY <1>1, <1>2, <1>3, <1>4
  DEF IInv, Answered, DoneIsFiled, OutcomeIsLast, OutcomeStands, Waited

\* Every step keeps the invariant.
LEMMA NextKeepsInv == IInv /\ [Next]_vars => IInv'
<1> SUFFICES ASSUME IInv, [Next]_vars PROVE IInv'
  OBVIOUS
<1>1. CASE \E a \in Agents : Spawn(a) \/ Answer(a) \/ Record(a)
  BY <1>1, WorkersKeepInv
<1>2. CASE Aggregate
  BY <1>2, AggregateKeepsInv
<1>3. CASE Returned \/ UNCHANGED vars
  <2>1. UNCHANGED vars
    BY <1>3 DEF Returned
  <2>2. Aggregated' = Aggregated
    BY <2>1, SameResultsSameAggregate DEF vars
  <2> QED
    BY <2>1, <2>2 DEF vars, IInv, TypeOK, Answered, DoneIsFiled,
                      OutcomeIsLast, OutcomeStands, Waited
<1> QED
  BY <1>1, <1>2, <1>3 DEF Next

\* So it always holds.
LEMMA Invariant == Spec => []IInv
  BY InitInv, NextKeepsInv, PTL DEF Spec

-----------------------------------------------------------------------------
(* Theorems *)

\* Type correctness, and an error never comes with an output.
THEOREM TypeCorrect == Spec => []TypeOK
<1>1. IInv => TypeOK
  BY DEF IInv
<1> QED
  BY <1>1, Invariant, PTL

\* The outcome is computed from an answer for every name, whatever the order
\* in which the goroutines run.
THEOREM EveryoneIsCounted == Spec => []EveryoneCounted
<1>1. IInv => EveryoneCounted
  <2> SUFFICES ASSUME IInv, Done, NEW n \in Names
               PROVE  results[n] # None
    BY DEF EveryoneCounted
  <2>1. PICK a \in Agents : Name[a] = n
    BY DEF Names
  <2>2. worker[a] = "done"
    BY DEF IInv, OutcomeIsLast, Done, Waited
  <2> QED
    BY <2>1, <2>2, FanOutAssumption DEF IInv, DoneIsFiled
<1> QED
  BY <1>1, Invariant, PTL

\* No goroutine writes to the maps once the caller has them.
THEOREM ResultsAreFrozen == Spec => ResultsFrozen
<1>1. IInv /\ [Next]_vars => [Done => UNCHANGED <<results, outcome>>]_vars
  <2> SUFFICES ASSUME IInv, Next, Done
               PROVE  UNCHANGED <<results, outcome>>
    OBVIOUS
  <2>1. \A a \in Agents : worker[a] = "done"
    BY DEF IInv, OutcomeIsLast, Done, Waited
  <2> QED
    BY <2>1 DEF Next, Spawn, Answer, Record, Aggregate, Returned, Done, vars
<1> QED
  BY <1>1, Invariant, PTL DEF Spec, ResultsFrozen

\* With distinct names everybody's answer is in the map the aggregator sees.
LEMMA EveryoneFiled ==
  ASSUME DistinctNames, IInv, Done
  PROVE  Filed = Agents /\ outcome \in Aggregated
<1>1. \A a \in Agents : worker[a] = "done"
  BY DEF IInv, OutcomeIsLast, Done, Waited
<1>2. \A a \in Agents : results[Name[a]] = a
  BY <1>1 DEF IInv, DoneIsFiled, DistinctNames
<1> QED
  BY <1>2 DEF Filed, IInv, OutcomeStands, Done

\* AllMustSucceed keeps its word when the agents' names are distinct (the configuration
\* MCFanOut_shared_all shows that they must be).
THEOREM AllMustSucceedHolds ==
  ASSUME DistinctNames
  PROVE  Spec => []AllSucceeded
<1>1. IInv => AllSucceeded
  <2> SUFFICES ASSUME IInv, Done, aggregator = "allMustSucceed"
               PROVE  outcome.ok <=> Errors = {}
    BY DEF AllSucceeded
  <2>1. Failed = Errors
    BY EveryoneFiled DEF Failed, Errors
  <2>2. outcome = IF Failed = {} THEN Good(Combined) ELSE Bad
    BY EveryoneFiled DEF Aggregated, AllMustSucceed
  <2> QED
    BY <2>1, <2>2 DEF Good, Bad
<1> QED
  BY <1>1, Invariant, PTL

\* So does RequireQuorum, for every n.
THEOREM RequireQuorumHolds ==
  ASSUME DistinctNames
  PROVE  Spec => []QuorumReached
<1>1. IInv => QuorumReached
  <2> SUFFICES ASSUME IInv, Done, aggregator = "quorum"
               PROVE  outcome.ok <=> Cardinality(Agents \ Errors) >= Quorum
    BY DEF QuorumReached
  <2>1. Succeeded = Agents \ Errors
    BY EveryoneFiled DEF Succeeded, Failed, Errors
  <2>2. outcome = IF Cardinality(Succeeded) < Quorum THEN Bad
                                                      ELSE Good(Combined)
    BY EveryoneFiled DEF Aggregated, RequireQuorum
  <2>3. Cardinality(Agents \ Errors) \in Nat
    BY FanOutAssumption, FS_CardinalityType, FS_Difference
  <2> QED
    BY <2>1, <2>2, <2>3, FanOutAssumption DEF Good, Bad
<1> QED
  BY <1>1, Invariant, PTL

=============================================================================
