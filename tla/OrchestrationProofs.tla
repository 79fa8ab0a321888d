------------------------ MODULE OrchestrationProofs ------------------------
(***************************************************************************)
(* Theorems about the executors that take turns, for any number of routes, *)
(* handoffs, steps, participants, rounds and tool calls.                   *)
(***************************************************************************)
EXTENDS Orchestration, Integers, FiniteSetTheorems, SequenceTheorems, TLAPS

-----------------------------------------------------------------------------
(* Sequences *)

\* What Append does, for a sequence over any set.
LEMMA Appended ==
  ASSUME NEW S, NEW s \in Seq(S), NEW x \in S, NEW t, t = Append(s, x)
  PROVE  /\ t \in Seq(S)
         /\ Len(s) \in Nat /\ Len(t) = Len(s) + 1
         /\ t[Len(s) + 1] = x
         /\ \A n \in 1..Len(s) : t[n] = s[n]
BY AppendProperties, LenProperties

\* A function on the first numbers is a sequence.
LEMMA FunctionIsSeq ==
  ASSUME NEW S, NEW m \in Nat, NEW f \in [1..m -> S]
  PROVE  f \in Seq(S) /\ Len(f) = m
<1>1. f \in UNION {[1..n -> S] : n \in Nat}
  OBVIOUS
<1>2. f \in Seq(S)
  BY <1>1, SeqDef
<1>3. Len(f) \in Nat /\ 1..Len(f) = 1..m
  BY <1>2, LenProperties
<1> QED
  BY <1>2, <1>3

\* A sequence given as a function grows by its value at the next index.
LEMMA AppendToFunction ==
  ASSUME NEW m \in Nat, NEW f, NEW g,
         DOMAIN f = 1..m, f = [j \in DOMAIN f |-> f[j]],
         DOMAIN g = 1..m + 1, g = [j \in DOMAIN g |-> g[j]],
         \A j \in 1..m : g[j] = f[j]
  PROVE  g = Append(f, g[m + 1])
<1> DEFINE S == {g[j] : j \in 1..m + 1}
           x == g[m + 1]
           a == Append(f, x)
<1>1. f \in [1..m -> S] /\ g \in [1..m + 1 -> S] /\ x \in S
  OBVIOUS
<1> HIDE DEF S, x
<1>2. f \in Seq(S) /\ g \in Seq(S)
  BY <1>1, FunctionIsSeq
<1>3. Len(f) = m /\ Len(g) = m + 1
  BY <1>2, LenProperties
<1>4. a \in Seq(S) /\ Len(a) = m + 1 /\ a[m + 1] = x
      /\ \A n \in 1..m : a[n] = f[n]
  BY <1>1, <1>2, <1>3, Appended
<1>5. \A n \in 1..m + 1 : a[n] = g[n]
  <2>1. \A n \in 1..m + 1 : n \in 1..m \/ n = m + 1
    OBVIOUS
  <2> QED
    BY <1>4, <2>1 DEF x
<1>6. a = g
  BY <1>2, <1>3, <1>4, <1>5, SeqEqual
<1> QED
  BY <1>6 DEF x

-----------------------------------------------------------------------------
(* HandoffRouter *)

\* What a request may be: a subject and the data it carries.
Sendable == (Routes \cup {"triage", "fallback", ""}) \X Nat

\* What the trace makes of an answer.
Entries == Router!RouteNames \cup {"fallback", "final", "error", ""}

\* Step n + 1 follows from step n.
Follows(n) ==
  /\ path[n + 1].agent = path[n].route
  /\ requests[n + 1][1] = Router!Subject(path[n].route)
  /\ path[n].route # "fallback" => Router!ContextReaches(n)

\* The agent asked next is the one named last, with the data that came with it.
Named(agent) ==
  /\ path[Len(path)].route = agent
  /\ agent # "fallback" /\ path[Len(path)].context => current = Len(path)

RouterInv ==
  /\ path \in Seq(Router!PathSteps)
  /\ requests \in Seq(Sendable)
  /\ Len(requests) = Len(path)
  /\ current \in Nat /\ i \in Nat /\ i <= MaxHandoffs
  /\ \A n \in 1..Len(path) - 1 : Follows(n)
  /\ at \in {"loop", "specialist", "fallback", "returned"}
  /\ at = "loop" =>
       /\ Len(path) = 2 * i
       /\ i > 0 => \E agent \in Router!RouteNames : Named(agent)
  /\ at = "specialist" =>
       /\ Len(path) = 2 * i + 1 /\ i < MaxHandoffs
       /\ target \in Routes /\ Named(target)
  /\ at = "fallback" =>
       Len(path) = 2 * i + 1 /\ i < MaxHandoffs /\ Named("fallback")
  /\ (at = "returned") <=> (status # "running")
  /\ status = "succeeded" =>
       output = Len(path) /\ path[Len(path)].route # "error"

\* A request that follows from the last step keeps the chain, and is a turn.
LEMMA AskFollows ==
  ASSUME RouterInv, NEW agent \in Router!RouteNames \cup {"triage", "fallback"},
         NEW route \in Entries,
         NEW context \in BOOLEAN, Router!Ask(agent, route, context),
         Len(path) > 0 => Named(agent)
  PROVE  /\ path' \in Seq(Router!PathSteps)
         /\ requests' \in Seq(Sendable)
         /\ Len(path') = Len(path) + 1 /\ Len(requests') = Len(path')
         /\ path'[Len(path')].route = route
         /\ path'[Len(path')].context = context
         /\ \A n \in 1..Len(path') - 1 : Follows(n)'
         /\ Router!Turns' =
              Append(Router!Turns, IF route = "error" THEN "error" ELSE "ok")
<1> DEFINE step == [agent |-> agent, route |-> route, context |-> context]
           request == <<Router!Subject(agent), current>>
<1>1. step \in Router!PathSteps
  BY DEF Router!PathSteps, Entries
<1>2. step.agent = agent /\ step.route = route /\ step.context = context
  OBVIOUS
<1>3. request \in Sendable
  BY DEF Router!Subject, RouterInv, Sendable
<1>4. request[1] = Router!Subject(agent) /\ request[2] = current
  OBVIOUS
<1>5. /\ path' = Append(path, step) /\ requests' = Append(requests, request)
      /\ path \in Seq(Router!PathSteps) /\ requests \in Seq(Sendable)
      /\ Len(requests) = Len(path)
  BY DEF Router!Ask, RouterInv
<1> HIDE DEF step, request
<1>6. /\ path' \in Seq(Router!PathSteps) /\ Len(path) \in Nat
      /\ Len(path') = Len(path) + 1 /\ path'[Len(path) + 1] = step
      /\ \A n \in 1..Len(path) : path'[n] = path[n]
  BY <1>1, <1>5, Appended
<1>7. /\ requests' \in Seq(Sendable)
      /\ Len(requests') = Len(path) + 1 /\ requests'[Len(path) + 1] = request
      /\ \A n \in 1..Len(path) : requests'[n] = requests[n]
  BY <1>3, <1>5, Appended
<1>8. ASSUME NEW n \in 1..Len(path') - 1 PROVE Follows(n)'
  <2>1. n \in Nat /\ (n = Len(path) \/ n \in 1..Len(path) - 1)
    BY <1>6
  <2>2. CASE n = Len(path)
    <3>1. Named(agent)
      BY <1>6, <2>1, <2>2
    <3>2. /\ path'[n] = path[n] /\ path'[n + 1] = step
          /\ requests'[n + 1] = request
      BY <1>6, <1>7, <2>2
    <3> QED
      BY <1>2, <1>4, <2>2, <3>1, <3>2
      DEF Follows, Named, Router!ContextReaches
  <2>3. CASE n \in 1..Len(path) - 1
    <3>1. Follows(n)
      BY <2>3 DEF RouterInv
    <3>2. /\ path'[n] = path[n] /\ path'[n + 1] = path[n + 1]
          /\ requests'[n + 1] = requests[n + 1]
      BY <1>6, <1>7, <2>3
    <3> QED
      BY <3>1, <3>2 DEF Follows, Router!ContextReaches
  <2> QED
    BY <2>1, <2>2, <2>3
<1>9. Router!Turns' =
        Append(Router!Turns, IF route = "error" THEN "error" ELSE "ok")
  <2> DEFINE f == Router!Turns
             g == Router!Turns'
             m == Len(path)
  <2>1. /\ f = [j \in 1..m |-> IF path[j].route = "error" THEN "error" ELSE "ok"]
        /\ g = [j \in 1..m + 1 |-> IF path'[j].route = "error" THEN "error" ELSE "ok"]
    BY <1>6 DEF Router!Turns
  <2> HIDE DEF f, g
  <2>2. /\ DOMAIN f = 1..m /\ f = [j \in DOMAIN f |-> f[j]]
        /\ DOMAIN g = 1..m + 1 /\ g = [j \in DOMAIN g |-> g[j]]
    BY <2>1
  <2>3. \A j \in 1..m : g[j] = f[j]
    BY <1>6, <2>1
  <2>4. m + 1 \in 1..m + 1
    BY <1>6
  <2>5. g[m + 1] = IF route = "error" THEN "error" ELSE "ok"
    BY <1>2, <1>6, <2>1, <2>4
  <2>6. g = Append(f, g[m + 1])
    BY <1>6, <2>2, <2>3, AppendToFunction
  <2> QED
    BY <2>5, <2>6 DEF f, g
<1>10. path'[Len(path')].route = route /\ path'[Len(path')].context = context
  BY <1>2, <1>6
<1> QED
  BY <1>6, <1>7, <1>8, <1>9, <1>10

\* What a step of a Conversation with these turns may do.
Takes(lim, before, after) ==
  /\ status = "running"
  /\ \/ /\ Len(before) < lim /\ after = Append(before, "ok")
        /\ status' \in {"running", "succeeded", "failed"}
     \/ /\ Len(before) < lim /\ after = Append(before, "error")
        /\ status' = "failed"
     \/ after = before /\ status' \in {"succeeded", "failed"}

\* An answer that hands the request on names a route or a stranger.
LEMMA HandoffsNameSomebody ==
  ASSUME NEW x \in Router!Handoffs
  PROVE  /\ x.route \in Router!RouteNames /\ x.route \in Entries
         /\ x.context \in BOOLEAN
<1>1. x \in Router!Decisions /\ ~Router!Final(x)
  BY DEF Router!Handoffs
<1>2. /\ x.route \in Router!RouteNames \cup {""} /\ x.context \in BOOLEAN
      /\ x.kind = "decision"
  BY <1>1, Zenon DEF Router!Decisions
<1>3. x.route # ""
  BY <1>1, <1>2, Zenon DEF Router!Final
<1> QED
  BY <1>2, <1>3, Zenon DEF Entries

\* A final answer leaves an entry in the trace that is no error.
LEMMA FinalIsNoError ==
  ASSUME Router!HandoffAssumption,
         NEW x \in Router!Answers, Router!Final(x),
         NEW route, route = IF Router!Handled(x) THEN x.route ELSE "final"
  PROVE  route \in Entries /\ route # "error"
<1>1. CASE Router!Handled(x)
  <2>1. x.kind = "decision"
    BY <1>1, Zenon DEF Router!Handled
  <2>2. x \in Router!Decisions
    <3>1. x \in {[kind |-> "raw"]} \/ x \in Router!Decisions
      BY Zenon DEF Router!Answers
    <3>2. CASE x \in {[kind |-> "raw"]}
      <4>1. x.kind = "raw"
        BY <3>2
      <4> QED
        BY <2>1, <4>1
    <3> QED
      BY <3>1, <3>2
  <2>3. x.route \in Router!RouteNames \cup {""}
    BY <2>2, Zenon DEF Router!Decisions
  <2>4. "error" \notin Router!RouteNames /\ "error" # ""
    BY Zenon DEF Router!HandoffAssumption, Router!RouteNames
  <2> QED
    BY <1>1, <2>3, <2>4, Zenon DEF Entries
<1>2. CASE ~Router!Handled(x)
  BY <1>2, Zenon DEF Entries
<1> QED
  BY <1>1, <1>2

\* The turns are as many as the steps of the trace.
LEMMA TurnsOfPath ==
  ASSUME RouterInv
  PROVE  Len(Router!Turns) = Len(path) /\ Len(path) \in Nat
<1>1. Len(path) \in Nat
  BY LenProperties DEF RouterInv
<1>2. Router!Turns \in [1..Len(path) -> {"ok", "error"}]
  BY DEF Router!Turns
<1> QED
  BY <1>1, <1>2, FunctionIsSeq

\* A last request: it fails, or its answer is the output.
LEMMA LastRequest ==
  ASSUME RouterInv, at # "returned", Len(path) < 2 * MaxHandoffs,
         MaxHandoffs \in Nat,
         NEW agent \in Router!RouteNames \cup {"triage", "fallback"},
         NEW route \in Entries, NEW context \in BOOLEAN,
         Router!Ask(agent, route, context), Len(path) > 0 => Named(agent),
         \/ Router!Finish("failed", 0)
         \/ route # "error" /\ Router!Finish("succeeded", Len(path'))
  PROVE  RouterInv' /\ Takes(Router!Limit, Router!Turns, Router!Turns')
<1>1. /\ path' \in Seq(Router!PathSteps)
      /\ requests' \in Seq(Sendable)
      /\ Len(path') = Len(path) + 1 /\ Len(requests') = Len(path')
      /\ path'[Len(path')].route = route
      /\ \A n \in 1..Len(path') - 1 : Follows(n)'
  BY AskFollows
<1>2. Router!Turns' =
        Append(Router!Turns, IF route = "error" THEN "error" ELSE "ok")
  BY AskFollows
<1>3. /\ at' = "returned" /\ current' = current /\ i' = i
      /\ \/ status' = "failed"
         \/ status' = "succeeded" /\ output' = Len(path') /\ route # "error"
  BY DEF Router!Finish
<1>4. status = "running" /\ Len(Router!Turns) < Router!Limit
  BY TurnsOfPath DEF RouterInv, Router!Limit
<1>5. RouterInv'
  BY <1>1, <1>3 DEF RouterInv
<1>6. Takes(Router!Limit, Router!Turns, Router!Turns')
  BY <1>2, <1>3, <1>4 DEF Takes
<1> QED
  BY <1>5, <1>6

\* The router's invariant holds at first.
LEMMA RouterInvInit ==
  ASSUME Router!HandoffAssumption, Router!Init
  PROVE  RouterInv
<1>1. path \in Seq(Router!PathSteps) /\ Len(path) = 0
  BY EmptySeq, Zenon DEF Router!Init
<1>2. requests \in Seq(Sendable) /\ Len(requests) = 0
  BY EmptySeq, Zenon DEF Router!Init
<1>3. at = "loop" /\ i = 0 /\ current = 0 /\ status = "running"
  BY Zenon DEF Router!Init
<1>4. MaxHandoffs \in Nat
  BY Zenon DEF Router!HandoffAssumption
<1> QED
  BY <1>1, <1>2, <1>3, <1>4 DEF RouterInv

\* Each step of the router keeps its invariant and is one of a Conversation.
LEMMA RouterStep ==
  ASSUME Router!HandoffAssumption, RouterInv, Router!Step
  PROVE  RouterInv' /\ Takes(Router!Limit, Router!Turns, Router!Turns')
<1>0. MaxHandoffs \in Nat
  BY Zenon DEF Router!HandoffAssumption
<1>len. Len(path) \in Nat /\ Len(Router!Turns) = Len(path)
  BY TurnsOfPath
<1> DEFINE Agents == Router!RouteNames \cup {"triage", "fallback"}
<1>first. ASSUME Router!MoreHandoffs
          PROVE  /\ at = "loop" /\ i < MaxHandoffs /\ Len(path) = 2 * i
                 /\ Len(path) < 2 * MaxHandoffs /\ status = "running"
                 /\ Router!First \in Agents
                 /\ Len(path) > 0 => Named(Router!First)
  <2>1. /\ at = "loop" /\ i < MaxHandoffs /\ Len(path) = 2 * i
        /\ Len(path) < 2 * MaxHandoffs /\ status = "running" /\ i \in Nat
    BY <1>0, <1>first DEF Router!MoreHandoffs, RouterInv
  <2>2. CASE i = 0
    BY <2>1, <2>2 DEF Router!First
  <2>3. CASE i > 0
    <3>1. PICK agent \in Router!RouteNames : Named(agent)
      BY <2>1, <2>3 DEF RouterInv
    <3>2. Router!First = agent
      BY <2>3, <3>1 DEF Router!First, Named, Router!Last
    <3> QED
      BY <2>1, <3>1, <3>2
  <2> QED
    BY <2>1, <2>2, <2>3
<1>target. ASSUME at = "specialist"
           PROVE  /\ Len(path) = 2 * i + 1 /\ Len(path) < 2 * MaxHandoffs
                  /\ i < MaxHandoffs /\ i \in Nat /\ status = "running"
                  /\ target \in Agents /\ Named(target)
  BY <1>0, <1>target DEF RouterInv, Router!RouteNames
<1>last. ASSUME at = "fallback"
         PROVE  /\ Len(path) < 2 * MaxHandoffs /\ status = "running"
                /\ "fallback" \in Agents /\ Named("fallback")
  BY <1>0, <1>last DEF RouterInv
<1>error. "error" \in Entries /\ "final" \in Entries /\ "fallback" \in Entries
          /\ "final" # "error" /\ FALSE \in BOOLEAN
  BY Zenon DEF Entries
<1>1. CASE Router!FirstFails
  <2>1. /\ Router!MoreHandoffs /\ Router!Ask(Router!First, "error", FALSE)
        /\ Router!Finish("failed", 0)
    BY <1>1, Zenon DEF Router!FirstFails, Router!AskAndFail
  <2> QED
    BY <1>0, <1>first, <1>error, <2>1, LastRequest
<1>2. CASE Router!FirstFinal
  <2>1. PICK x \in Router!Answers :
          /\ Router!Final(x)
          /\ Router!AskAndFinish(Router!First,
               IF Router!Handled(x) THEN x.route ELSE "final")
    BY <1>2, Zenon DEF Router!FirstFinal
  <2> DEFINE route == IF Router!Handled(x) THEN x.route ELSE "final"
  <2>2. route \in Entries /\ route # "error"
    BY <2>1, FinalIsNoError
  <2>3. /\ Router!Ask(Router!First, route, FALSE)
        /\ Router!Finish("succeeded", Len(path'))
    BY <2>1, Zenon DEF Router!AskAndFinish
  <2>4. Router!MoreHandoffs
    BY <1>2, Zenon DEF Router!FirstFinal
  <2> HIDE DEF route
  <2> QED
    BY <1>0, <1>first, <1>error, <2>2, <2>3, <2>4, LastRequest
<1>3. CASE Router!FirstRoutes
  <2>1. PICK x \in Router!Handoffs :
          /\ x.route \in Routes
          /\ target' = x.route
          /\ Router!Ask(Router!First, x.route, x.context)
          /\ current' = IF x.context THEN Len(path') ELSE current
    BY <1>3, Zenon DEF Router!FirstRoutes
  <2>2. Router!MoreHandoffs /\ at' = "specialist" /\ i' = i /\ status' = status
    BY <1>3, Zenon DEF Router!FirstRoutes
  <2>3. x.route \in Entries /\ x.context \in BOOLEAN
    BY HandoffsNameSomebody
  <2>4. /\ at = "loop" /\ i < MaxHandoffs /\ Len(path) = 2 * i
        /\ Len(path) < 2 * MaxHandoffs /\ status = "running"
        /\ Router!First \in Agents
        /\ Len(path) > 0 => Named(Router!First)
    BY <1>first, <2>2
  <2>5. /\ path' \in Seq(Router!PathSteps)
        /\ requests' \in Seq(Sendable)
        /\ Len(path') = Len(path) + 1 /\ Len(requests') = Len(path')
        /\ path'[Len(path')].route = x.route
        /\ path'[Len(path')].context = x.context
        /\ \A n \in 1..Len(path') - 1 : Follows(n)'
        /\ Router!Turns' =
             Append(Router!Turns, IF x.route = "error" THEN "error" ELSE "ok")
    BY <2>1, <2>3, <2>4, AskFollows
  <2>6. x.route # "error"
    BY <2>1, Zenon DEF Router!HandoffAssumption
  <2>7. Named(target)' /\ current' \in Nat
    BY <1>len, <2>1, <2>3, <2>5 DEF Named, RouterInv
  <2>8. RouterInv'
    BY <1>len, <2>1, <2>2, <2>4, <2>5, <2>7 DEF RouterInv
  <2>9. Takes(Router!Limit, Router!Turns, Router!Turns')
    BY <1>len, <2>2, <2>4, <2>5, <2>6 DEF Takes, Router!Limit
  <2> QED
    BY <2>8, <2>9
<1>4. CASE Router!FirstUnknown
  <2>1. PICK x \in Router!Handoffs :
          IF fallback
          THEN /\ Router!Ask(Router!First, "fallback", x.context)
               /\ at' = "fallback"
               /\ UNCHANGED <<fallback, i, target, current, status, output>>
          ELSE /\ Router!Ask(Router!First, x.route, x.context)
               /\ Router!Finish("failed", 0)
    BY <1>4, Zenon DEF Router!FirstUnknown
  <2>2. Router!MoreHandoffs
    BY <1>4, Zenon DEF Router!FirstUnknown
  <2>3. x.route \in Entries /\ x.context \in BOOLEAN
    BY HandoffsNameSomebody
  <2>4. /\ at = "loop" /\ i < MaxHandoffs /\ Len(path) = 2 * i
        /\ Len(path) < 2 * MaxHandoffs /\ status = "running"
        /\ Router!First \in Agents
        /\ Len(path) > 0 => Named(Router!First)
    BY <1>first, <2>2
  <2>5. CASE fallback
    <3>1. /\ Router!Ask(Router!First, "fallback", x.context)
          /\ at' = "fallback" /\ i' = i /\ current' = current
          /\ status' = status
      BY <2>1, <2>5, Zenon
    <3>2. /\ path' \in Seq(Router!PathSteps)
          /\ requests' \in Seq(Sendable)
          /\ Len(path') = Len(path) + 1 /\ Len(requests') = Len(path')
          /\ path'[Len(path')].route = "fallback"
          /\ \A n \in 1..Len(path') - 1 : Follows(n)'
          /\ Router!Turns' = Append(Router!Turns,
               IF "fallback" = "error" THEN "error" ELSE "ok")
      BY <1>error, <2>3, <2>4, <3>1, AskFollows
    <3>3. Named("fallback")'
      BY <3>2 DEF Named
    <3>4. RouterInv'
      BY <1>len, <2>4, <3>1, <3>2, <3>3 DEF RouterInv
    <3>5. Takes(Router!Limit, Router!Turns, Router!Turns')
      BY <1>len, <2>4, <3>1, <3>2 DEF Takes, Router!Limit
    <3> QED
      BY <3>4, <3>5
  <2>6. CASE ~fallback
    <3>1. /\ Router!Ask(Router!First, x.route, x.context)
          /\ Router!Finish("failed", 0)
      BY <2>1, <2>6, Zenon
    <3> QED
      BY <1>0, <2>3, <2>4, <3>1, LastRequest
  <2> QED
    BY <2>5, <2>6
<1>5. CASE Router!FallbackFails
  <2>1. /\ at = "fallback" /\ Router!Ask("fallback", "error", FALSE)
        /\ Router!Finish("failed", 0)
    BY <1>5, Zenon DEF Router!FallbackFails, Router!AskAndFail
  <2> QED
    BY <1>0, <1>last, <1>error, <2>1, LastRequest
<1>6. CASE Router!FallbackFinal
  <2>1. /\ at = "fallback" /\ Router!Ask("fallback", "final", FALSE)
        /\ Router!Finish("succeeded", Len(path'))
    BY <1>6, Zenon DEF Router!FallbackFinal, Router!AskAndFinish
  <2> QED
    BY <1>0, <1>last, <1>error, <2>1, LastRequest
<1>7. CASE Router!SpecialistFails
  <2>1. /\ at = "specialist" /\ Router!Ask(target, "error", FALSE)
        /\ Router!Finish("failed", 0)
    BY <1>7, Zenon DEF Router!SpecialistFails, Router!AskAndFail
  <2> QED
    BY <1>0, <1>target, <1>error, <2>1, LastRequest
<1>8. CASE Router!SpecialistFinal
  <2>1. /\ at = "specialist" /\ Router!Ask(target, "final", FALSE)
        /\ Router!Finish("succeeded", Len(path'))
    BY <1>8, Zenon DEF Router!SpecialistFinal, Router!AskAndFinish
  <2> QED
    BY <1>0, <1>target, <1>error, <2>1, LastRequest
<1>9. CASE Router!SpecialistRoutes
  <2>1. PICK x \in Router!Handoffs :
          /\ Router!Ask(target, x.route, x.context)
          /\ current' = IF x.context THEN Len(path') ELSE 0
    BY <1>9, Zenon DEF Router!SpecialistRoutes
  <2>2. /\ at = "specialist" /\ at' = "loop" /\ i' = i + 1
        /\ status' = status
    BY <1>9, Zenon DEF Router!SpecialistRoutes
  <2>3. /\ x.route \in Router!RouteNames /\ x.route \in Entries
        /\ x.context \in BOOLEAN
    BY HandoffsNameSomebody
  <2>4. /\ Len(path) = 2 * i + 1 /\ Len(path) < 2 * MaxHandoffs
        /\ i < MaxHandoffs /\ i \in Nat /\ status = "running"
        /\ target \in Agents /\ Named(target)
    BY <1>target, <2>2
  <2>5. /\ path' \in Seq(Router!PathSteps)
        /\ requests' \in Seq(Sendable)
        /\ Len(path') = Len(path) + 1 /\ Len(requests') = Len(path')
        /\ path'[Len(path')].route = x.route
        /\ path'[Len(path')].context = x.context
        /\ \A n \in 1..Len(path') - 1 : Follows(n)'
        /\ Router!Turns' =
             Append(Router!Turns, IF x.route = "error" THEN "error" ELSE "ok")
    BY <2>1, <2>3, <2>4, AskFollows
  <2>6. x.route # "error"
    BY <2>3, Zenon DEF Router!HandoffAssumption, Router!RouteNames
  <2>7. Named(x.route)' /\ current' \in Nat
    BY <1>len, <2>1, <2>3, <2>5 DEF Named, RouterInv
  <2>8. RouterInv'
    BY <1>0, <1>len, <2>2, <2>3, <2>4, <2>5, <2>7 DEF RouterInv
  <2>9. Takes(Router!Limit, Router!Turns, Router!Turns')
    BY <1>len, <2>2, <2>4, <2>5, <2>6 DEF Takes, Router!Limit
  <2> QED
    BY <2>8, <2>9
<1>10. CASE Router!Exceeded
  <2>1. /\ at = "loop" /\ path' = path /\ requests' = requests
        /\ at' = "returned" /\ status' = "failed" /\ i' = i
        /\ current' = current
    BY <1>10, Zenon DEF Router!Exceeded, Router!Finish
  <2>2. status = "running" /\ Router!Turns' = Router!Turns
    BY <2>1 DEF RouterInv, Router!Turns
  <2>3. \A n : Follows(n)' <=> Follows(n)
    BY <2>1 DEF Follows, Router!ContextReaches
  <2>4. RouterInv'
    BY <2>1, <2>2, <2>3 DEF RouterInv
  <2> QED
    BY <2>1, <2>2, <2>4 DEF Takes
<1> QED
  BY <1>1, <1>2, <1>3, <1>4, <1>5, <1>6, <1>7, <1>8, <1>9, <1>10, Zenon
  DEF Router!Step

-----------------------------------------------------------------------------
(* Pipeline *)

\* The error of a step that has none.
NoError == ""

\* What step n has put out when it has succeeded; step 0 is the caller.
PutOut(n) == IF n = 0 THEN Line!Input ELSE <<n, transforms[n]>>

Succeeded == \A n \in 1..Len(steps) : steps[n].error = NoError

PipelineInv ==
  /\ transforms \in Seq(BOOLEAN) /\ Len(transforms) <= MaxSteps
  /\ steps \in Seq(Line!StepTraces) /\ Len(steps) <= Len(transforms)
  /\ current \in Line!Data
  /\ Line!Chained
  /\ status \in {"running", "succeeded", "failed"}
  /\ status \in {"running", "succeeded"} =>
       /\ Succeeded
       /\ current = PutOut(Len(steps))
       /\ Len(steps) > 0 => steps[Len(steps)].output = current
  /\ status = "succeeded" => Len(steps) = Len(transforms)

\* The caller's input is data.
LEMMA InputIsData == MaxSteps \in Nat => Line!Input \in Line!Data
<1>1. MaxSteps \in Nat => 0 \in 0..MaxSteps
  OBVIOUS
<1>2. FALSE \in BOOLEAN
  OBVIOUS
<1> QED
  BY <1>1, <1>2, Zenon DEF Line!Input, Line!Data

\* The pipeline's invariant holds at first.
LEMMA PipelineInvInit ==
  ASSUME MaxSteps \in Nat, Line!Init
  PROVE  PipelineInv
<1>1. transforms \in Seq(BOOLEAN) /\ Len(transforms) \in 0..MaxSteps
  <2>1. PICK m \in 0..MaxSteps : transforms \in [1..m -> BOOLEAN]
    BY DEF Line!Init, Line!Configurations, Line!BoundedSeq, Line!SeqOf
  <2> QED
    BY <2>1, FunctionIsSeq
<1>2. steps \in Seq(Line!StepTraces) /\ Len(steps) = 0
  BY EmptySeq, Zenon DEF Line!Init
<1>3. current = Line!Input /\ status = "running"
  BY Zenon DEF Line!Init
<1>4. Line!Input \in Line!Data
  BY InputIsData
<1> QED
  BY <1>1, <1>2, <1>3, <1>4 DEF PipelineInv, Line!Chained, Succeeded, PutOut

\* A step that is taken is one more in the chain, and a turn.
LEMMA StepIsChained ==
  ASSUME PipelineInv, status = "running", Len(steps) < Len(transforms),
         UNCHANGED transforms,
         NEW out \in Line!Data, NEW error \in {NoError, "request", "transform"},
         steps' = Append(steps, [input |-> current, output |-> out,
                                 error |-> error])
  PROVE  /\ steps' \in Seq(Line!StepTraces) /\ Len(steps) \in Nat
         /\ Len(steps') = Len(steps) + 1
         /\ steps'[Len(steps')].output = out
         /\ steps'[Len(steps')].error = error
         /\ \A n \in 1..Len(steps) : steps'[n].error = NoError
         /\ Line!Chained'
         /\ Line!Turns' =
              Append(Line!Turns, IF error = NoError THEN "ok" ELSE "error")
         /\ Len(Line!Turns) = Len(steps)
<1> DEFINE step == [input |-> current, output |-> out, error |-> error]
<1>1. step \in Line!StepTraces
  <2>1. current \in Line!Data
    BY DEF PipelineInv
  <2>2. error \in {"", "request", "transform"}
    BY Zenon DEF NoError
  <2> QED
    BY <2>1, <2>2, Zenon DEF Line!StepTraces
<1>2. step.input = current /\ step.output = out /\ step.error = error
  OBVIOUS
<1>3. steps' = Append(steps, step) /\ steps \in Seq(Line!StepTraces)
  BY DEF PipelineInv
<1> HIDE DEF step
<1>4. /\ steps' \in Seq(Line!StepTraces) /\ Len(steps) \in Nat
      /\ Len(steps') = Len(steps) + 1 /\ steps'[Len(steps) + 1] = step
      /\ \A n \in 1..Len(steps) : steps'[n] = steps[n]
  BY <1>1, <1>3, Appended
<1>5. \A n \in 1..Len(steps) : steps[n].error = NoError
  BY DEF PipelineInv, Succeeded
<1>6. Line!Chained'
  <2>1. ASSUME NEW n \in 1..Len(steps')
        PROVE  steps'[n].input = IF n = 1 THEN Line!Input
                                          ELSE <<n - 1, transforms'[n - 1]>>
    <3>1. n \in Nat /\ (n = Len(steps) + 1 \/ n \in 1..Len(steps))
      BY <1>4
    <3>2. CASE n = Len(steps) + 1
      <4>1. steps'[n].input = PutOut(n - 1)
        BY <1>2, <1>4, <3>2 DEF PipelineInv
      <4> QED
        BY <1>4, <3>2, <4>1 DEF PutOut
    <3>3. CASE n \in 1..Len(steps)
      BY <1>4, <3>3 DEF PipelineInv, Line!Chained
    <3> QED
      BY <3>1, <3>2, <3>3
  <2> QED
    BY <2>1 DEF Line!Chained, Line!Input
<1>7. /\ Line!Turns' =
           Append(Line!Turns, IF error = NoError THEN "ok" ELSE "error")
      /\ Len(Line!Turns) = Len(steps)
  <2> DEFINE f == Line!Turns
             g == Line!Turns'
             m == Len(steps)
  <2>1. /\ f = [j \in 1..Len(steps) |->
                 IF steps[j].error = NoError THEN "ok" ELSE "error"]
        /\ g = [j \in 1..Len(steps') |->
                 IF steps'[j].error = NoError THEN "ok" ELSE "error"]
    BY Zenon DEF Line!Turns, NoError
  <2> HIDE DEF f, g
  <2>2. /\ DOMAIN f = 1..m /\ f = [j \in DOMAIN f |-> f[j]]
        /\ DOMAIN g = 1..m + 1 /\ g = [j \in DOMAIN g |-> g[j]]
    BY <1>4, <2>1
  <2>3. \A j \in 1..m : g[j] = f[j]
    BY <1>4, <2>1
  <2>4. g[m + 1] = IF error = NoError THEN "ok" ELSE "error"
    BY <1>2, <1>4, <2>1
  <2>5. g = Append(f, g[m + 1])
    BY <1>4, <2>2, <2>3, AppendToFunction
  <2>6. f \in [1..m -> {"ok", "error"}]
    BY <2>1
  <2>7. Len(f) = m
    BY <1>4, <2>6, FunctionIsSeq
  <2> QED
    BY <2>4, <2>5, <2>7 DEF f, g
<1> QED
  BY <1>2, <1>4, <1>5, <1>6, <1>7

\* Each step of the pipeline keeps its invariant and is one of a Conversation.
LEMMA PipelineStep ==
  ASSUME MaxSteps \in Nat, PipelineInv, Line!Step
  PROVE  /\ PipelineInv' /\ UNCHANGED Line!Limit
         /\ Takes(Line!Limit, Line!Turns, Line!Turns')
<1>len. Len(steps) \in Nat /\ Len(transforms) \in Nat
  BY LenProperties DEF PipelineInv
<1>1. ASSUME Line!MoreSteps, NEW error \in {"request", "transform"},
             Line!StepFails(error)
      PROVE  /\ PipelineInv' /\ UNCHANGED Line!Limit
             /\ Takes(Line!Limit, Line!Turns, Line!Turns')
  <2>1. status = "running" /\ Len(steps) < Len(transforms)
    BY <1>len, <1>1 DEF Line!MoreSteps, Line!k
  <2>2. /\ steps' = Append(steps, [input |-> current, output |-> Line!Input,
                                   error |-> error])
        /\ status' = "failed" /\ transforms' = transforms
        /\ current' = current
    BY <1>1, Zenon DEF Line!StepFails
  <2>3. Line!Input \in Line!Data
    BY InputIsData
  <2>4. error # NoError
    BY Zenon DEF NoError
  <2>5. /\ steps' \in Seq(Line!StepTraces)
        /\ Len(steps') = Len(steps) + 1
        /\ Line!Chained'
        /\ Line!Turns' =
             Append(Line!Turns, IF error = NoError THEN "ok" ELSE "error")
        /\ Len(Line!Turns) = Len(steps)
    BY <2>1, <2>2, <2>3, StepIsChained
  <2>6. PipelineInv'
    BY <1>len, <2>1, <2>2, <2>5 DEF PipelineInv
  <2> QED
    BY <1>len, <2>1, <2>2, <2>4, <2>5, <2>6 DEF Takes, Line!Limit
<1>2. CASE Line!RequestFails
  BY <1>1, <1>2, Zenon DEF Line!RequestFails
<1>3. CASE Line!TransformFails
  BY <1>1, <1>3, Zenon DEF Line!TransformFails
<1>4. CASE Line!StepDone
  <2> DEFINE out == <<Len(steps) + 1, transforms[Len(steps) + 1]>>
  <2>1. status = "running" /\ Len(steps) < Len(transforms)
    <3>1. Line!MoreSteps
      BY <1>4, Zenon DEF Line!StepDone
    <3> QED
      BY <1>len, <3>1 DEF Line!MoreSteps, Line!k
  <2>2. /\ steps' = Append(steps, [input |-> current, output |-> out,
                                   error |-> NoError])
        /\ current' = out
        /\ status' = status /\ transforms' = transforms
    BY <1>4, Zenon DEF Line!StepDone, Line!k, NoError
  <2>3. out \in Line!Data
    <3>1. transforms[Len(steps) + 1] \in BOOLEAN
      BY <1>len, <2>1, ElementOfSeq DEF PipelineInv
    <3> QED
      BY <1>len, <2>1, <3>1 DEF PipelineInv, Line!Data
  <2>4. /\ steps' \in Seq(Line!StepTraces)
        /\ Len(steps') = Len(steps) + 1
        /\ steps'[Len(steps')].output = out
        /\ steps'[Len(steps')].error = NoError
        /\ \A n \in 1..Len(steps) : steps'[n].error = NoError
        /\ Line!Chained'
        /\ Line!Turns' = Append(Line!Turns, "ok")
        /\ Len(Line!Turns) = Len(steps)
    <3> HIDE DEF out
    <3> QED
      BY <2>1, <2>2, <2>3, StepIsChained
  <2>5. Succeeded'
    BY <1>len, <2>4 DEF Succeeded
  <2>6. current' = PutOut(Len(steps))'
    BY <1>len, <2>2, <2>4 DEF PutOut
  <2> HIDE DEF out
  <2>7. PipelineInv'
    BY <1>len, <2>1, <2>2, <2>3, <2>4, <2>5, <2>6 DEF PipelineInv
  <2> QED
    BY <1>len, <2>1, <2>2, <2>4, <2>7 DEF Takes, Line!Limit
<1>5. CASE Line!Finish
  <2>1. /\ status = "running" /\ status' = "succeeded"
        /\ transforms' = transforms /\ steps' = steps /\ current' = current
        /\ Len(steps) + 1 > Len(transforms)
    BY <1>5 DEF Line!Finish, Line!k
  <2>2. Line!Turns' = Line!Turns /\ Line!Chained' = Line!Chained
        /\ Line!Limit' = Line!Limit
    BY <2>1, Zenon DEF Line!Turns, Line!Chained, Line!Limit
  <2>3. PipelineInv'
    BY <1>len, <2>1, <2>2 DEF PipelineInv, Succeeded, PutOut
  <2> QED
    BY <2>1, <2>2, <2>3 DEF Takes
<1> QED
  BY <1>2, <1>3, <1>4, <1>5 DEF Line!Step

-----------------------------------------------------------------------------
(* GroupChat *)

\* What the model counts with is the cardinality of the library's theorems.
LEMMA SameCardinality ==
  ASSUME NEW S
  PROVE  Chat!Cardinality(S) = Cardinality(S)
BY Zenon DEF Chat!Cardinality, Cardinality

Speaking == {Chat!Entry(name) : name \in Names}

\* Everybody up to index has spoken in this cycle, the others have not yet.
InTurn ==
  \E q \in Nat : \A e \in Chat!Entries :
    Chat!Spoken(e) = IF e <= index THEN q + 1 ELSE q

ChatInv ==
  /\ roundRobin \in BOOLEAN /\ failed \in BOOLEAN
  /\ participants \in Seq(Names) /\ Len(participants) > 0
  /\ index \in 0..Len(participants) - 1
  /\ messages \in Seq(Speaking)
  /\ status \in {"running", "succeeded", "failed"}
  /\ status = "running" => failed = FALSE
  /\ roundRobin /\ Chat!IsInjective(participants) =>
       IF status = "failed" THEN Chat!SpeaksOncePerCycle ELSE InTurn

\* Who takes turns is even with the others.
LEMMA InTurnIsEven ==
  ASSUME ChatInv, InTurn
  PROVE  Chat!SpeaksOncePerCycle
<1>1. index \in Nat /\ Len(participants) \in Nat
  BY LenProperties DEF ChatInv
<1> QED
  BY <1>1 DEF InTurn, Chat!SpeaksOncePerCycle, Chat!Entries

\* One more message of somebody, and no other of anybody else.
LEMMA SpokenAfter ==
  ASSUME NEW S, messages \in Seq(S), NEW who \in S,
         messages' = Append(messages, who), UNCHANGED participants, NEW e
  PROVE  Chat!Spoken(e)' =
           IF e = who THEN Chat!Spoken(e) + 1 ELSE Chat!Spoken(e)
<1> DEFINE before == {n \in DOMAIN messages : messages[n] = e}
           after == {n \in DOMAIN messages' : messages'[n] = e}
           last == Len(messages) + 1
<1>1. /\ messages' \in Seq(S) /\ Len(messages) \in Nat
      /\ Len(messages') = Len(messages) + 1 /\ messages'[Len(messages) + 1] = who
      /\ \A n \in 1..Len(messages) : messages'[n] = messages[n]
  BY Appended
<1>2. DOMAIN messages = 1..Len(messages) /\ DOMAIN messages' = 1..last
  BY <1>1, LenProperties
<1>3. IsFiniteSet(before) /\ last \notin before
  <2>1. IsFiniteSet(1..Len(messages))
    <3>1. 1 \in Int /\ Len(messages) \in Int
      BY <1>1
    <3> QED
      BY <3>1, FS_Interval
  <2>2. before \subseteq 1..Len(messages)
    BY <1>2
  <2> QED
    BY <1>1, <2>1, <2>2, FS_Subset
<1>4. after = IF e = who THEN before \cup {last} ELSE before
  BY <1>1, <1>2
<1>5. Cardinality(before \cup {last}) = Cardinality(before) + 1
  BY <1>3, FS_AddElement
<1>6. /\ Chat!Spoken(e) = Cardinality(before)
      /\ Chat!Spoken(e)' = Cardinality(after)
  BY SameCardinality, Zenon DEF Chat!Spoken
<1> HIDE DEF before, after
<1> QED
  BY <1>4, <1>5, <1>6

\* The chat's invariant holds at first.
LEMMA ChatInvInit ==
  ASSUME Chat!Init
  PROVE  ChatInv
<1>1. /\ participants \in Seq(Names) /\ Len(participants) \in Nat
      /\ Len(participants) > 0
  <2>1. PICK m \in 0..MaxParticipants : participants \in [1..m -> Names]
    BY Zenon DEF Chat!Init, Chat!Configurations, Chat!BoundedSeq, Chat!SeqOf
  <2>2. participants \in Seq(Names) /\ Len(participants) = m /\ m \in Nat
    BY <2>1, FunctionIsSeq
  <2>3. participants # <<>>
    BY Zenon DEF Chat!Init
  <2> QED
    BY <2>2, <2>3, EmptySeq
<1>2. /\ roundRobin \in BOOLEAN /\ index = 0 /\ messages = <<>>
      /\ failed = FALSE /\ status = "running"
  BY Zenon DEF Chat!Init
<1>3. messages \in Seq(Speaking)
  BY <1>2, EmptySeq
<1>4. InTurn
  <2>1. ASSUME NEW e PROVE Chat!Spoken(e) = 0
    <3>1. {n \in DOMAIN messages : messages[n] = e} = {}
      BY <1>2
    <3>2. Chat!Spoken(e) = Cardinality({})
      BY <3>1, SameCardinality, Zenon DEF Chat!Spoken
    <3> QED
      BY <3>2, FS_EmptySet
  <2> QED
    BY <1>1, <1>2, <2>1 DEF InTurn, Chat!Entries
<1>5. roundRobin /\ Chat!IsInjective(participants) =>
        IF status = "failed" THEN Chat!SpeaksOncePerCycle ELSE InTurn
  BY <1>2, <1>4, Zenon
<1>6. index \in 0..Len(participants) - 1
  BY <1>1, <1>2
<1>7. failed \in BOOLEAN /\ status \in {"running", "succeeded", "failed"}
  BY <1>2, Zenon
<1> QED
  BY <1>1, <1>2, <1>3, <1>5, <1>6, <1>7, Zenon DEF ChatInv

\* Turns that were taken well, and a failed one after them.
LEMMA GoodTurns ==
  ASSUME NEW m \in Nat, NEW said, said = [n \in 1..m |-> "ok"]
  PROVE  /\ Len(said) = m /\ said \o <<>> = said
         /\ said \o <<"error">> = Append(said, "error")
<1>1. said \in [1..m -> {"ok", "error"}]
  OBVIOUS
<1>2. said \in Seq({"ok", "error"}) /\ Len(said) = m
  BY <1>1, FunctionIsSeq
<1> QED
  BY <1>2, ConcatEmptySeq, AppendIsConcat

\* As one more is taken well.
LEMMA OneMoreGoodTurn ==
  ASSUME NEW m \in Nat
  PROVE  [n \in 1..m + 1 |-> "ok"] = Append([n \in 1..m |-> "ok"], "ok")
<1> DEFINE f == [n \in 1..m |-> "ok"]
           g == [n \in 1..m + 1 |-> "ok"]
<1>1. g = Append(f, g[m + 1]) /\ g[m + 1] = "ok"
  BY AppendToFunction
<1> QED
  BY <1>1

\* With round robin and distinct names the entry that speaks is the next one.
LEMMA NextOneSpeaks ==
  ASSUME ChatInv, Chat!IsInjective(participants)
  PROVE  Chat!Entry(participants[index + 1]) = index + 1
<1> DEFINE them == {e \in Chat!Entries :
                      participants[e] = participants[index + 1]}
<1>1. Len(participants) \in Nat /\ DOMAIN participants = 1..Len(participants)
  BY LenProperties DEF ChatInv
<1>2. index + 1 \in 1..Len(participants)
  BY <1>1 DEF ChatInv
<1>3. them = {index + 1}
  BY <1>1, <1>2 DEF Chat!Entries, Chat!IsInjective
<1>4. Chat!Max({index + 1}) = index + 1
  BY <1>2 DEF Chat!Max
<1> QED
  BY <1>3, <1>4, Zenon DEF Chat!Entry

\* A speaker who is known has a name, and in turn it is the next entry.
LEMMA SpeakKeepsInv ==
  ASSUME ChatInv, Chat!Speak
  PROVE  /\ ChatInv'
         /\ Takes(Chat!Limit, Chat!Turns, Chat!Turns')
<1>1. PICK s \in Chat!Speakers :
        Chat!Known(s) /\ messages' = Append(messages, Chat!Entry(s))
  BY Zenon DEF Chat!Speak
<1>2. /\ status = "running" /\ Len(messages) < MaxRounds
      /\ status' \in {"running", "succeeded"}
      /\ roundRobin' = roundRobin /\ participants' = participants
      /\ failed' = failed
      /\ index' = IF roundRobin THEN (index + 1) % Len(participants) ELSE index
  BY Zenon DEF Chat!Speak, Chat!MoreRounds, Chat!Advance
<1>3. /\ Len(participants) \in Nat /\ Len(participants) > 0
      /\ participants \in Seq(Names) /\ roundRobin \in BOOLEAN
      /\ index \in 0..Len(participants) - 1
      /\ messages \in Seq(Speaking) /\ failed = FALSE
  BY <1>2, LenProperties DEF ChatInv
<1>4. s \in Names
  <2>1. PICK e \in 1..Len(participants) : participants[e] = s
    BY <1>1 DEF Chat!Known, Chat!Entries
  <2> QED
    BY <1>3, <2>1, ElementOfSeq
<1>5. Chat!Entry(s) \in Speaking
  BY <1>4 DEF Speaking
<1>6. /\ messages' \in Seq(Speaking) /\ Len(messages) \in Nat
      /\ Len(messages') = Len(messages) + 1
  BY <1>1, <1>3, <1>5, Appended
<1>7. Speaking' = Speaking /\ Chat!Entries' = Chat!Entries
  BY <1>2, Zenon DEF Speaking, Chat!Entries, Chat!Entry
<1>8. index' = IF roundRobin
               THEN IF index + 1 < Len(participants) THEN index + 1 ELSE 0
               ELSE index
  <2>1. CASE index + 1 < Len(participants)
    BY <1>2, <1>3, <2>1
  <2>2. CASE index + 1 = Len(participants)
    BY <1>2, <1>3, <2>2
  <2> QED
    BY <1>3, <2>1, <2>2
<1>9. ASSUME roundRobin, Chat!IsInjective(participants)
      PROVE  InTurn'
  <2>1. PICK q \in Nat : \A e \in Chat!Entries :
          Chat!Spoken(e) = IF e <= index THEN q + 1 ELSE q
    BY <1>2, <1>9 DEF ChatInv, InTurn
  <2>2. Chat!Entry(s) = index + 1
    <3>1. s = participants[index + 1]
      BY <1>1, <1>9 DEF Chat!Speakers
    <3> QED
      BY <1>9, <3>1, NextOneSpeaks
  <2>3. \A e : Chat!Spoken(e)' =
          IF e = index + 1 THEN Chat!Spoken(e) + 1 ELSE Chat!Spoken(e)
    BY <1>1, <1>2, <1>3, <1>5, <2>2, SpokenAfter
  <2>4. CASE index + 1 < Len(participants)
    <3>1. \A e \in Chat!Entries' :
            Chat!Spoken(e)' = IF e <= index' THEN q + 1 ELSE q
      BY <1>3, <1>7, <1>8, <1>9, <2>1, <2>3, <2>4 DEF Chat!Entries
    <3> QED
      BY <3>1 DEF InTurn
  <2>5. CASE index + 1 = Len(participants)
    <3>1. \A e \in Chat!Entries' :
            Chat!Spoken(e)' = IF e <= index' THEN (q + 1) + 1 ELSE q + 1
      BY <1>3, <1>7, <1>8, <1>9, <2>1, <2>3, <2>5 DEF Chat!Entries
    <3> QED
      BY <3>1 DEF InTurn
  <2> QED
    BY <1>3, <2>4, <2>5
<1>10. ChatInv'
  <2>1. /\ roundRobin' /\ Chat!IsInjective(participants)' =>
             roundRobin /\ Chat!IsInjective(participants)
        /\ status' # "failed"
    BY <1>2 DEF Chat!IsInjective
  <2>2. index' \in 0..Len(participants') - 1
    BY <1>2, <1>3, <1>8
  <2>3. roundRobin' /\ Chat!IsInjective(participants)' => InTurn'
    BY <1>9, <2>1
  <2> QED
    BY <1>2, <1>3, <1>6, <1>7, <2>1, <2>2, <2>3 DEF ChatInv
<1>11. Takes(Chat!Limit, Chat!Turns, Chat!Turns')
  <2> DEFINE f == [n \in 1..Len(messages) |-> "ok"]
             g == [n \in 1..Len(messages) + 1 |-> "ok"]
  <2>1. /\ Len(f) = Len(messages) /\ f \o <<>> = f /\ g \o <<>> = g
        /\ g = Append(f, "ok")
    BY <1>6, GoodTurns, OneMoreGoodTurn
  <2>2. Chat!Turns = f \o <<>> /\ Chat!Turns' = g \o <<>>
    BY <1>2, <1>3, <1>6, Zenon DEF Chat!Turns
  <2> HIDE DEF f, g
  <2> QED
    BY <1>2, <2>1, <2>2 DEF Takes, Chat!Limit
<1> QED
  BY <1>10, <1>11

\* Without a message nobody has spoken.
LEMMA NobodySpoke ==
  ASSUME participants' = participants, messages' = messages,
         roundRobin' = roundRobin
  PROVE  /\ Chat!IsInjective(participants)' <=> Chat!IsInjective(participants)
         /\ Chat!SpeaksOncePerCycle' <=> Chat!SpeaksOncePerCycle
         /\ index' = index => (InTurn' <=> InTurn)
         /\ Speaking' = Speaking
<1>1. Chat!IsInjective(participants)' <=> Chat!IsInjective(participants)
  BY Zenon DEF Chat!IsInjective
<1>2. Chat!Entries' = Chat!Entries /\ \A e : Chat!Spoken(e)' = Chat!Spoken(e)
  BY Zenon DEF Chat!Entries, Chat!Spoken
<1>3. \A name : Chat!Entry(name)' = Chat!Entry(name)
  BY <1>2, Zenon DEF Chat!Entry
<1>4. Speaking' = Speaking
  BY <1>3 DEF Speaking
<1>5. Chat!SpeaksOncePerCycle' <=> Chat!SpeaksOncePerCycle
  BY <1>2 DEF Chat!SpeaksOncePerCycle
<1>6. index' = index => (InTurn' <=> InTurn)
  BY <1>2 DEF InTurn
<1> QED
  BY <1>1, <1>4, <1>5, <1>6

\* A chat that stays as it is keeps its invariant.
LEMMA ChatStutters ==
  ASSUME ChatInv, participants' = participants, messages' = messages,
         roundRobin' = roundRobin, index' = index, failed' = failed,
         status' = status
  PROVE  ChatInv'
<1>1. Chat!IsInjective(participants)' => Chat!IsInjective(participants)
  BY NobodySpoke, Zenon
<1>2. /\ Chat!SpeaksOncePerCycle => Chat!SpeaksOncePerCycle'
      /\ InTurn => InTurn'
      /\ Speaking' = Speaking
  BY NobodySpoke, Zenon
<1>3. roundRobin' /\ Chat!IsInjective(participants)' =>
        IF status' = "failed" THEN Chat!SpeaksOncePerCycle' ELSE InTurn'
  BY <1>1, <1>2, Zenon DEF ChatInv
<1> QED
  BY <1>2, <1>3, Zenon DEF ChatInv

\* Each step of the chat keeps its invariant and is one of a Conversation.
LEMMA ChatStep ==
  ASSUME MaxRounds \in Nat, ChatInv, Chat!Step
  PROVE  ChatInv' /\ Takes(Chat!Limit, Chat!Turns, Chat!Turns')
<1>1. CASE Chat!Speak
  BY <1>1, SpeakKeepsInv
<1>2. CASE Chat!Fail
  <2>1. /\ status = "running" /\ Len(messages) < MaxRounds
        /\ status' = "failed" /\ failed' = TRUE
        /\ roundRobin' = roundRobin /\ participants' = participants
        /\ messages' = messages
        /\ index' = IF roundRobin THEN (index + 1) % Len(participants) ELSE index
    BY <1>2, Zenon DEF Chat!Fail, Chat!MoreRounds, Chat!Advance
  <2>2. /\ Len(participants) \in Nat /\ Len(participants) > 0
        /\ index \in 0..Len(participants) - 1
        /\ Len(messages) \in Nat /\ failed = FALSE
    BY <2>1, LenProperties DEF ChatInv
  <2>3. index' \in 0..Len(participants') - 1
    BY <2>1, <2>2
  <2>4. /\ Chat!SpeaksOncePerCycle' <=> Chat!SpeaksOncePerCycle
        /\ Chat!IsInjective(participants)' <=> Chat!IsInjective(participants)
        /\ Speaking' = Speaking
    BY <2>1, NobodySpoke
  <2>5. roundRobin /\ Chat!IsInjective(participants) => Chat!SpeaksOncePerCycle
    BY <2>1, InTurnIsEven DEF ChatInv
  <2>6. ChatInv'
    BY <2>1, <2>3, <2>4, <2>5 DEF ChatInv
  <2>7. Takes(Chat!Limit, Chat!Turns, Chat!Turns')
    <3> DEFINE f == [n \in 1..Len(messages) |-> "ok"]
    <3>1. /\ Len(f) = Len(messages) /\ f \o <<>> = f
          /\ f \o <<"error">> = Append(f, "error")
      BY <2>2, GoodTurns
    <3>2. Chat!Turns = f \o <<>> /\ Chat!Turns' = f \o <<"error">>
      BY <2>1, <2>2, Zenon DEF Chat!Turns
    <3> HIDE DEF f
    <3> QED
      BY <2>1, <3>1, <3>2 DEF Takes, Chat!Limit
  <2> QED
    BY <2>6, <2>7
<1>3. CASE Chat!Finish
  <2>1. /\ status = "running" /\ status' = "succeeded"
        /\ roundRobin' = roundRobin /\ participants' = participants
        /\ messages' = messages /\ index' = index /\ failed' = failed
    BY <1>3, Zenon DEF Chat!Finish
  <2>2. /\ InTurn' <=> InTurn
        /\ Chat!IsInjective(participants)' <=> Chat!IsInjective(participants)
        /\ Speaking' = Speaking
        /\ Chat!Turns' = Chat!Turns
    BY <2>1, NobodySpoke DEF Chat!Turns
  <2>3. ChatInv'
    BY <2>1, <2>2 DEF ChatInv
  <2> QED
    BY <2>1, <2>2, <2>3 DEF Takes
<1> QED
  BY <1>1, <1>2, <1>3, Zenon DEF Chat!Step

-----------------------------------------------------------------------------
(* ToolLoop *)

Calls == Nat \X Nat
Kept == [role : {"system", "user", "assistant", "tool"},
         calls : Seq(Calls), id : Calls \cup {None}]

\* Place n of the conversation is, or will be, for the result of call id.
CalledAt(n, id) ==
  \E a \in 1..Len(messages) :
    /\ a < n /\ n - a <= Len(messages[a].calls)
    /\ messages[a].calls[n - a] = id

\* The j-th call of message n has its result, or is still to be executed.
AnsweredOrDue(n, j) ==
  \/ /\ n + j <= Len(messages)
     /\ messages[n + j].role = "tool"
     /\ messages[n + j].id = messages[n].calls[j]
  \/ /\ n + j > Len(messages) /\ n + j <= Len(messages) + Len(todo)
     /\ todo[n + j - Len(messages)] = messages[n].calls[j]

ToolsInv ==
  /\ responses \in Seq(Nat) /\ Len(responses) <= MaxIterations
  /\ messages \in Seq(Kept) /\ todo \in Seq(Calls)
  /\ status \in {"running", "succeeded", "failed"}
  /\ Len(messages) >= 2
  /\ \A n \in 1..Len(messages) :
       /\ messages[n].role = "assistant" =>
            \A j \in 1..Len(messages[n].calls) : AnsweredOrDue(n, j)
       /\ messages[n].role = "tool" => CalledAt(n, messages[n].id)
       /\ messages[n].role \notin {"assistant", "tool"} => n <= 2
  /\ \A m \in 1..Len(todo) : CalledAt(Len(messages) + m, todo[m])
  /\ Tools!CallsAreAnswered

\* The tool loop's invariant holds at first.
LEMMA ToolsInvInit ==
  ASSUME Tools!Init, MaxIterations \in Nat
  PROVE  ToolsInv
<1>1. /\ responses = <<>> /\ todo = <<>> /\ sent = <<>> /\ status = "running"
      /\ messages = <<Tools!Message("system"), Tools!Message("user")>>
  BY Zenon DEF Tools!Init
<1>2. <<>> \in Seq(Calls) /\ <<>> \in Seq(Nat) /\ Len(<<>>) = 0
  BY EmptySeq, Zenon
<1>3. /\ Tools!Message("system") \in Kept /\ Tools!Message("user") \in Kept
      /\ Tools!Message("system").role = "system"
      /\ Tools!Message("user").role = "user"
  BY <1>2 DEF Tools!Message, Kept
<1>4. /\ messages \in Seq(Kept) /\ Len(messages) = 2
      /\ messages[1].role = "system" /\ messages[2].role = "user"
  BY <1>1, <1>3
<1>5. Tools!CallsAreAnswered
  BY <1>1 DEF Tools!CallsAreAnswered
<1>6. \A n \in 1..Len(messages) :
        messages[n].role \in {"system", "user"} /\ n <= 2
  BY <1>4
<1> QED
  BY <1>1, <1>2, <1>4, <1>5, <1>6 DEF ToolsInv

\* When nothing is left to execute, the request that is sent is answered.
LEMMA RequestIsAnswered ==
  ASSUME ToolsInv, todo = <<>>, sent' = Tools!Request
  PROVE  Tools!CallsAreAnswered'
<1>1. /\ Len(messages) \in Nat /\ DOMAIN messages = 1..Len(messages)
      /\ Len(todo) = 0 /\ messages \in Seq(Kept)
  BY LenProperties DEF ToolsInv
<1>2. /\ DOMAIN sent' = 1..Len(messages)
      /\ \A n \in 1..Len(messages) :
           /\ sent'[n].role = messages[n].role /\ sent'[n].id = messages[n].id
           /\ DOMAIN sent'[n].calls = DOMAIN messages[n].calls
           /\ \A j \in DOMAIN messages[n].calls :
                sent'[n].calls[j] = messages[n].calls[j]
  BY <1>1 DEF Tools!Request
<1>3. \A n \in 1..Len(messages) :
        /\ Len(messages[n].calls) \in Nat
        /\ DOMAIN messages[n].calls = 1..Len(messages[n].calls)
  <2>1. \A n \in 1..Len(messages) : messages[n] \in Kept
    BY <1>1, ElementOfSeq
  <2>2. \A n \in 1..Len(messages) : messages[n].calls \in Seq(Calls)
    BY <2>1 DEF Kept
  <2> QED
    BY <2>2, LenProperties
<1>4. ASSUME NEW n \in 1..Len(messages)
      PROVE  /\ sent'[n].role = "assistant" =>
                  \A j \in DOMAIN sent'[n].calls :
                    /\ n + j \in DOMAIN sent' /\ sent'[n + j].role = "tool"
                    /\ sent'[n + j].id = sent'[n].calls[j]
             /\ sent'[n].role = "tool" =>
                  \E a \in 1..n - 1 :
                    /\ n - a \in DOMAIN sent'[a].calls
                    /\ sent'[a].calls[n - a] = sent'[n].id
             /\ sent'[n].role \notin {"assistant", "tool"} => n <= 2
  <2>1. CASE messages[n].role = "assistant"
    <3>1. ASSUME NEW j \in DOMAIN messages[n].calls
          PROVE  /\ n + j \in 1..Len(messages) /\ messages[n + j].role = "tool"
                 /\ messages[n + j].id = messages[n].calls[j]
      <4>1. AnsweredOrDue(n, j) /\ j \in Nat /\ j >= 1
        BY <1>3, <2>1 DEF ToolsInv
      <4> QED
        BY <1>1, <4>1 DEF AnsweredOrDue
    <3> QED
      BY <1>2, <2>1, <3>1
  <2>2. CASE messages[n].role = "tool"
    <3>1. PICK a \in 1..Len(messages) :
            /\ a < n /\ n - a <= Len(messages[a].calls)
            /\ messages[a].calls[n - a] = messages[n].id
      BY <2>2 DEF ToolsInv, CalledAt
    <3>2. a \in 1..n - 1 /\ n - a \in DOMAIN messages[a].calls
      BY <1>1, <1>3, <3>1
    <3> QED
      BY <1>2, <2>2, <3>1, <3>2
  <2>3. CASE messages[n].role \notin {"assistant", "tool"}
    BY <1>2, <2>3 DEF ToolsInv
  <2> QED
    BY <1>2, <2>1, <2>2, <2>3
<1> QED
  BY <1>2, <1>4 DEF Tools!CallsAreAnswered

\* What has a place in the conversation keeps it as a message is added.
LEMMA PlacesAreKept ==
  ASSUME messages \in Seq(Kept), NEW msg \in Kept,
         messages' = Append(messages, msg)
  PROVE  /\ messages' \in Seq(Kept)
         /\ Len(messages) \in Nat /\ Len(messages') = Len(messages) + 1
         /\ messages'[Len(messages) + 1] = msg
         /\ \A n \in 1..Len(messages) : messages'[n] = messages[n]
         /\ \A n, id : CalledAt(n, id) => CalledAt(n, id)'
<1>1. /\ messages' \in Seq(Kept)
      /\ Len(messages) \in Nat /\ Len(messages') = Len(messages) + 1
      /\ messages'[Len(messages) + 1] = msg
      /\ \A n \in 1..Len(messages) : messages'[n] = messages[n]
  BY Appended
<1>2. ASSUME NEW n, NEW id, CalledAt(n, id) PROVE CalledAt(n, id)'
  <2>1. PICK a \in 1..Len(messages) :
          /\ a < n /\ n - a <= Len(messages[a].calls)
          /\ messages[a].calls[n - a] = id
    BY <1>2 DEF CalledAt
  <2>2. a \in 1..Len(messages') /\ messages'[a] = messages[a]
    BY <1>1
  <2> QED
    BY <2>1, <2>2 DEF CalledAt
<1> QED
  BY <1>1, <1>2

\* The response calls tools: each of its calls is due, at its place.
LEMMA CallsBecomeDue ==
  ASSUME ToolsInv, todo = <<>>, NEW calls \in Seq(Calls),
         NEW msg \in Kept, msg.role = "assistant", msg.calls = calls,
         todo' = calls, messages' = Append(messages, msg)
  PROVE  /\ \A n \in 1..Len(messages') :
              /\ messages'[n].role = "assistant" =>
                   \A j \in 1..Len(messages'[n].calls) : AnsweredOrDue(n, j)'
              /\ messages'[n].role = "tool" => CalledAt(n, messages[n].id)'
              /\ messages'[n].role \notin {"assistant", "tool"} => n <= 2
         /\ \A m \in 1..Len(todo') : CalledAt(Len(messages) + m, todo[m])'
<1>1. /\ Len(messages) \in Nat /\ Len(messages') = Len(messages) + 1
      /\ messages'[Len(messages) + 1] = msg
      /\ \A n \in 1..Len(messages) : messages'[n] = messages[n]
      /\ \A n, id : CalledAt(n, id) => CalledAt(n, id)'
  BY PlacesAreKept DEF ToolsInv
<1>2. Len(todo) = 0 /\ Len(calls) \in Nat
  BY LenProperties
<1>3. ASSUME NEW n \in 1..Len(messages')
      PROVE  /\ messages'[n].role = "assistant" =>
                  \A j \in 1..Len(messages'[n].calls) : AnsweredOrDue(n, j)'
             /\ messages'[n].role = "tool" => CalledAt(n, messages[n].id)'
             /\ messages'[n].role \notin {"assistant", "tool"} => n <= 2
  <2>1. CASE n = Len(messages) + 1
    <3>1. messages'[n] = msg
      BY <1>1, <2>1
    <3>2. ASSUME NEW j \in 1..Len(calls) PROVE AnsweredOrDue(n, j)'
      <4>1. n + j - Len(messages') = j /\ n + j > Len(messages')
            /\ n + j <= Len(messages') + Len(todo')
        BY <1>1, <1>2, <2>1
      <4> QED
        BY <3>1, <4>1 DEF AnsweredOrDue
    <3> QED
      BY <3>1, <3>2
  <2>2. CASE n \in 1..Len(messages)
    <3>1. messages'[n] = messages[n]
      BY <1>1, <2>2
    <3>2. ASSUME messages[n].role = "assistant",
                 NEW j \in 1..Len(messages[n].calls)
          PROVE  AnsweredOrDue(n, j)'
      <4>1. /\ n + j \in 1..Len(messages) /\ messages[n + j].role = "tool"
            /\ messages[n + j].id = messages[n].calls[j]
        BY <1>1, <1>2, <2>2, <3>2 DEF ToolsInv, AnsweredOrDue
      <4>2. n + j <= Len(messages') /\ messages'[n + j] = messages[n + j]
        BY <1>1, <4>1
      <4> QED
        BY <3>1, <4>1, <4>2 DEF AnsweredOrDue
    <3> QED
      BY <1>1, <2>2, <3>1, <3>2 DEF ToolsInv
  <2> QED
    BY <1>1, <2>1, <2>2
<1>4. ASSUME NEW m \in 1..Len(todo')
      PROVE  CalledAt(Len(messages) + m, todo[m])'
  <2>1. /\ Len(messages') \in 1..Len(messages') /\ m \in Nat
        /\ Len(messages') < Len(messages') + m
        /\ Len(messages') + m - Len(messages') = m
        /\ m <= Len(messages'[Len(messages')].calls)
    BY <1>1, <1>2
  <2>2. messages'[Len(messages')].calls[m] = todo'[m]
    BY <1>1
  <2> QED
    BY <2>1, <2>2 DEF CalledAt
<1> QED
  BY <1>3, <1>4

\* The first call that is due gets its result, at its place.
LEMMA ResultIsInPlace ==
  ASSUME ToolsInv, todo # <<>>, todo' = Tail(todo),
         NEW msg \in Kept, msg.role = "tool", msg.id = Head(todo),
         messages' = Append(messages, msg)
  PROVE  /\ todo' \in Seq(Calls)
         /\ \A n \in 1..Len(messages') :
              /\ messages'[n].role = "assistant" =>
                   \A j \in 1..Len(messages'[n].calls) : AnsweredOrDue(n, j)'
              /\ messages'[n].role = "tool" => CalledAt(n, messages[n].id)'
              /\ messages'[n].role \notin {"assistant", "tool"} => n <= 2
         /\ \A m \in 1..Len(todo') : CalledAt(Len(messages) + m, todo[m])'
<1>1. /\ Len(messages) \in Nat /\ Len(messages') = Len(messages) + 1
      /\ messages'[Len(messages) + 1] = msg
      /\ \A n \in 1..Len(messages) : messages'[n] = messages[n]
      /\ \A n, id : CalledAt(n, id) => CalledAt(n, id)'
  BY PlacesAreKept DEF ToolsInv
<1>2. /\ Len(todo) \in Nat /\ Len(todo) >= 1 /\ Head(todo) = todo[1]
      /\ todo' \in Seq(Calls) /\ Len(todo') = Len(todo) - 1
      /\ \A m \in 1..Len(todo') : todo'[m] = todo[m + 1]
  <2>1. todo \in Seq(Calls)
    BY DEF ToolsInv
  <2>2. Len(todo) \in Nat \ {0}
    BY <2>1, EmptySeq
  <2> QED
    BY <2>1, <2>2, HeadTailProperties
<1>3. CalledAt(Len(messages) + 1, Head(todo))
  BY <1>2 DEF ToolsInv
<1>4. ASSUME NEW n \in 1..Len(messages')
      PROVE  /\ messages'[n].role = "assistant" =>
                  \A j \in 1..Len(messages'[n].calls) : AnsweredOrDue(n, j)'
             /\ messages'[n].role = "tool" => CalledAt(n, messages[n].id)'
             /\ messages'[n].role \notin {"assistant", "tool"} => n <= 2
  <2>1. CASE n = Len(messages) + 1
    BY <1>1, <1>3, <2>1
  <2>2. CASE n \in 1..Len(messages)
    <3>1. messages'[n] = messages[n]
      BY <1>1, <2>2
    <3>2. ASSUME messages[n].role = "assistant",
                 NEW j \in 1..Len(messages[n].calls)
          PROVE  AnsweredOrDue(n, j)'
      <4>1. AnsweredOrDue(n, j) /\ n + j \in Nat
        BY <2>2, <3>2 DEF ToolsInv
      <4>2. CASE n + j <= Len(messages)
        <5>1. n + j \in 1..Len(messages)
          BY <1>1, <2>2, <4>1, <4>2
        <5>2. /\ messages[n + j].role = "tool"
              /\ messages[n + j].id = messages[n].calls[j]
              /\ messages'[n + j] = messages[n + j]
          BY <1>1, <4>1, <4>2, <5>1 DEF AnsweredOrDue
        <5> QED
          BY <1>1, <3>1, <4>2, <5>2 DEF AnsweredOrDue
      <4>3. CASE n + j = Len(messages) + 1
        <5>1. todo[1] = messages[n].calls[j]
          BY <1>1, <4>1, <4>3 DEF AnsweredOrDue
        <5> QED
          BY <1>1, <1>2, <3>1, <4>3, <5>1 DEF AnsweredOrDue
      <4>4. CASE n + j > Len(messages) + 1
        <5> DEFINE d == n + j - Len(messages')
        <5>1. /\ d + 1 = n + j - Len(messages)
              /\ n + j <= Len(messages) + Len(todo)
              /\ todo[n + j - Len(messages)] = messages[n].calls[j]
          BY <1>1, <4>1, <4>4 DEF AnsweredOrDue
        <5>2. d \in 1..Len(todo') /\ n + j > Len(messages')
              /\ n + j <= Len(messages') + Len(todo')
          BY <1>1, <1>2, <4>1, <4>4, <5>1
        <5>3. todo'[d] = messages[n].calls[j]
          BY <1>2, <5>1, <5>2
        <5> QED
          BY <3>1, <5>2, <5>3 DEF AnsweredOrDue
      <4> QED
        BY <1>1, <4>1, <4>2, <4>3, <4>4
    <3> QED
      BY <1>1, <2>2, <3>1, <3>2 DEF ToolsInv
  <2> QED
    BY <1>1, <2>1, <2>2
<1>5. ASSUME NEW m \in 1..Len(todo')
      PROVE  CalledAt(Len(messages) + m, todo[m])'
  <2>1. /\ m + 1 \in 1..Len(todo) /\ todo'[m] = todo[m + 1]
        /\ Len(messages') + m = Len(messages) + (m + 1)
    BY <1>1, <1>2
  <2>2. CalledAt(Len(messages) + (m + 1), todo[m + 1])
    BY <2>1 DEF ToolsInv
  <2> QED
    BY <1>1, <2>1, <2>2
<1> QED
  BY <1>2, <1>4, <1>5

\* A step of the tool loop is one of a Conversation, or a tool's, which is no turn.
ToolTakes ==
  \/ Takes(Tools!Limit, Tools!Turns, Tools!Turns')
  \/ Tools!Turns' = Tools!Turns /\ status' = status

\* Each step of the tool loop keeps its invariant.
LEMMA ToolsStep ==
  ASSUME MaxIterations \in Nat, MaxCalls \in Nat, ToolsInv, Tools!Step
  PROVE  ToolsInv' /\ ToolTakes
<1>len. /\ Len(responses) \in Nat /\ responses \in Seq(Nat)
        /\ Len(messages) \in Nat /\ messages \in Seq(Kept)
  BY LenProperties DEF ToolsInv
<1> DEFINE f == [n \in 1..Len(responses) |-> "ok"]
<1>ok. /\ Len(f) = Len(responses) /\ f \o <<>> = f
       /\ f \o <<"error">> = Append(f, "error")
  BY <1>len, GoodTurns
<1>run. status = "running" => Tools!Turns = f \o <<>>
  BY Zenon DEF Tools!Turns, Tools!Failed
<1>1. CASE Tools!CompleteFails
  <2>1. /\ status = "running" /\ todo = <<>> /\ Len(responses) < MaxIterations
        /\ status' = "failed" /\ sent' = Tools!Request
        /\ responses' = responses /\ messages' = messages /\ todo' = todo
    BY <1>1, Zenon DEF Tools!CompleteFails, Tools!MayAsk
  <2>2. Tools!CallsAreAnswered'
    BY <2>1, RequestIsAnswered
  <2>3. /\ \A n, id : CalledAt(n, id)' <=> CalledAt(n, id)
        /\ \A n, j : AnsweredOrDue(n, j)' <=> AnsweredOrDue(n, j)
    BY <2>1, Zenon DEF CalledAt, AnsweredOrDue
  <2>4. ToolsInv'
    BY <2>1, <2>2, <2>3 DEF ToolsInv
  <2>5. Tools!Turns' = f \o <<"error">>
    BY <2>1, Zenon DEF Tools!Turns, Tools!Failed
  <2> HIDE DEF f
  <2>6. Takes(Tools!Limit, Tools!Turns, Tools!Turns')
    BY <1>ok, <1>run, <2>1, <2>5 DEF Takes, Tools!Limit
  <2> QED
    BY <2>4, <2>6 DEF ToolTakes
<1>2. CASE Tools!Completed
  <2>1. /\ status = "running" /\ todo = <<>> /\ Len(responses) < MaxIterations
        /\ sent' = Tools!Request
    BY <1>2, Zenon DEF Tools!Completed, Tools!MayAsk
  <2>2. PICK c \in 0..MaxCalls :
          /\ responses' = Append(responses, c)
          /\ todo' = [j \in 1..c |-> <<Len(responses) + 1, j>>]
          /\ messages' = IF c = 0 THEN messages
                         ELSE Append(messages,
                           [Tools!Message("assistant") EXCEPT !.calls = todo'])
          /\ status' = IF c = 0 THEN "succeeded" ELSE status
    BY <1>2, Zenon DEF Tools!Completed
  <2>3. Tools!CallsAreAnswered'
    BY <2>1, RequestIsAnswered
  <2>4. /\ responses' \in Seq(Nat) /\ Len(responses') = Len(responses) + 1
        /\ Len(responses') <= MaxIterations
    <3>1. c \in Nat
      OBVIOUS
    <3>2. responses' \in Seq(Nat) /\ Len(responses') = Len(responses) + 1
      BY <1>len, <2>2, <3>1, Appended
    <3> QED
      BY <1>len, <2>1, <3>2
  <2>5. todo' \in Seq(Calls) /\ Len(todo') = c
    <3>1. todo' \in [1..c -> Calls] /\ c \in Nat
      BY <1>len, <2>2 DEF Calls
    <3> QED
      BY <3>1, FunctionIsSeq
  <2>6. ToolsInv'
    <3>1. CASE c = 0
      <4>1. messages' = messages /\ status' = "succeeded" /\ todo' = <<>>
        BY <2>2, <2>5, <3>1, EmptySeq
      <4>2. todo' = todo
        BY <2>1, <4>1
      <4>3. /\ \A n, id : CalledAt(n, id)' <=> CalledAt(n, id)
            /\ \A n, j : AnsweredOrDue(n, j)' <=> AnsweredOrDue(n, j)
        BY <4>1, <4>2, Zenon DEF CalledAt, AnsweredOrDue
      <4> QED
        BY <2>3, <2>4, <4>1, <4>2, <4>3 DEF ToolsInv
    <3>2. CASE c # 0
      <4> DEFINE msg == [Tools!Message("assistant") EXCEPT !.calls = todo']
      <4>1. /\ msg \in Kept /\ msg.role = "assistant" /\ msg.calls = todo'
        BY <2>5 DEF Tools!Message, Kept
      <4>2. messages' = Append(messages, msg) /\ status' = status
        BY <2>2, <3>2
      <4> HIDE DEF msg
      <4>3. /\ messages' \in Seq(Kept) /\ Len(messages') = Len(messages) + 1
        BY <1>len, <4>1, <4>2, Appended
      <4>4. /\ \A n \in 1..Len(messages') :
                 /\ messages'[n].role = "assistant" =>
                      \A j \in 1..Len(messages'[n].calls) : AnsweredOrDue(n, j)'
                 /\ messages'[n].role = "tool" => CalledAt(n, messages[n].id)'
                 /\ messages'[n].role \notin {"assistant", "tool"} => n <= 2
            /\ \A m \in 1..Len(todo') : CalledAt(Len(messages) + m, todo[m])'
        BY <2>1, <2>5, <4>1, <4>2, CallsBecomeDue
      <4>5. Len(messages') >= 2
        BY <1>len, <4>3 DEF ToolsInv
      <4> QED
        BY <2>1, <2>3, <2>4, <2>5, <4>2, <4>3, <4>4, <4>5 DEF ToolsInv
    <3> QED
      BY <3>1, <3>2
  <2>7. Takes(Tools!Limit, Tools!Turns, Tools!Turns')
    <3> DEFINE g == [n \in 1..Len(responses) + 1 |-> "ok"]
    <3>1. g = Append(f, "ok") /\ g \o <<>> = g
      BY <1>len, OneMoreGoodTurn, GoodTurns
    <3>2. status' \in {"running", "succeeded"}
      BY <2>1, <2>2
    <3>3. status' # "failed"
      BY <3>2
    <3>4. Tools!Turns' = g \o <<>>
      BY <2>4, <3>3, Zenon DEF Tools!Turns, Tools!Failed
    <3> HIDE DEF f, g
    <3> QED
      BY <1>ok, <1>run, <2>1, <3>1, <3>2, <3>4 DEF Takes, Tools!Limit
  <2> QED
    BY <2>6, <2>7 DEF ToolTakes
<1>3. CASE Tools!ExecuteTool
  <2>1. /\ status = "running" /\ todo # <<>> /\ todo' = Tail(todo)
        /\ messages' = Append(messages,
                         [Tools!Message("tool") EXCEPT !.id = Head(todo)])
        /\ responses' = responses /\ sent' = sent /\ status' = status
    BY <1>3, Zenon DEF Tools!ExecuteTool
  <2> DEFINE msg == [Tools!Message("tool") EXCEPT !.id = Head(todo)]
  <2>2. msg \in Kept /\ msg.role = "tool" /\ msg.id = Head(todo)
    <3>1. Head(todo) \in Calls
      BY <2>1, HeadTailProperties DEF ToolsInv
    <3>2. <<>> \in Seq(Calls)
      BY EmptySeq
    <3> QED
      BY <3>1, <3>2 DEF Tools!Message, Kept
  <2>3. messages' = Append(messages, msg)
    BY <2>1
  <2> HIDE DEF msg
  <2>4. /\ messages' \in Seq(Kept) /\ Len(messages') = Len(messages) + 1
    BY <1>len, <2>2, <2>3, Appended
  <2>5. /\ todo' \in Seq(Calls)
        /\ \A n \in 1..Len(messages') :
             /\ messages'[n].role = "assistant" =>
                  \A j \in 1..Len(messages'[n].calls) : AnsweredOrDue(n, j)'
             /\ messages'[n].role = "tool" => CalledAt(n, messages[n].id)'
             /\ messages'[n].role \notin {"assistant", "tool"} => n <= 2
        /\ \A m \in 1..Len(todo') : CalledAt(Len(messages) + m, todo[m])'
    BY <2>1, <2>2, <2>3, ResultIsInPlace
  <2>6. Tools!CallsAreAnswered' <=> Tools!CallsAreAnswered
    BY <2>1, Zenon DEF Tools!CallsAreAnswered
  <2>7. Len(messages') >= 2
    BY <1>len, <2>4 DEF ToolsInv
  <2>8. ToolsInv'
    BY <2>1, <2>4, <2>5, <2>6, <2>7 DEF ToolsInv
  <2>9. status' # "failed" /\ status # "failed"
    BY <2>1
  <2>10. Tools!Turns' = Tools!Turns
    BY <2>1, <2>9, Zenon DEF Tools!Turns, Tools!Failed
  <2> QED
    BY <2>1, <2>8, <2>10 DEF ToolTakes
<1>4. CASE Tools!MaxReached
  <2>1. /\ status = "running" /\ todo = <<>> /\ Len(responses) = MaxIterations
        /\ status' = "failed" /\ responses' = responses
        /\ messages' = messages /\ todo' = todo /\ sent' = sent
    BY <1>4, Zenon DEF Tools!MaxReached
  <2>2. /\ \A n, id : CalledAt(n, id)' <=> CalledAt(n, id)
        /\ \A n, j : AnsweredOrDue(n, j)' <=> AnsweredOrDue(n, j)
        /\ Tools!CallsAreAnswered' <=> Tools!CallsAreAnswered
    BY <2>1, Zenon DEF CalledAt, AnsweredOrDue, Tools!CallsAreAnswered
  <2>3. ToolsInv'
    BY <2>1, <2>2 DEF ToolsInv
  <2>4. ~(Len(responses') < MaxIterations)
    BY <2>1
  <2>5. Tools!Turns' = f \o <<>>
    BY <2>1, <2>4, Zenon DEF Tools!Turns, Tools!Failed
  <2> HIDE DEF f
  <2> QED
    BY <1>run, <2>1, <2>3, <2>5 DEF Takes, ToolTakes
<1> QED
  BY <1>1, <1>2, <1>3, <1>4, Zenon DEF Tools!Step

-----------------------------------------------------------------------------
(* Whichever executor runs *)

Inv ==
  /\ executor \in {"router", "pipeline", "chat", "tools"}
  /\ executor = "router" => RouterInv
  /\ executor = "pipeline" => PipelineInv
  /\ executor = "chat" => ChatInv
  /\ executor = "tools" => ToolsInv

\* The turns and the limit are those of the executor that runs.
LEMMA WhoseTurns ==
  /\ executor = "router" => Turns = Router!Turns /\ Limit = Router!Limit
  /\ executor = "pipeline" => Turns = Line!Turns /\ Limit = Line!Limit
  /\ executor = "chat" => Turns = Chat!Turns /\ Limit = Chat!Limit
  /\ executor = "tools" => Turns = Tools!Turns /\ Limit = Tools!Limit
<1> DEFINE rt == Router!Turns rl == Router!Limit
           lt == Line!Turns   ll == Line!Limit
           ct == Chat!Turns   cl == Chat!Limit
           tt == Tools!Turns  tl == Tools!Limit
<1>1. Turns = CASE executor = "router" -> rt [] executor = "pipeline" -> lt
                [] executor = "chat" -> ct [] executor = "tools" -> tt
  BY Zenon DEF Turns
<1>2. Limit = CASE executor = "router" -> rl [] executor = "pipeline" -> ll
                [] executor = "chat" -> cl [] executor = "tools" -> tl
  BY Zenon DEF Limit
<1> HIDE DEF rt, rl, lt, ll, ct, cl, tt, tl
<1>3. /\ executor = "router" => Turns = rt /\ Limit = rl
      /\ executor = "pipeline" => Turns = lt /\ Limit = ll
      /\ executor = "chat" => Turns = ct /\ Limit = cl
      /\ executor = "tools" => Turns = tt /\ Limit = tl
  BY <1>1, <1>2
<1> QED
  BY <1>3 DEF rt, rl, lt, ll, ct, cl, tt, tl

\* The same in the next state.
LEMMA WhoseTurnsNext ==
  /\ executor' = "router" => Turns' = Router!Turns' /\ Limit' = Router!Limit'
  /\ executor' = "pipeline" => Turns' = Line!Turns' /\ Limit' = Line!Limit'
  /\ executor' = "chat" => Turns' = Chat!Turns' /\ Limit' = Chat!Limit'
  /\ executor' = "tools" => Turns' = Tools!Turns' /\ Limit' = Tools!Limit'
<1>1. (/\ executor = "router" => Turns = Router!Turns /\ Limit = Router!Limit
       /\ executor = "pipeline" => Turns = Line!Turns /\ Limit = Line!Limit
       /\ executor = "chat" => Turns = Chat!Turns /\ Limit = Chat!Limit
       /\ executor = "tools" => Turns = Tools!Turns /\ Limit = Tools!Limit)'
  BY WhoseTurns, PTL
<1> QED
  BY <1>1

\* Every conversation begins with the invariant, and without a turn.
LEMMA InitInv == Init => Inv /\ Promised!Init
<1> SUFFICES ASSUME Init PROVE Inv /\ Promised!Init
  OBVIOUS
<1> USE OrchestrationAssumption
<1>1. /\ MaxHandoffs \in Nat /\ MaxSteps \in Nat /\ MaxRounds \in Nat
      /\ MaxIterations \in Nat /\ Router!HandoffAssumption
  BY Zenon DEF OrchestrationAssumption
<1>none. \A t : t \in [1..0 -> {"ok", "error"}] => t = <<>>
  <2>1. \A t : t \in [1..0 -> {"ok", "error"}] =>
                 t \in Seq({"ok", "error"}) /\ Len(t) = 0
    BY FunctionIsSeq
  <2> QED
    BY <2>1, EmptySeq
<1>2. CASE executor = "router" /\ Router!Init
  <2>1. RouterInv
    BY <1>1, <1>2, RouterInvInit
  <2>2. path = <<>> /\ status = "running"
    BY <1>2, Zenon DEF Router!Init
  <2>3. Router!Turns = <<>> /\ Router!Limit \in Nat
    <3>1. Router!Turns \in [1..0 -> {"ok", "error"}]
      BY <2>2 DEF Router!Turns
    <3> QED
      BY <1>1, <1>none, <3>1 DEF Router!Limit
  <2> QED
    BY <1>2, <2>1, <2>2, <2>3, WhoseTurns DEF Inv, Promised!Init
<1>3. CASE executor = "pipeline" /\ Line!Init
  <2>1. PipelineInv
    BY <1>1, <1>3, PipelineInvInit
  <2>2. steps = <<>> /\ status = "running"
    BY <1>3, Zenon DEF Line!Init
  <2>3. Line!Turns = <<>> /\ Line!Limit \in Nat
    <3>1. Line!Turns = [n \in 1..Len(steps) |->
                          IF steps[n].error = NoError THEN "ok" ELSE "error"]
      BY Zenon DEF Line!Turns, NoError
    <3>2. Line!Turns \in [1..0 -> {"ok", "error"}]
      BY <2>2, <3>1
    <3>3. Line!Limit \in Nat
      BY <2>1, LenProperties DEF PipelineInv, Line!Limit
    <3> QED
      BY <1>none, <3>2, <3>3
  <2> QED
    BY <1>3, <2>1, <2>2, <2>3, WhoseTurns DEF Inv, Promised!Init
<1>4. CASE executor = "chat" /\ Chat!Init
  <2>1. ChatInv
    BY <1>4, ChatInvInit
  <2>2. messages = <<>> /\ status = "running" /\ failed = FALSE
    BY <1>4, Zenon DEF Chat!Init
  <2>3. Chat!Turns = <<>> /\ Chat!Limit \in Nat
    <3> DEFINE f == [n \in 1..0 |-> "ok"]
    <3>1. f \o <<>> = f
      BY GoodTurns
    <3>2. Chat!Turns = [n \in 1..Len(messages) |-> "ok"] \o <<>>
      BY <2>2, Zenon DEF Chat!Turns
    <3>3. Len(messages) = 0
      BY <2>2
    <3>4. f \in [1..0 -> {"ok", "error"}]
      OBVIOUS
    <3>5. f = <<>>
      BY <1>none, <3>4
    <3> QED
      BY <1>1, <3>1, <3>2, <3>3, <3>5 DEF Chat!Limit
  <2> QED
    BY <1>4, <2>1, <2>2, <2>3, WhoseTurns DEF Inv, Promised!Init
<1>5. CASE executor = "tools" /\ Tools!Init
  <2>1. ToolsInv
    BY <1>1, <1>5, ToolsInvInit
  <2>2. responses = <<>> /\ status = "running"
    BY <1>5, Zenon DEF Tools!Init
  <2>3. Tools!Turns = <<>> /\ Tools!Limit \in Nat
    <3> DEFINE f == [n \in 1..0 |-> "ok"]
    <3>1. f \o <<>> = f
      BY GoodTurns
    <3>2. Tools!Turns = [n \in 1..Len(responses) |-> "ok"] \o <<>>
      BY <2>2, Zenon DEF Tools!Turns, Tools!Failed
    <3>3. Len(responses) = 0
      BY <2>2
    <3>4. f \in [1..0 -> {"ok", "error"}]
      OBVIOUS
    <3>5. f = <<>>
      BY <1>none, <3>4
    <3> QED
      BY <1>1, <3>1, <3>2, <3>3, <3>5 DEF Tools!Limit
  <2> QED
    BY <1>5, <2>1, <2>2, <2>3, WhoseTurns DEF Inv, Promised!Init
<1> QED
  BY <1>2, <1>3, <1>4, <1>5, Zenon DEF Init

\* A step of a Conversation, or none.
LEMMA TakesIsPromised ==
  ASSUME UNCHANGED Limit,
         \/ Takes(Limit, Turns, Turns')
         \/ Turns' = Turns /\ status' = status
  PROVE  [Promised!Next]_(Promised!conversation)
BY DEF Takes, Promised!Next, Promised!Turn, Promised!End, Promised!conversation

\* Each step keeps the invariant and is one of a Conversation.
LEMMA NextInv ==
  Inv /\ [Next]_vars => Inv' /\ [Promised!Next]_(Promised!conversation)
<1> SUFFICES ASSUME Inv, [Next]_vars
             PROVE  Inv' /\ [Promised!Next]_(Promised!conversation)
  OBVIOUS
<1> USE OrchestrationAssumption
<1>1. /\ MaxHandoffs \in Nat /\ MaxSteps \in Nat /\ MaxRounds \in Nat
      /\ MaxIterations \in Nat /\ MaxCalls \in Nat /\ Router!HandoffAssumption
  BY Zenon DEF OrchestrationAssumption
<1>2. CASE executor = "router" /\ Router!Step /\ executor' = executor
  <2>1. RouterInv' /\ Takes(Router!Limit, Router!Turns, Router!Turns')
    BY <1>1, <1>2, RouterStep DEF Inv
  <2>2. UNCHANGED Limit /\ Takes(Limit, Turns, Turns')
    BY <1>2, <2>1, WhoseTurns, WhoseTurnsNext DEF Router!Limit
  <2>3. Inv'
    BY <1>2, <2>1 DEF Inv
  <2> QED
    BY <2>2, <2>3, TakesIsPromised
<1>3. CASE executor = "pipeline" /\ Line!Step /\ executor' = executor
  <2>1. /\ PipelineInv' /\ UNCHANGED Line!Limit
        /\ Takes(Line!Limit, Line!Turns, Line!Turns')
    BY <1>1, <1>3, PipelineStep DEF Inv
  <2>2. UNCHANGED Limit /\ Takes(Limit, Turns, Turns')
    BY <1>3, <2>1, WhoseTurns, WhoseTurnsNext
  <2>3. Inv'
    BY <1>3, <2>1 DEF Inv
  <2> QED
    BY <2>2, <2>3, TakesIsPromised
<1>4. CASE executor = "chat" /\ Chat!Step /\ executor' = executor
  <2>1. ChatInv' /\ Takes(Chat!Limit, Chat!Turns, Chat!Turns')
    BY <1>1, <1>4, ChatStep DEF Inv
  <2>2. UNCHANGED Limit /\ Takes(Limit, Turns, Turns')
    BY <1>4, <2>1, WhoseTurns, WhoseTurnsNext DEF Chat!Limit
  <2>3. Inv'
    BY <1>4, <2>1 DEF Inv
  <2> QED
    BY <2>2, <2>3, TakesIsPromised
<1>5. CASE executor = "tools" /\ Tools!Step /\ executor' = executor
  <2>1. ToolsInv' /\ ToolTakes
    BY <1>1, <1>5, ToolsStep DEF Inv
  <2>2. /\ UNCHANGED Limit
        /\ \/ Takes(Limit, Turns, Turns')
           \/ Turns' = Turns /\ status' = status
    <3>1. /\ Turns = Tools!Turns /\ Turns' = Tools!Turns'
          /\ Limit = Tools!Limit /\ Limit' = Limit
      BY <1>5, WhoseTurns, WhoseTurnsNext DEF Tools!Limit
    <3> QED
      BY <2>1, <3>1, Zenon DEF ToolTakes
  <2>3. Inv'
    BY <1>5, <2>1 DEF Inv
  <2> QED
    BY <2>2, <2>3, TakesIsPromised
<1>6. CASE UNCHANGED vars
  <2>1. /\ executor' = executor /\ status' = status /\ Turns' = Turns
        /\ Limit' = Limit
    BY <1>6, Zenon
    DEF vars, routerOnly, pipelineOnly, chatOnly, toolsOnly, Turns, Limit,
        Router!Turns, Line!Turns, Chat!Turns, Tools!Turns, Tools!Failed,
        Router!Limit, Line!Limit, Chat!Limit, Tools!Limit
  <2>2. RouterInv' <=> RouterInv
    BY <1>6, Zenon
    DEF vars, routerOnly, RouterInv, Named, Follows, Router!ContextReaches
  <2>3. PipelineInv' <=> PipelineInv
    BY <1>6, Zenon
    DEF vars, pipelineOnly, PipelineInv, Line!Chained, Succeeded, PutOut
  <2>4. ChatInv => ChatInv'
    <3>1. /\ roundRobin' = roundRobin /\ participants' = participants
          /\ messages' = messages /\ index' = index /\ failed' = failed
          /\ status' = status
      BY <1>6, Zenon DEF vars, chatOnly
    <3> QED
      BY <3>1, ChatStutters, Zenon
  <2>5. ToolsInv' <=> ToolsInv
    <3>1. /\ responses' = responses /\ todo' = todo /\ sent' = sent
          /\ messages' = messages /\ status' = status
      BY <1>6, Zenon DEF vars, toolsOnly
    <3>2. /\ \A n, id : CalledAt(n, id)' <=> CalledAt(n, id)
          /\ \A n, j : AnsweredOrDue(n, j)' <=> AnsweredOrDue(n, j)
          /\ Tools!CallsAreAnswered' <=> Tools!CallsAreAnswered
      BY <3>1, Zenon DEF CalledAt, AnsweredOrDue, Tools!CallsAreAnswered
    <3> QED
      BY <3>1, <3>2 DEF ToolsInv
  <2>6. Inv'
    BY <2>1, <2>2, <2>3, <2>4, <2>5, Zenon DEF Inv
  <2> QED
    BY <2>1, <2>6, TakesIsPromised
<1> QED
  BY <1>2, <1>3, <1>4, <1>5, <1>6, Zenon DEF Next, Step, Returned

\* The invariant always holds, and the turns are those of a Conversation.
LEMMA Invariant ==
  Spec => []Inv /\ Promised!Init /\ [][Promised!Next]_(Promised!conversation)
<1>1. Init => Inv /\ Promised!Init
  BY InitInv
<1>2. Inv /\ [Next]_vars => Inv' /\ [Promised!Next]_(Promised!conversation)
  BY NextInv
<1> QED
  BY <1>1, <1>2, PTL DEF Spec

-----------------------------------------------------------------------------
(* Theorems *)

\* HandoffRouter.HandleWithTrace (handoff.go): however many handoffs are
\* allowed and whatever the agents answer, nobody is asked but whom the agent
\* before has named, with the context it gave, and the output is the answer of
\* the last agent asked, whose request has not failed.
THEOREM RouterFollowsDecisions == Spec => []FollowsDecisions
<1>1. Inv => FollowsDecisions
  <2> SUFFICES ASSUME Inv, executor = "router" PROVE Router!FollowsDecisions
    BY Zenon DEF FollowsDecisions
  <2>1. RouterInv
    BY DEF Inv
  <2> QED
    BY <2>1 DEF RouterInv, Follows, Router!FollowsDecisions, Router!Last
<1> QED
  BY <1>1, Invariant, PTL

\* Pipeline.ExecuteWithTrace (pipeline.go): whatever the number of steps,
\* each gets what the step before has put out, and the pipeline succeeds only
\* when all have, with the output of the last.
THEOREM PipelinePassesOutputsOn == Spec => []OutputsArePassedOn
<1>1. Inv => OutputsArePassedOn
  <2> SUFFICES ASSUME Inv, executor = "pipeline"
               PROVE  Line!Chained /\ Line!SucceedsWithAllSteps
    BY Zenon DEF OutputsArePassedOn
  <2>1. PipelineInv
    BY DEF Inv
  <2>2. ASSUME status = "succeeded"
        PROVE  /\ Len(steps) = Len(transforms)
               /\ \A n \in 1..Len(steps) : steps[n].error = NoError
               /\ Line!Result = current
    <3>1. /\ Len(steps) \in Nat /\ current = PutOut(Len(steps))
          /\ Len(steps) > 0 => steps[Len(steps)].output = current
          /\ Len(steps) = Len(transforms) /\ Succeeded
      BY <2>1, <2>2, LenProperties DEF PipelineInv
    <3>2. Line!Result = IF steps = <<>> THEN Line!Input
                        ELSE steps[Len(steps)].output
      BY Zenon DEF Line!Result, Line!Last
    <3>3. steps = <<>> => Len(steps) = 0
      OBVIOUS
    <3>4. steps # <<>> => Len(steps) > 0
      BY <2>1, EmptySeq DEF PipelineInv
    <3> QED
      BY <3>1, <3>2, <3>3, <3>4 DEF Succeeded, PutOut
  <2>3. Line!SucceedsWithAllSteps
    BY <2>2, Zenon DEF Line!SucceedsWithAllSteps, NoError
  <2> QED
    BY <2>1, <2>3 DEF PipelineInv
<1> QED
  BY <1>1, Invariant, PTL

\* GroupChat.DiscussWithTrace with RoundRobinManager (groupchat.go): however
\* many participants and rounds there are, participants with distinct names
\* are never more than one message apart.
THEOREM TurnsAreEven == Spec => []SpeaksOncePerCycle
<1>1. Inv => SpeaksOncePerCycle
  <2> SUFFICES ASSUME Inv, executor = "chat", Chat!IsInjective(participants)
               PROVE  Chat!SpeaksOncePerCycle
    BY Zenon DEF SpeaksOncePerCycle, Chat!NamedApartSpeaksOncePerCycle
  <2>1. ChatInv
    BY DEF Inv
  <2>2. CASE roundRobin
    BY <2>1, <2>2, InTurnIsEven, Zenon DEF ChatInv
  <2>3. CASE ~roundRobin
    BY <2>3, Zenon DEF Chat!SpeaksOncePerCycle
  <2> QED
    BY <2>2, <2>3
<1> QED
  BY <1>1, Invariant, PTL

\* RunToolLoop (tool-calling/loop.go): however many tools a response calls,
\* the model is asked again with exactly one result for each of its calls, in
\* order and before anything else is said.
THEOREM ModelGetsResults == Spec => []CallsAreAnswered
<1>1. Inv => CallsAreAnswered
  BY Zenon DEF Inv, ToolsInv, CallsAreAnswered
<1> QED
  BY <1>1, Invariant, PTL

\* All four executors take turns as a Conversation does: one after the other,
\* never after a failed one or after the end, never more than the limit that
\* was set when the conversation began.  (That the end comes, the other half
\* of ImplementsConversation, needs the fairness of FairSpec.)
THEOREM TurnsAreTakenAsPromised == Spec => Promised!Safety
<1>1. Promised!Init /\ [][Promised!Next]_(Promised!conversation)
        => Promised!Safety
  BY DEF Promised!Safety
<1> QED
  BY <1>1, Invariant, PTL
=============================================================================
