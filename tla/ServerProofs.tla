---------------------------- MODULE ServerProofs ----------------------------
(***************************************************************************)
(* Theorems about Server for all values of its constants: any number of    *)
(* servers, services, calls of Run and requests.                           *)
(***************************************************************************)
EXTENDS Server, SequenceTheorems, WellFoundedInduction, TLAPS

-----------------------------------------------------------------------------
(* Type correctness *)

\* Type correctness is inductive together with this: a call of Run that is in
\* progress has a number, its services are subscribed one after the other, and
\* a goroutine that is serving a request knows which.
Numbered == \A s \in Servers : run[s] \notin {"idle", "killed"} => runs[s] # 0
InOrder ==
  \A s \in Servers : run[s] = "subscribe" => Len(subs[s]) < deployment.services
InHand ==
  \A st \in Streams :
    /\ handler[st].pc = "idle" => handler[st] = Idle
    /\ handler[st].pc # "idle" => handler[st].req \in Requests
    /\ handler[st].pc = "replying" =>
         handler[st].result \in HandlerErrors \cup {Response}
SubsKept ==
  \A s \in Servers :
    run[s] \in {"idle", "connect", "disconnect", "closeConn"} => subs[s] = <<>>

TypeInv == TypeOK /\ Numbered /\ InOrder /\ InHand /\ SubsKept

\* What a call of Run does, its context included.
RunStep(s) ==
  \/ RunBegin(s) \/ ConnectSucceeds(s) \/ ConnectFails(s)
  \/ SubscribeSucceeds(s) \/ SubscribeFails(s)
  \/ ContextDone(s) \/ Signal(s) \/ Kill(s)
  \/ Unsubscribe(s) \/ Disconnect(s) \/ CloseConn(s) \/ Cancel(s)

\* What is published is a response or an error's code.
LEMMA ReplyDataType ==
  ASSUME NEW result \in HandlerErrors \cup {Response}
  PROVE  ReplyData(result) \in Replies \ {"unsent", "waiting", "failed"}
<1>1. CASE result = Response
  BY <1>1 DEF ReplyData, Replies, ServiceCodes
<1>2. CASE result # Response
  <2>1. result \in Seq(Layers) /\ result # <<>>
    BY <1>2, ServerAssumption
  <2>2. result[1] \in Layers
    BY <2>1
  <2>3. formatError(result) \in ServiceCodes \cup {""}
    BY <2>2
    DEF formatError, Layers, ServiceCodes, ErrorCodes, StatusCodes, MappedCodes
  <2> QED
    BY <1>2, <2>3 DEF ReplyData, Replies, ServiceCodes
<1> QED
  BY <1>1, <1>2

\* The initial state has the types.
LEMMA InitType == Init => TypeInv
<1> SUFFICES ASSUME Init PROVE TypeInv
  OBVIOUS
<1>1. TypeOK
  <2>1. handler \in [Streams -> HandlerRecs]
    BY DEF Init, Idle, HandlerRecs
  <2>2. runs \in [Servers -> 0..MaxRuns]
    BY ServerAssumption DEF Init
  <2>3. subs \in [Servers -> Seq(Services)]
    BY DEF Init
  <2> QED
    BY <2>1, <2>2, <2>3 DEF Init, TypeOK, RunPcs, Replies, ServiceCodes
<1> QED
  BY <1>1 DEF Init, TypeInv, Numbered, InOrder, InHand, SubsKept, Idle

\* What is run is one of the deployments.
LEMMA DeploymentType ==
  ASSUME TypeOK
  PROVE  /\ deployment.services \in Services
         /\ deployment.services \in Nat /\ deployment.services > 0
         /\ 1..deployment.services \subseteq Services
         /\ deployment.runs \in [Servers -> 0..MaxRuns]
         /\ deployment.subject \in [Requests -> {0} \cup Services]
<1>1. deployment \in Deployment
  BY ServerAssumption DEF TypeOK
<1>2. /\ deployment.services \in Services
      /\ deployment.runs \in [Servers -> 0..MaxRuns]
      /\ deployment.subject \in [Requests -> {0} \cup Services]
  BY <1>1 DEF Deployment
<1>3. \A v \in Services : v \in Nat /\ v > 0 /\ 1..v \subseteq Services
  BY ServerAssumption
<1> QED
  BY <1>2, <1>3

\* A call of Run that is in progress has a number within the bound.
LEMMA RunNumber ==
  ASSUME TypeInv, NEW s \in Servers, run[s] \notin {"idle", "killed"}
  PROVE  runs[s] \in 1..MaxRuns /\ Current(s) \in Servers \X (1..MaxRuns)
<1>1. runs[s] \in 0..MaxRuns /\ runs[s] # 0
  BY DEF TypeInv, TypeOK, Numbered
<1>2. runs[s] \in 1..MaxRuns
  BY <1>1, ServerAssumption
<1> QED
  BY <1>2 DEF Current

\* Every step of Run, and the end of its context, keeps the types.
LEMMA RunKeepsType ==
  ASSUME TypeInv, NEW s \in Servers, RunStep(s)
  PROVE  TypeInv'
<1> USE DEF TypeInv, TypeOK, Numbered, InOrder, InHand, SubsKept
<1>1. CASE RunBegin(s)
  <2>1. deployment.runs[s] \in 0..MaxRuns
    BY DeploymentType
  <2>2. runs[s] + 1 \in 0..MaxRuns /\ runs[s] + 1 # 0
    BY <1>1, <2>1, ServerAssumption DEF RunBegin
  <2>3. runs' = [runs EXCEPT ![s] = runs[s] + 1]
    BY <1>1 DEF RunBegin
  <2> QED
    BY <1>1, <2>2, <2>3 DEF RunBegin, Go, RunPcs
<1>2. CASE ConnectSucceeds(s)
  <2>1. Current(s) \in Servers \X (1..MaxRuns)
    BY <1>2, RunNumber DEF ConnectSucceeds
  <2>2. InOrder'
    BY <1>2, DeploymentType DEF ConnectSucceeds, Go
  <2>3. known' \subseteq Servers \X (1..MaxRuns)
    BY <1>2, <2>1 DEF ConnectSucceeds
  <2> QED
    BY <1>2, <2>2, <2>3 DEF ConnectSucceeds, Go, RunPcs
<1>3. CASE ConnectFails(s)
  BY <1>3 DEF ConnectFails, Go, RunPcs
<1>4. CASE SubscribeSucceeds(s)
  <2> DEFINE n == ToSubscribe(s)
  <2>1. /\ n \in Services /\ n \in Nat /\ n > 0
        /\ n # deployment.services => n < deployment.services
    <3>1. subs[s] \in Seq(Services) /\ Len(subs[s]) < deployment.services
      BY <1>4 DEF SubscribeSucceeds
    <3>2. n \in 1..deployment.services
      BY <3>1, DeploymentType DEF ToSubscribe
    <3> QED
      BY <3>2, DeploymentType
  <2>2. streams' \subseteq Streams /\ streams \subseteq streams'
    BY <1>4, <2>1, RunNumber DEF SubscribeSucceeds, Streams
  <2>3. /\ subs' = [subs EXCEPT ![s] = Append(subs[s], n)]
        /\ run' \in {run, [run EXCEPT ![s] = "wait"]}
        /\ n = deployment.services => run' = [run EXCEPT ![s] = "wait"]
    BY <1>4 DEF SubscribeSucceeds, Go
  <2>4. Append(subs[s], n) \in Seq(Services) /\ Len(Append(subs[s], n)) = n
    BY <2>1 DEF ToSubscribe
  <2> HIDE DEF n
  <2>5. /\ subs' \in [Servers -> Seq(Services)]
        /\ \A t \in Servers : Len(subs'[t]) = IF t = s THEN n ELSE Len(subs[t])
        /\ \A t \in Servers \ {s} : subs'[t] = subs[t]
    BY <2>3, <2>4
  <2>6. InOrder'
    BY <1>4, <2>1, <2>3, <2>5 DEF SubscribeSucceeds
  <2>7. run' \in [Servers -> RunPcs] /\ Numbered' /\ SubsKept'
    BY <1>4, <2>3, <2>5 DEF SubscribeSucceeds, RunPcs
  <2> QED
    BY <1>4, <2>2, <2>5, <2>6, <2>7 DEF SubscribeSucceeds
<1>5. CASE SubscribeFails(s)
  BY <1>5 DEF SubscribeFails, Go, RunPcs
<1>6. CASE ContextDone(s)
  BY <1>6 DEF ContextDone, Go, RunPcs
<1>7. CASE Signal(s)
  BY <1>7 DEF Signal, Go, RunPcs
<1>8. CASE Kill(s)
  BY <1>8 DEF Kill, Go, End, RunPcs, HandlerRecs, Idle
<1>9. CASE Unsubscribe(s)
  BY <1>9 DEF Unsubscribe, Go, RunPcs
<1>10. CASE Disconnect(s)
  BY <1>10 DEF Disconnect, Go, RunPcs
<1>11. CASE CloseConn(s)
  BY <1>11 DEF CloseConn, Go, End, RunPcs
<1>12. CASE Cancel(s)
  BY <1>12, RunNumber DEF Cancel, End
<1> QED
  BY <1>1, <1>2, <1>3, <1>4, <1>5, <1>6, <1>7, <1>8, <1>9, <1>10, <1>11, <1>12 DEF RunStep

\* The steps of the goroutine that receives from a stream.
ServingStep(st) ==
  (\E q \in Requests : Take(st, q)) \/ Return(st) \/ Reply(st)

\* They keep the types too.
LEMMA ServingKeepsType ==
  ASSUME TypeInv, NEW st \in Streams, ServingStep(st)
  PROVE  TypeInv'
<1> USE DEF TypeInv, TypeOK, Numbered, InOrder, InHand, SubsKept
<1>1. ASSUME NEW q \in Requests, Take(st, q) PROVE TypeInv'
  <2>1. [pc |-> "handling", req |-> q, result |-> None] \in HandlerRecs
    BY DEF HandlerRecs
  <2> QED
    BY <1>1, <2>1 DEF Take
<1>2. CASE Return(st)
  <2>1. PICK result \in HandlerErrors \cup {Response} :
          handler' = [handler EXCEPT ![st].pc = "replying",
                                     ![st].result = result]
    BY <1>2 DEF Return
  <2> DEFINE rec == [handler[st] EXCEPT !.pc = "replying", !.result = result]
  <2>2. /\ rec \in HandlerRecs /\ rec.pc = "replying"
        /\ rec.req \in Requests /\ rec.result = result
    BY <1>2 DEF Return, HandlerRecs
  <2>3. handler' = [handler EXCEPT ![st] = rec]
    BY <2>1
  <2> HIDE DEF rec
  <2> QED
    BY <1>2, <2>2, <2>3 DEF Return
<1>3. CASE Reply(st)
  <2>1. reply' \in [Requests -> Replies]
    <3>1. handler[st].req \in Requests
      BY <1>3 DEF Reply
    <3>2. ReplyData(handler[st].result) \in Replies
      BY <1>3, ReplyDataType DEF Reply
    <3> QED
      BY <1>3, <3>1, <3>2 DEF Reply, Published, PublishFailed, Received
  <2>2. lost' \subseteq Streams \X Requests
    <3>1. handler[st].req \in Requests /\ lost \subseteq Streams \X Requests
      BY <1>3 DEF Reply
    <3> QED
      BY <1>3, <3>1 DEF Reply, Published, PublishFailed
  <2>3. Idle \in HandlerRecs
    BY DEF Idle, HandlerRecs
  <2> QED
    BY <1>3, <2>1, <2>2, <2>3 DEF Reply, Idle
<1> QED
  BY <1>1, <1>2, <1>3 DEF ServingStep

\* The steps of the requesters, the network and the platform.
PlatformStep ==
  \/ \E st \in Streams : StreamEnds(st)
  \/ \E q \in Requests : RequestSent(q) \/ RequestTimesOut(q)
  \/ PlatformRestarts

\* They keep the types.
LEMMA PlatformKeepsType ==
  ASSUME TypeInv, PlatformStep
  PROVE  TypeInv'
<1> USE DEF TypeInv, TypeOK, Numbered, InOrder, InHand, SubsKept
<1>1. ASSUME NEW st \in Streams, StreamEnds(st) PROVE TypeInv'
  BY <1>1 DEF StreamEnds, End
<1>2. ASSUME NEW q \in Requests, RequestSent(q) PROVE TypeInv'
  <2>1. reply' \in [Requests -> Replies]
    BY <1>2 DEF RequestSent, Replies
  <2>2. routed' \subseteq streams \X Requests
    BY <1>2 DEF RequestSent, Listening
  <2> QED
    BY <1>2, <2>1, <2>2 DEF RequestSent
<1>3. ASSUME NEW q \in Requests, RequestTimesOut(q) PROVE TypeInv'
  BY <1>3 DEF RequestTimesOut, Replies
<1>4. CASE PlatformRestarts
  BY <1>4 DEF PlatformRestarts, End
<1> QED
  BY <1>1, <1>2, <1>3, <1>4 DEF PlatformStep

\* The steps of Next, by who takes them.
LEMMA NextSteps ==
  ASSUME [Next]_vars
  PROVE  \/ \E s \in Servers : RunStep(s)
         \/ \E st \in Streams : ServingStep(st)
         \/ PlatformStep
         \/ UNCHANGED vars
  BY DEF Next, RunStep, ServingStep, PlatformStep

\* Every step of Server keeps the types.
LEMMA NextKeepsType == TypeInv /\ [Next]_vars => TypeInv'
<1> SUFFICES ASSUME TypeInv, [Next]_vars PROVE TypeInv'
  OBVIOUS
<1>1. CASE UNCHANGED vars
  BY <1>1
  DEF vars, TypeInv, TypeOK, Numbered, InOrder, InHand, SubsKept
<1> QED
  BY <1>1, NextSteps, RunKeepsType, ServingKeepsType, PlatformKeepsType

\* Type correctness of the model of server.go.
THEOREM TypeCorrect == Spec => []TypeOK
<1>1. TypeInv => TypeOK
  BY DEF TypeInv
<1> QED
  BY <1>1, InitType, NextKeepsType, PTL DEF Spec

-----------------------------------------------------------------------------
(* What Run leaves behind *)

\* A stream that is open belongs to the call of Run that is in progress, at a
\* point where it has not closed its connection yet.
OwnStreams ==
  \A st \in streams :
    /\ RunOf(st) = runs[ServerOf(st)]
    /\ run[ServerOf(st)] \in {"subscribe", "wait", "unsubscribe", "disconnect",
                              "closeConn"}

\* Every step keeps that: a server that starts again has closed its connection.
LEMMA NextKeepsOwnStreams == TypeInv /\ OwnStreams /\ [Next]_vars => OwnStreams'
<1> SUFFICES ASSUME TypeInv, OwnStreams, [Next]_vars PROVE OwnStreams'
  OBVIOUS
<1>1. /\ run \in [Servers -> RunPcs] /\ runs \in [Servers -> 0..MaxRuns]
      /\ \A st \in streams : ServerOf(st) \in Servers
  BY DEF TypeInv, TypeOK, Streams, ServerOf
<1>2. ASSUME NEW s \in Servers, RunStep(s) PROVE OwnStreams'
  <2> USE <1>1 DEF OwnStreams
  <2>1. CASE RunBegin(s) \/ ConnectSucceeds(s) \/ ConnectFails(s)
    BY <2>1 DEF RunBegin, ConnectSucceeds, ConnectFails, Go
  <2>2. CASE SubscribeSucceeds(s)
    <3>1. streams' \subseteq streams \cup {<<s, runs[s], ToSubscribe(s)>>}
      BY <2>2 DEF SubscribeSucceeds
    <3> QED
      BY <2>2, <3>1 DEF SubscribeSucceeds, Go, ServerOf, RunOf
  <2>3. CASE SubscribeFails(s) \/ ContextDone(s) \/ Signal(s) \/ Unsubscribe(s)
               \/ Disconnect(s)
    BY <2>3 DEF SubscribeFails, ContextDone, Signal, Unsubscribe, Disconnect, Go
  <2>4. CASE Kill(s) \/ CloseConn(s) \/ Cancel(s)
    BY <2>4 DEF Kill, CloseConn, Cancel, End, Go
  <2> QED
    BY <1>2, <2>1, <2>2, <2>3, <2>4 DEF RunStep
<1>3. ASSUME NEW st \in Streams, ServingStep(st) PROVE OwnStreams'
  BY <1>3 DEF ServingStep, Take, Return, Reply, OwnStreams
<1>4. CASE PlatformStep
  BY <1>4
  DEF PlatformStep, StreamEnds, RequestSent, RequestTimesOut, PlatformRestarts,
      End, OwnStreams
<1>5. CASE UNCHANGED vars
  BY <1>5 DEF vars, OwnStreams
<1> QED
  BY <1>2, <1>3, <1>4, <1>5, NextSteps

\* On whatever path Run returns (a failed Connect, a failed subscription, a
\* shutdown, whether the platform answers or not), no stream of any of its
\* calls is open and no subscription is left for the next call.
THEOREM RunLeavesNothingOpen == Spec => []NothingLeftOpen
<1>1. Init => OwnStreams
  BY DEF Init, OwnStreams
<1>2. TypeInv /\ OwnStreams => NothingLeftOpen
  BY DEF TypeInv, SubsKept, OwnStreams, NothingLeftOpen
<1> QED
  BY <1>1, <1>2, InitType, NextKeepsType, NextKeepsOwnStreams, PTL DEF Spec

-----------------------------------------------------------------------------
(* Where a request goes *)

\* A request is routed when it is sent, once, and to one stream of a server at
\* most; whatever has become of its routes since, no second one is added.
Routes == routed \cup taken

RoutedOnce ==
  /\ \A a \in Routes : reply[a[2]] # "unsent"
  /\ \A a, b \in Routes :
       a[2] = b[2] /\ a # b =>
         /\ ServerOf(a[1]) # ServerOf(b[1])
         /\ deployment.subject[a[2]] \notin Queued

\* A step that routes nothing new and forgets no reply.
NothingRouted ==
  /\ Routes' \subseteq Routes /\ deployment' = deployment
  /\ \A q \in Requests : reply[q] # "unsent" => reply'[q] # "unsent"

\* Such a step keeps every request with one server.
LEMMA NothingRoutedKeeps ==
  ASSUME TypeInv, RoutedOnce, NothingRouted
  PROVE  RoutedOnce'
<1>1. \A a \in Routes : a[2] \in Requests
  BY DEF Routes, TypeInv, TypeOK
<1> QED
  BY <1>1 DEF RoutedOnce, NothingRouted

\* Two open streams of one service are streams of different servers.
LEMMA OneStreamOfAService ==
  ASSUME TypeInv, OwnStreams, NEW a \in streams, NEW b \in streams,
         ServiceOf(a) = ServiceOf(b), a # b
  PROVE  ServerOf(a) # ServerOf(b)
<1>1. a \in Streams /\ b \in Streams
  BY DEF TypeInv, TypeOK
<1>2. a = <<a[1], a[2], a[3]>> /\ b = <<b[1], b[2], b[3]>>
  BY <1>1 DEF Streams
<1> QED
  BY <1>2 DEF OwnStreams, ServerOf, RunOf, ServiceOf

\* Sending a request is the step that routes it.
LEMMA SendingRoutesOnce ==
  ASSUME TypeInv, OwnStreams, RoutedOnce, NEW q \in Requests, RequestSent(q)
  PROVE  RoutedOnce'
<1> DEFINE v == deployment.subject[q]
<1>1. \A a \in Routes : a[2] # q
  BY DEF RequestSent, RoutedOnce
<1>2. \A a \in Routes : a[2] \in Requests
  BY DEF Routes, TypeInv, TypeOK
<1>3. reply' = [reply EXCEPT ![q] = "waiting"] /\ reply \in [Requests -> Replies]
  BY DEF RequestSent, TypeInv, TypeOK
<1>4. PICK new \in SUBSET Listening(v) :
        /\ routed' = routed \cup (new \X {q})
        /\ v \in Queued => \A x, y \in new : x = y
  <2>1. CASE v \in Queued
    <3>1. CASE routed' = routed
      <4>1. {} \in SUBSET Listening(v) /\ routed' = routed \cup ({} \X {q})
        BY <3>1
      <4> QED
        BY <4>1
    <3>2. ASSUME NEW st \in Listening(v), routed' = routed \cup {<<st, q>>}
          PROVE  \E new \in SUBSET Listening(v) :
                   /\ routed' = routed \cup (new \X {q})
                   /\ v \in Queued => \A x, y \in new : x = y
      <4>1. {st} \in SUBSET Listening(v) /\ {<<st, q>>} = {st} \X {q}
        OBVIOUS
      <4> QED
        BY <3>2, <4>1
    <3> QED
      BY <2>1, <3>1, <3>2 DEF RequestSent
  <2>2. CASE v \notin Queued
    <3>1. Listening(v) \in SUBSET Listening(v)
      OBVIOUS
    <3> QED
      BY <2>2, <3>1 DEF RequestSent
  <2> QED
    BY <2>1, <2>2
<1>5. Routes' = Routes \cup (new \X {q})
  BY <1>4 DEF RequestSent, Routes
<1>6. \A x, y \in new : x # y => ServerOf(x) # ServerOf(y)
  BY OneStreamOfAService DEF Listening
<1>7. deployment' = deployment
  BY DEF RequestSent
<1> QED
  BY <1>1, <1>2, <1>3, <1>4, <1>5, <1>6, <1>7 DEF RoutedOnce

\* So does every other step: of the streams of a queue group one is chosen.
LEMMA NextKeepsRoutedOnce ==
  TypeInv /\ OwnStreams /\ RoutedOnce /\ [Next]_vars => RoutedOnce'
<1> SUFFICES ASSUME TypeInv, OwnStreams, RoutedOnce, [Next]_vars
             PROVE  RoutedOnce'
  OBVIOUS
<1>1. ASSUME NEW s \in Servers, RunStep(s) PROVE NothingRouted
  BY <1>1
  DEF RunStep, RunBegin, ConnectSucceeds, ConnectFails, SubscribeSucceeds,
      SubscribeFails, ContextDone, Signal, Kill, Unsubscribe, Disconnect,
      CloseConn, Cancel, End, NothingRouted, Routes
<1>2. ASSUME NEW st \in Streams, ServingStep(st) PROVE NothingRouted
  <2>1. CASE Reply(st)
    <3>1. handler[st].req \in Requests /\ reply \in [Requests -> Replies]
      BY <2>1 DEF Reply, TypeInv, TypeOK, InHand
    <3>2. ReplyData(handler[st].result) # "unsent"
      BY <2>1, ReplyDataType DEF Reply, TypeInv, InHand
    <3> QED
      BY <2>1, <3>1, <3>2
        DEF Reply, Published, PublishFailed, Received, NothingRouted, Routes
  <2>2. CASE ~Reply(st)
    BY <1>2, <2>2 DEF ServingStep, Take, Return, NothingRouted, Routes
  <2> QED
    BY <2>1, <2>2
<1>3. CASE PlatformStep
  <2>1. ASSUME NEW q \in Requests, RequestTimesOut(q) PROVE NothingRouted
    BY <2>1 DEF RequestTimesOut, NothingRouted, Routes, TypeInv, TypeOK
  <2>2. ASSUME PlatformRestarts \/ \E st \in Streams : StreamEnds(st)
        PROVE  NothingRouted
    <3>1. routed' \subseteq routed /\ taken' = taken /\ reply' = reply
          /\ deployment' = deployment
      BY <2>2 DEF PlatformRestarts, StreamEnds, End
    <3> QED
      BY <3>1 DEF NothingRouted, Routes
  <2> QED
    BY <1>3, <2>1, <2>2, SendingRoutesOnce, NothingRoutedKeeps DEF PlatformStep
<1>4. ASSUME UNCHANGED vars PROVE NothingRouted
  <2>1. routed' = routed /\ taken' = taken /\ reply' = reply
        /\ deployment' = deployment
    BY <1>4 DEF vars
  <2> QED
    BY <2>1 DEF NothingRouted, Routes
<1> QED
  BY <1>1, <1>2, <1>3, <1>4, NothingRoutedKeeps, NextSteps

\* A request is handled once by a server however often its Run is called, and
\* by one server only where there is a queue group, whatever happens to the
\* streams and the processes in between.
THEOREM RequestsHandledOnce == Spec => []HandledOnce
<1>1. Init => OwnStreams /\ RoutedOnce
  BY DEF Init, OwnStreams, RoutedOnce, Routes
<1>2. RoutedOnce => HandledOnce
  BY DEF RoutedOnce, Routes, HandledOnce
<1> QED
  BY <1>1, <1>2, InitType, NextKeepsType, NextKeepsOwnStreams,
     NextKeepsRoutedOnce, PTL DEF Spec

-----------------------------------------------------------------------------
(* What a server that is up owes its requesters *)

\* The code of a handler's error is the one formatError finds: no ServiceError
\* is wrapped in another error.
CodesOutermost == \A err \in HandlerErrors : formatError(err) = ServiceCode(err)

\* Of the steps of a goroutine that has a request in hand, only the reply and
\* the end of the process change it.
LEMMA RequestLeft ==
  ASSUME TypeInv, [Next]_vars, NEW st \in Streams, handler[st].req # None,
         handler'[st].req # handler[st].req, run'[ServerOf(st)] # "killed"
  PROVE  Reply(st)
<1>1. ServerOf(st) \in Servers /\ handler \in [Streams -> HandlerRecs]
      /\ run \in [Servers -> RunPcs]
  BY DEF Streams, ServerOf, TypeInv, TypeOK
<1>2. handler[st].pc # "idle"
  BY DEF TypeInv, InHand, Idle
<1>3. ASSUME NEW s \in Servers, RunStep(s) PROVE FALSE
  <2>1. CASE Kill(s)
    BY <1>1, <2>1 DEF Kill, Go
  <2>2. CASE ~Kill(s)
    BY <1>3, <2>2
    DEF RunStep, RunBegin, ConnectSucceeds, ConnectFails, SubscribeSucceeds,
        SubscribeFails, ContextDone, Signal, Unsubscribe, Disconnect,
        CloseConn, Cancel
  <2> QED
    BY <2>1, <2>2
<1>4. ASSUME NEW other \in Streams, ServingStep(other) PROVE Reply(st)
  <2>1. handler'[st] # handler[st]
    OBVIOUS
  <2>2. other = st
    BY <1>1, <1>4, <2>1 DEF ServingStep, Take, Return, Reply
  <2>3. CASE Return(st)
    BY <1>1, <2>3 DEF Return, HandlerRecs
  <2> QED
    BY <1>2, <1>4, <2>2, <2>3 DEF ServingStep, Take
<1>5. CASE PlatformStep \/ UNCHANGED vars
  BY <1>5
  DEF PlatformStep, StreamEnds, RequestSent, RequestTimesOut,
      PlatformRestarts, vars
<1> QED
  BY <1>3, <1>4, <1>5, NextSteps

\* A process that is not killed does not let go of a request before its
\* requester, if it still waits, has the handler's response or the code of its
\* error, unless a Publish of that answer has failed; provided that no handler
\* wraps a ServiceError (Retry does, see retried_code in the README).
THEOREM ServersAnswer ==
  ASSUME CodesOutermost
  PROVE  Spec => AnsweredUnlessLost
<1>1. ASSUME TypeInv, [Next]_vars, NEW st \in Streams,
             handler[st].req # None, handler'[st].req # handler[st].req,
             reply[handler[st].req] = "waiting", run'[ServerOf(st)] # "killed"
      PROVE  \/ reply'[handler[st].req] =
                  IF handler[st].result = Response THEN "response"
                  ELSE ServiceCode(handler[st].result)
             \/ <<st, handler[st].req>> \in lost'
  <2>1. Reply(st)
    BY <1>1, RequestLeft
  <2>2. handler[st].req \in Requests /\ reply \in [Requests -> Replies]
    BY <1>1, <2>1 DEF Reply, TypeInv, TypeOK, InHand
  <2>3. handler[st].result \in HandlerErrors \cup {Response}
    BY <1>1, <2>1 DEF Reply, TypeInv, InHand
  <2>4. CASE Published(st)
    BY <1>1, <2>2, <2>3, <2>4
    DEF Published, Received, ReplyData, CodesOutermost
  <2>5. CASE PublishFailed(st)
    BY <2>5 DEF PublishFailed
  <2> QED
    BY <2>1, <2>4, <2>5 DEF Reply
<1> DEFINE Kept ==
      \A st \in Streams :
        LET q == handler[st].req
            result == handler[st].result
        IN  /\ q # None /\ handler'[st].req # q /\ reply[q] = "waiting"
            /\ run'[ServerOf(st)] # "killed"
            => \/ reply'[q] = IF result = Response THEN "response"
                              ELSE ServiceCode(result)
               \/ <<st, q>> \in lost'
<1>2. TypeInv /\ [Next]_vars => [Kept]_vars
  BY <1>1
<1>3. AnsweredUnlessLost <=> [][Kept]_vars
  BY DEF AnsweredUnlessLost
<1> QED
  BY <1>2, <1>3, InitType, NextKeepsType, PTL DEF Spec

-----------------------------------------------------------------------------
(* Errors *)

\* The code of the failed call at the bottom of a chain.
FailureCode(e) ==
  IF HasKind(e, "status") THEN codeFromGRPC(CodeAs(e, "status")) ELSE "unknown"

\* Every AthyrError in a chain reports that code.
Faithful(e) ==
  \A n \in DOMAIN e : e[n].kind = "athyr" => e[n].code = FailureCode(e)

\* A set of numbers has a least one.
LEMMA LeastNumber ==
  ASSUME NEW I, I \subseteq Nat, I # {}
  PROVE  \E n \in I : \A m \in I : n <= m
<1> DEFINE Smaller == {xy \in Nat \X Nat : xy[1] < xy[2]}
<1>1. IsWellFoundedOn(Smaller, Nat)
  BY NatLessThanWellFounded DEF OpToRel
<1>2. \E n \in I : \A m \in I : ~ (<<m, n>> \in Smaller)
  <2> HIDE DEF Smaller
  <2> QED
    BY <1>1, WFMin
<1>3. PICK n \in I : \A m \in I : ~ (<<m, n>> \in Smaller)
  BY <1>2
<1>4. ASSUME NEW m \in I PROVE n <= m
  <2>1. ~ (m < n)
    BY <1>3
  <2> QED
    BY <2>1
<1> QED
  BY <1>4

\* errors.As finds the first layer of a kind, if there is one.
LEMMA FoundFirst ==
  ASSUME NEW e \in Seq(Layers), NEW kind, HasKind(e, kind)
  PROVE  \E n \in 1..Len(e) :
           /\ e[n].kind = kind /\ CodeAs(e, kind) = e[n].code
           /\ \A m \in 1..Len(e) : e[m].kind = kind => n <= m
<1> DEFINE I == {i \in 1..Len(e) : e[i].kind = kind}
<1>1. /\ Len(e) \in Nat /\ DOMAIN e = 1..Len(e)
      /\ I # {} /\ I \subseteq Nat
  BY LenProperties DEF HasKind
<1>2. PICK n \in I : \A m \in I : n <= m
  BY <1>1, LeastNumber
<1>3. Min(I) \in I /\ \A m \in I : Min(I) <= m
  BY <1>2 DEF Min
<1>4. SelectInSeq(e, LAMBDA layer : layer.kind = kind) = Min(I)
  BY <1>1 DEF SelectInSeq
<1>5. CodeAs(e, kind) = e[Min(I)].code
  BY <1>4 DEF CodeAs
<1> QED
  BY <1>3, <1>5

\* What another layer in front does to a chain.
LEMMA InFront ==
  ASSUME NEW e \in Seq(Layers), NEW layer \in Layers,
         NEW f, f = <<layer>> \o e
  PROVE  /\ f \in Seq(Layers)
         /\ Len(e) \in Nat /\ Len(f) = Len(e) + 1
         /\ DOMAIN e = 1..Len(e) /\ DOMAIN f = 1..(Len(e) + 1)
         /\ f[1] = layer
         /\ \A n \in 1..Len(e) : f[n + 1] = e[n]
         /\ \A n \in 2..(Len(e) + 1) : n - 1 \in 1..Len(e) /\ f[n] = e[n - 1]
<1>1. <<layer>> \in Seq(Layers) /\ Len(<<layer>>) = 1 /\ <<layer>>[1] = layer
  OBVIOUS
<1>2. f \in Seq(Layers) /\ Len(e) \in Nat /\ Len(f) = Len(e) + 1
  BY <1>1, ConcatProperties, LenProperties
<1>3. DOMAIN e = 1..Len(e) /\ DOMAIN f = 1..(Len(e) + 1)
  BY <1>2, LenProperties
<1>4. \A n \in 1..(Len(e) + 1) : f[n] = IF n <= 1 THEN layer ELSE e[n - 1]
  BY <1>1, <1>2, ConcatProperties
<1> QED
  BY <1>2, <1>3, <1>4

\* A layer of another kind in front changes nothing for those who look for a
\* kind.
LEMMA SameKindFound ==
  ASSUME NEW e \in Seq(Layers), NEW layer \in Layers,
         NEW f, f = <<layer>> \o e,
         NEW kind, layer.kind # kind
  PROVE  /\ HasKind(f, kind) <=> HasKind(e, kind)
         /\ HasKind(e, kind) => CodeAs(f, kind) = CodeAs(e, kind)
<1>1. /\ f \in Seq(Layers) /\ Len(e) \in Nat /\ Len(f) = Len(e) + 1
      /\ DOMAIN e = 1..Len(e) /\ DOMAIN f = 1..(Len(e) + 1)
      /\ f[1].kind # kind
      /\ \A n \in 1..Len(e) : f[n + 1] = e[n]
      /\ \A n \in 2..(Len(e) + 1) : n - 1 \in 1..Len(e) /\ f[n] = e[n - 1]
  BY InFront
<1>2. HasKind(f, kind) <=> HasKind(e, kind)
  <2>1. ASSUME NEW n \in 1..Len(e), e[n].kind = kind PROVE HasKind(f, kind)
    <3>1. n + 1 \in DOMAIN f /\ f[n + 1].kind = kind
      BY <1>1, <2>1
    <3> QED
      BY <3>1 DEF HasKind
  <2>2. ASSUME NEW n \in DOMAIN f, f[n].kind = kind PROVE HasKind(e, kind)
    <3>1. n \in 2..(Len(e) + 1)
      BY <1>1, <2>2
    <3>2. n - 1 \in DOMAIN e /\ e[n - 1].kind = kind
      BY <1>1, <2>2, <3>1
    <3> QED
      BY <3>2 DEF HasKind
  <2> QED
    BY <1>1, <2>1, <2>2 DEF HasKind
<1>3. ASSUME HasKind(e, kind) PROVE CodeAs(f, kind) = CodeAs(e, kind)
  <2>1. PICK n \in 1..Len(e) :
          /\ e[n].kind = kind /\ CodeAs(e, kind) = e[n].code
          /\ \A m \in 1..Len(e) : e[m].kind = kind => n <= m
    BY <1>3, FoundFirst
  <2>2. PICK k \in 1..Len(f) :
          /\ f[k].kind = kind /\ CodeAs(f, kind) = f[k].code
          /\ \A m \in 1..Len(f) : f[m].kind = kind => k <= m
    <3>1. f \in Seq(Layers) /\ HasKind(f, kind)
      BY <1>1, <1>2, <1>3
    <3> QED
      BY <3>1, FoundFirst
  <2>3. k - 1 \in 1..Len(e) /\ f[k] = e[k - 1] /\ e[k - 1].kind = kind
    BY <1>1, <2>2
  <2>4. n + 1 \in 1..Len(f) /\ f[n + 1].kind = kind
    BY <1>1, <2>1
  <2>5. k = n + 1
    BY <1>1, <2>1, <2>2, <2>3, <2>4
  <2> QED
    BY <1>1, <2>1, <2>2, <2>5
<1> QED
  BY <1>2, <1>3

\* A layer of the kind in front is the one that is found.
LEMMA FrontFound ==
  ASSUME NEW e \in Seq(Layers), NEW layer \in Layers,
         NEW f, f = <<layer>> \o e
  PROVE  HasKind(f, layer.kind) /\ CodeAs(f, layer.kind) = layer.code
<1>1. /\ f \in Seq(Layers) /\ Len(e) \in Nat /\ Len(f) = Len(e) + 1
      /\ DOMAIN f = 1..(Len(e) + 1) /\ f[1] = layer
  BY InFront
<1>2. HasKind(f, layer.kind)
  BY <1>1 DEF HasKind
<1>3. PICK n \in 1..Len(f) :
        /\ f[n].kind = layer.kind /\ CodeAs(f, layer.kind) = f[n].code
        /\ \A m \in 1..Len(f) : f[m].kind = layer.kind => n <= m
  BY <1>1, <1>2, FoundFirst
<1>4. n = 1
  BY <1>1, <1>3
<1> QED
  BY <1>1, <1>2, <1>3, <1>4

\* What wraps an error is a chain, with its layer in front.
LEMMA Wrappings ==
  ASSUME NEW e \in Seq(Layers)
  PROVE  /\ wrapError(e) = <<[kind |-> "athyr", code |-> FailureCode(e)]>> \o e
         /\ [kind |-> "athyr", code |-> FailureCode(e)] \in Layers
         /\ [kind |-> "plain", code |-> ""] \in Layers
         /\ [kind |-> "stream", code |-> ""] \in Layers
<1>1. FailureCode(e) \in ErrorCodes
  BY DEF FailureCode, codeFromGRPC, ErrorCodes
<1> QED
  BY <1>1 DEF wrapError, FailureCode, Layers

\* errors.Is sees the code of an AthyrError in front and every code behind a
\* layer, and one that does not lie about the code keeps a chain faithful.
LEMMA FrontKeepsCodes ==
  ASSUME NEW e \in Seq(Layers), NEW layer \in Layers,
         NEW f, f = <<layer>> \o e
  PROVE  /\ layer.kind = "athyr" => Is(f, layer.code)
         /\ \A code : Is(e, code) => Is(f, code)
         /\ /\ layer.kind # "status" /\ Faithful(e)
            /\ layer.kind = "athyr" => layer.code = FailureCode(e)
            => Faithful(f)
<1>1. /\ f \in Seq(Layers) /\ Len(e) \in Nat /\ Len(f) = Len(e) + 1
      /\ DOMAIN e = 1..Len(e) /\ DOMAIN f = 1..(Len(e) + 1)
      /\ f[1] = layer
      /\ \A n \in 1..Len(e) : f[n + 1] = e[n]
      /\ \A n \in 2..(Len(e) + 1) : n - 1 \in 1..Len(e) /\ f[n] = e[n - 1]
  BY InFront
<1>2. ASSUME NEW code, Is(e, code) PROVE Is(f, code)
  <2>1. PICK n \in DOMAIN e : e[n].kind = "athyr" /\ e[n].code = code
    BY <1>2 DEF Is
  <2>2. n + 1 \in DOMAIN f /\ f[n + 1] = e[n]
    BY <1>1, <2>1
  <2> QED
    BY <2>1, <2>2 DEF Is
<1>3. ASSUME layer.kind # "status", Faithful(e),
             layer.kind = "athyr" => layer.code = FailureCode(e)
      PROVE  Faithful(f)
  <2>1. FailureCode(f) = FailureCode(e)
    BY <1>3, SameKindFound DEF FailureCode
  <2>2. ASSUME NEW n \in DOMAIN f, f[n].kind = "athyr"
        PROVE  f[n].code = FailureCode(e)
    <3>1. CASE n = 1
      BY <1>1, <1>3, <2>2, <3>1
    <3>2. CASE n # 1
      <4>1. n \in 2..(Len(e) + 1)
        BY <1>1, <2>2, <3>2
      <4>2. n - 1 \in DOMAIN e /\ f[n] = e[n - 1]
        BY <1>1, <4>1
      <4> QED
        BY <1>3, <2>2, <4>2 DEF Faithful
    <3> QED
      BY <3>1, <3>2
  <2> QED
    BY <2>1, <2>2 DEF Faithful
<1>4. ASSUME layer.kind = "athyr" PROVE Is(f, layer.code)
  <2>1. 1 \in DOMAIN f /\ f[1] = layer
    BY <1>1
  <2> QED
    BY <1>4, <2>1 DEF Is
<1> QED
  BY <1>2, <1>3, <1>4

\* Whatever the SDK or a handler puts around an error, the code of the failed
\* call can be told by errors.Is (errors.go 70-168), and Retry decides as it
\* would have for the error itself (middleware.go 205-215): a layer that has no
\* code changes nothing, and an AthyrError around a ServiceError does not.
THEOREM CodesSurviveEveryWrapping ==
  ASSUME NEW e \in Seq(Layers)
  PROVE  /\ Is(wrapError(e), FailureCode(e))
         /\ \A code : Is(e, code) =>
              Is(wrapError(e), code) /\ Is(Wrapped(e), code)
              /\ Is(StreamError(e), code)
         /\ isRetryable(Wrapped(e)) = isRetryable(e)
         /\ isRetryable(StreamError(e)) = isRetryable(e)
         /\ HasKind(e, "service") => isRetryable(wrapError(e)) = isRetryable(e)
<1> DEFINE A == [kind |-> "athyr", code |-> FailureCode(e)]
           P == [kind |-> "plain", code |-> ""]
           T == [kind |-> "stream", code |-> ""]
<1>1. /\ wrapError(e) = <<A>> \o e /\ Wrapped(e) = <<P>> \o e
      /\ StreamError(e) = <<T>> \o e
      /\ A \in Layers /\ P \in Layers /\ T \in Layers
  BY Wrappings DEF Wrapped, Plain, StreamError
<1>2. Is(wrapError(e), FailureCode(e))
  <2>1. A.kind = "athyr" /\ A.code = FailureCode(e)
    OBVIOUS
  <2> HIDE DEF A
  <2> QED
    BY <1>1, <2>1, FrontKeepsCodes
<1>3. ASSUME NEW code, Is(e, code)
      PROVE  /\ Is(wrapError(e), code) /\ Is(Wrapped(e), code)
             /\ Is(StreamError(e), code)
  BY <1>1, <1>3, FrontKeepsCodes
<1>4. isRetryable(Wrapped(e)) = isRetryable(e)
  <2>1. P.kind # "service" /\ P.kind # "athyr"
    OBVIOUS
  <2>2. ASSUME NEW kind \in {"service", "athyr"}
        PROVE  /\ HasKind(Wrapped(e), kind) <=> HasKind(e, kind)
               /\ HasKind(e, kind) => CodeAs(Wrapped(e), kind) = CodeAs(e, kind)
    <3> HIDE DEF P
    <3>1. P.kind # kind
      BY <2>1
    <3> QED
      BY <1>1, <3>1, SameKindFound
  <2> QED
    BY <2>2 DEF isRetryable
<1>5. isRetryable(StreamError(e)) = isRetryable(e)
  <2>1. T.kind # "service" /\ T.kind # "athyr"
    OBVIOUS
  <2>2. ASSUME NEW kind \in {"service", "athyr"}
        PROVE  /\ HasKind(StreamError(e), kind) <=> HasKind(e, kind)
               /\ HasKind(e, kind) => CodeAs(StreamError(e), kind) = CodeAs(e, kind)
    <3> HIDE DEF T
    <3>1. T.kind # kind
      BY <2>1
    <3> QED
      BY <1>1, <3>1, SameKindFound
  <2> QED
    BY <2>2 DEF isRetryable
<1>6. ASSUME HasKind(e, "service")
      PROVE  isRetryable(wrapError(e)) = isRetryable(e)
  <2>1. A.kind # "service"
    OBVIOUS
  <2>2. /\ HasKind(wrapError(e), "service")
        /\ CodeAs(wrapError(e), "service") = CodeAs(e, "service")
    <3> HIDE DEF A
    <3> QED
      BY <1>1, <1>6, <2>1, SameKindFound
  <2> QED
    BY <1>6, <2>2 DEF isRetryable
<1> QED
  BY <1>2, <1>3, <1>4, <1>5, <1>6

\* An error whose AthyrErrors all report the failed call's code, as those do
\* that wrapError makes of what an RPC returns, stays so however often it is
\* wrapped; of such an error Retry and the helpers (IsUnavailable and
\* IsDeadlineExceeded) say the same.
THEOREM RetryAgreesWithTheCodes ==
  ASSUME NEW e \in Seq(Layers), Faithful(e)
  PROVE  /\ Faithful(wrapError(e)) /\ Faithful(Wrapped(e))
         /\ Faithful(StreamError(e))
         /\ ~HasKind(e, "service") =>
              (isRetryable(e) <=> Is(e, "unavailable")
                                  \/ Is(e, "deadline_exceeded"))
<1> DEFINE A == [kind |-> "athyr", code |-> FailureCode(e)]
           P == [kind |-> "plain", code |-> ""]
           T == [kind |-> "stream", code |-> ""]
<1>1. /\ wrapError(e) = <<A>> \o e /\ Wrapped(e) = <<P>> \o e
      /\ StreamError(e) = <<T>> \o e
      /\ A \in Layers /\ P \in Layers /\ T \in Layers
  BY Wrappings DEF Wrapped, Plain, StreamError
<1>2. /\ A.kind = "athyr" /\ A.code = FailureCode(e)
      /\ P.kind = "plain" /\ T.kind = "stream"
  OBVIOUS
<1>3. /\ Faithful(wrapError(e)) /\ Faithful(Wrapped(e))
      /\ Faithful(StreamError(e))
  <2> HIDE DEF A, P, T
  <2> QED
    BY <1>1, <1>2, FrontKeepsCodes
<1>4. ASSUME ~HasKind(e, "service")
      PROVE  isRetryable(e) <=> Is(e, "unavailable")
                                \/ Is(e, "deadline_exceeded")
  <2>1. CASE HasKind(e, "athyr")
    <3>1. PICK n \in 1..Len(e) :
            e[n].kind = "athyr" /\ CodeAs(e, "athyr") = e[n].code
      BY <2>1, FoundFirst
    <3>2. n \in DOMAIN e /\ e[n].code = FailureCode(e)
      BY <3>1 DEF Faithful
    <3>3. ASSUME NEW code PROVE Is(e, code) <=> code = FailureCode(e)
      BY <3>1, <3>2 DEF Is, Faithful
    <3> QED
      BY <1>4, <2>1, <3>1, <3>2, <3>3 DEF isRetryable
  <2>2. CASE ~HasKind(e, "athyr")
    BY <1>4, <2>2 DEF isRetryable, Is, HasKind
  <2> QED
    BY <2>1, <2>2
<1> QED
  BY <1>3, <1>4
=============================================================================
