------------------------------- MODULE Server -------------------------------
(***************************************************************************)
(* Servers of pkg/athyr/server.go: processes that call Server.Run, serve   *)
(* requests under the subscriptions of their services, share the load with *)
(* the other members of a queue group, and shut down.                      *)
(*                                                                         *)
(* A step of Run lasts from one blocking call to the next.  The server's   *)
(* agent has no automatic reconnection (Run passes no such option), so it  *)
(* is what Run makes of it: connected from the end of Connect until Close  *)
(* sets the state.  A stream is named by the server, the call of Run and   *)
(* the service it belongs to; it is also the goroutine that receives from  *)
(* it and runs the service's handler.                                      *)
(***************************************************************************)
EXTENDS Naturals, FiniteSets, Errors

CONSTANTS
  Servers,
  Services,       \* the services, numbered in the order they are added
  Queued,         \* those with a queue group
  Requests,
  Deployments,    \* what is run (see Deployment)
  HandlerErrors,  \* the errors handlers return
  MaxRuns,        \* bound on the calls of Run of a server
  Response,       \* a handler's result that is no error
  None

\* The number of services of each server, how often the application calls Run
\* at most, and the service each request is for (0: it is not sent).
Deployment == [services : Services, runs : [Servers -> 0..MaxRuns],
               subject : [Requests -> {0} \cup Services]]

ASSUME ServerAssumption ==
  /\ Services \subseteq Nat \ {0} /\ \A v \in Services : 1..v \subseteq Services
  /\ Queued \subseteq Services
  /\ Deployments \subseteq Deployment
  /\ HandlerErrors \subseteq Seq(Layers) \ {<<>>}
  /\ MaxRuns \in Nat
  /\ Response \notin HandlerErrors /\ None \notin HandlerErrors

Streams == Servers \X (1..MaxRuns) \X Services
ServerOf(st) == st[1]
RunOf(st) == st[2]
ServiceOf(st) == st[3]

VARIABLES
  deployment,
  run,        \* run[s]: where s's call of Run is
  runs,       \* runs[s]: how often s has called Run
  subs,       \* subs[s]: the services in s.subs, in order
  canceled,   \* <<s, n>>: the context given to s's n-th Run is done
  notified,   \* the processes that have called signal.Notify
  known,      \* <<s, n>>: the platform knows the agent of s's n-th Run
  streams,    \* streams that are open
  routed,     \* <<st, q>>: request q is on its way on stream st
  handler,    \* handler[st]: what the goroutine of st is doing
  taken,      \* <<st, q>>: q has been given to the handler under st
  reply,      \* reply[q]: what q's requester has
  lost        \* <<st, q>>: a Publish of the answer to q under st has failed

vars == <<deployment, run, runs, subs, canceled, notified, known, streams,
          routed, handler, taken, reply, lost>>

\* Run: "idle" before and between calls, "unsubscribe" to "closeConn" in
\* cleanup, "killed" when the process is gone.
RunPcs == {"idle", "connect", "subscribe", "wait", "unsubscribe", "disconnect",
           "closeConn", "killed"}
HandlerRecs == [pc : {"idle", "handling", "replying"},
                req : Requests \cup {None},
                result : HandlerErrors \cup {Response, None}]

\* What a requester can have: nothing yet, an error of its own (the platform
\* or its deadline), the data of a response, or a formatError's code.
Replies == {"unsent", "waiting", "failed", "response"}
           \cup ServiceCodes \cup {""}

TypeOK ==
  /\ deployment \in Deployments
  /\ run \in [Servers -> RunPcs]
  /\ runs \in [Servers -> 0..MaxRuns]
  /\ subs \in [Servers -> Seq(Services)]
  /\ canceled \subseteq Servers \X (1..MaxRuns)
  /\ known \subseteq Servers \X (1..MaxRuns)
  /\ notified \subseteq Servers
  /\ streams \subseteq Streams
  /\ routed \subseteq streams \X Requests
  /\ handler \in [Streams -> HandlerRecs]
  /\ taken \subseteq Streams \X Requests
  /\ reply \in [Requests -> Replies]
  /\ lost \subseteq Streams \X Requests

Idle == [pc |-> "idle", req |-> None, result |-> None]

Init ==
  /\ deployment \in Deployments
  /\ run = [s \in Servers |-> "idle"] /\ runs = [s \in Servers |-> 0]
  /\ subs = [s \in Servers |-> <<>>]
  /\ canceled = {} /\ notified = {} /\ known = {}
  /\ streams = {} /\ routed = {} /\ taken = {} /\ lost = {}
  /\ handler = [st \in Streams |-> Idle]
  /\ reply = [q \in Requests |-> "unsent"]

Current(s) == <<s, runs[s]>>
Canceled(s) == Current(s) \in canceled
Connected(s) == run[s] \in {"subscribe", "wait", "unsubscribe", "disconnect"}

\* Streams end: requests on their way on them are lost, handlers go on.
End(ended) ==
  /\ streams' = streams \ ended
  /\ routed' = {r \in routed : r[1] \notin ended}

Go(s, pc) == run' = [run EXCEPT ![s] = pc]

-----------------------------------------------------------------------------
(* Run *)

RunBegin(s) ==
  /\ run[s] = "idle" /\ runs[s] < deployment.runs[s]
  /\ Go(s, "connect")
  /\ runs' = [runs EXCEPT ![s] = @ + 1]
  /\ UNCHANGED <<deployment, subs, canceled, notified, known, streams, routed,
                 handler, taken, reply, lost>>

ConnectSucceeds(s) ==
  /\ run[s] = "connect" /\ ~Canceled(s)
  /\ Go(s, "subscribe")
  /\ known' = known \cup {Current(s)}
  /\ UNCHANGED <<deployment, runs, subs, canceled, notified, streams, routed,
                 handler, taken, reply, lost>>

\* The agent has closed its connection; Run returns.
ConnectFails(s) ==
  /\ run[s] = "connect"
  /\ Go(s, "idle")
  /\ UNCHANGED <<deployment, runs, subs, canceled, notified, known, streams,
                 routed, handler, taken, reply, lost>>

ToSubscribe(s) == Len(subs[s]) + 1

\* A stream is opened; whether the platform accepts it, Subscribe does not
\* wait to see.  After the last service Run waits.
SubscribeSucceeds(s) ==
  /\ run[s] = "subscribe" /\ ~Canceled(s)
  /\ subs' = [subs EXCEPT ![s] = Append(@, ToSubscribe(s))]
  /\ streams' = IF Current(s) \in known
                THEN streams \cup {<<s, runs[s], ToSubscribe(s)>>}
                ELSE streams
  /\ IF ToSubscribe(s) = deployment.services
     THEN Go(s, "wait") /\ notified' = notified \cup {s}
     ELSE UNCHANGED <<run, notified>>
  /\ UNCHANGED <<deployment, runs, canceled, known, routed, handler, taken,
                 reply, lost>>

\* Faulty variant: Run returns without a cleanup.
SubscribeFailsUncleaned(s) ==
  /\ run[s] = "subscribe"
  /\ Go(s, "idle")
  /\ UNCHANGED <<deployment, runs, subs, canceled, notified, known, streams,
                 routed, handler, taken, reply, lost>>

SubscribeFails(s) ==
  /\ run[s] = "subscribe"
  /\ Go(s, "unsubscribe")
  /\ UNCHANGED <<deployment, runs, subs, canceled, notified, known, streams,
                 routed, handler, taken, reply, lost>>

\* waitForShutdown.  A signal that comes before the process has called Notify
\* ends it; one that comes at any other time than here has no effect.
ContextDone(s) ==
  /\ run[s] = "wait" /\ Canceled(s)
  /\ Go(s, "unsubscribe")
  /\ UNCHANGED <<deployment, runs, subs, canceled, notified, known, streams,
                 routed, handler, taken, reply, lost>>

Signal(s) ==
  /\ run[s] = "wait"
  /\ Go(s, "unsubscribe")
  /\ UNCHANGED <<deployment, runs, subs, canceled, notified, known, streams,
                 routed, handler, taken, reply, lost>>

Kill(s) ==
  /\ s \notin notified /\ run[s] # "killed"
  /\ Go(s, "killed")
  /\ subs' = [subs EXCEPT ![s] = <<>>]
  /\ End({st \in streams : ServerOf(st) = s})
  /\ handler' = [st \in Streams |->
                  IF ServerOf(st) = s THEN Idle ELSE handler[st]]
  /\ UNCHANGED <<deployment, runs, canceled, notified, known, taken, reply,
                 lost>>

\* cleanup: Unsubscribe ends no stream.  The agent's Close then tells the
\* platform, which has five seconds to answer; sets the state; and closes the
\* connection.
Unsubscribe(s) ==
  /\ run[s] = "unsubscribe"
  /\ subs' = [subs EXCEPT ![s] = <<>>]
  /\ Go(s, "disconnect")
  /\ UNCHANGED <<deployment, runs, canceled, notified, known, streams, routed,
                 handler, taken, reply, lost>>

\* Faulty variant: Disconnect has no deadline.
DisconnectUntimed(s) ==
  /\ run[s] = "disconnect" /\ Current(s) \in known
  /\ Go(s, "closeConn")
  /\ known' = known \ {Current(s)}
  /\ UNCHANGED <<deployment, runs, subs, canceled, notified, streams, routed,
                 handler, taken, reply, lost>>

Disconnect(s) ==
  /\ run[s] = "disconnect"
  /\ Go(s, "closeConn")
  /\ known' \in {known, known \ {Current(s)}}
  /\ UNCHANGED <<deployment, runs, subs, canceled, notified, streams, routed,
                 handler, taken, reply, lost>>

\* Faulty variant: only the subscriptions are given up.
CloseConnNot(s) ==
  /\ run[s] = "closeConn"
  /\ Go(s, "idle")
  /\ UNCHANGED <<deployment, runs, subs, canceled, notified, known, streams,
                 routed, handler, taken, reply, lost>>

CloseConn(s) ==
  /\ run[s] = "closeConn"
  /\ End({st \in streams : ServerOf(st) = s /\ RunOf(st) = runs[s]})
  /\ Go(s, "idle")
  /\ UNCHANGED <<deployment, runs, subs, canceled, notified, known, handler,
                 taken, reply, lost>>

-----------------------------------------------------------------------------
(* The receive loops and the message handler *)

Take(st, q) ==
  /\ <<st, q>> \in routed /\ handler[st].pc = "idle"
  /\ handler' = [handler EXCEPT ![st] =
                   [pc |-> "handling", req |-> q, result |-> None]]
  /\ routed' = routed \ {<<st, q>>} /\ taken' = taken \cup {<<st, q>>}
  /\ UNCHANGED <<deployment, run, runs, subs, canceled, notified, known,
                 streams, reply, lost>>

Return(st) ==
  /\ handler[st].pc = "handling"
  /\ \E result \in HandlerErrors \cup {Response} :
       handler' = [handler EXCEPT ![st].pc = "replying", ![st].result = result]
  /\ UNCHANGED <<deployment, run, runs, subs, canceled, notified, known,
                 streams, routed, taken, reply, lost>>

\* What is published: the handler's response, or its error's code.
ReplyData(result) ==
  IF result = Response THEN "response" ELSE formatError(result)

\* The reply is published with the handler's context by s.agent, the agent of
\* the latest Run; the read is not synchronized and may see the one before,
\* which is closed.  The Publish of an agent that is connected may fail as any
\* call does.  Only a requester that still waits takes the reply.
CanPublish(st) ==
  LET s == ServerOf(st) IN
  /\ Connected(s) /\ Current(s) \in known
  /\ <<s, RunOf(st)>> \notin canceled
Received(st) ==
  LET q == handler[st].req IN
  reply' = IF reply[q] = "waiting"
           THEN [reply EXCEPT ![q] = ReplyData(handler[st].result)] ELSE reply
Published(st) == CanPublish(st) /\ Received(st) /\ UNCHANGED lost
PublishFailed(st) ==
  lost' = lost \cup {<<st, handler[st].req>>} /\ UNCHANGED reply

\* Faulty variant: an error is not answered.
ReplySilent(st) ==
  /\ handler[st].pc = "replying"
  /\ handler' = [handler EXCEPT ![st] = Idle]
  /\ IF handler[st].result = Response
     THEN Published(st) \/ PublishFailed(st) ELSE UNCHANGED <<reply, lost>>
  /\ UNCHANGED <<deployment, run, runs, subs, canceled, notified, known,
                 streams, routed, taken>>

\* Whether it was published the goroutine does not look at: the error is
\* dropped, and the next message is received.
Reply(st) ==
  /\ handler[st].pc = "replying"
  /\ handler' = [handler EXCEPT ![st] = Idle]
  /\ Published(st) \/ PublishFailed(st)
  /\ UNCHANGED <<deployment, run, runs, subs, canceled, notified, known,
                 streams, routed, taken>>

-----------------------------------------------------------------------------
(* The contexts, the requesters and the platform *)

Cancel(s) ==
  /\ run[s] \notin {"idle", "killed"} /\ ~Canceled(s)
  /\ canceled' = canceled \cup {Current(s)}
  /\ End({st \in streams : <<ServerOf(st), RunOf(st)>> = Current(s)})
  /\ UNCHANGED <<deployment, run, runs, subs, notified, known, handler, taken,
                 reply, lost>>

\* A request goes to one member of the queue group, or to every subscriber.
Listening(v) == {st \in streams : ServiceOf(st) = v}

RequestSent(q) ==
  /\ reply[q] = "unsent" /\ deployment.subject[q] # 0
  /\ reply' = [reply EXCEPT ![q] = "waiting"]
  /\ IF deployment.subject[q] \in Queued
     THEN \/ Listening(deployment.subject[q]) = {} /\ UNCHANGED routed
          \/ \E st \in Listening(deployment.subject[q]) : routed' = routed \cup {<<st, q>>}
     ELSE routed' = routed \cup (Listening(deployment.subject[q]) \X {q})
  /\ UNCHANGED <<deployment, run, runs, subs, canceled, notified, known,
                 streams, handler, taken, lost>>

RequestTimesOut(q) ==
  /\ reply[q] = "waiting"
  /\ reply' = [reply EXCEPT ![q] = "failed"]
  /\ UNCHANGED <<deployment, run, runs, subs, canceled, notified, known,
                 streams, routed, handler, taken, lost>>

\* A stream breaks or is refused; the platform restarts and knows nobody.
StreamEnds(st) ==
  /\ st \in streams
  /\ End({st})
  /\ UNCHANGED <<deployment, run, runs, subs, canceled, notified, known,
                 handler, taken, reply, lost>>

PlatformRestarts ==
  /\ known # {}
  /\ known' = {} /\ End(streams)
  /\ UNCHANGED <<deployment, run, runs, subs, canceled, notified, handler,
                 taken, reply, lost>>

\* What Run does next when its context is done, or in cleanup.
ShutdownStep(s) ==
  \/ Canceled(s) /\ (ConnectFails(s) \/ SubscribeFails(s))
  \/ ContextDone(s) \/ Unsubscribe(s) \/ Disconnect(s) \/ CloseConn(s)

Next ==
  \/ \E s \in Servers :
       \/ RunBegin(s) \/ ConnectSucceeds(s) \/ ConnectFails(s)
       \/ SubscribeSucceeds(s) \/ SubscribeFails(s)
       \/ Signal(s) \/ Kill(s) \/ Cancel(s)
       \/ ContextDone(s) \/ Unsubscribe(s) \/ Disconnect(s) \/ CloseConn(s)
  \/ \E st \in Streams :
       \/ \E q \in Requests : Take(st, q)
       \/ Return(st) \/ Reply(st) \/ StreamEnds(st)
  \/ \E q \in Requests : RequestSent(q) \/ RequestTimesOut(q)
  \/ PlatformRestarts

Spec == Init /\ [][Next]_vars

\* Run's goroutine is scheduled, and Disconnect has a deadline; whatever the
\* platform answers, it need not answer.
FairSpec == Spec /\ \A s \in Servers : WF_vars(ShutdownStep(s))

-----------------------------------------------------------------------------
(* Properties *)

\* When Run has returned, on whatever path, it has left nothing behind: no
\* stream of any of its calls is open and no subscription is kept for the next.
NothingLeftOpen ==
  \A s \in Servers :
    run[s] \in {"idle", "connect"} =>
      subs[s] = <<>> /\ \A st \in streams : ServerOf(st) # s

\* A request is handled once by a server, however often Run is called again,
\* and by one server only where there is a queue group.
HandledOnce ==
  \A a, b \in taken :
    a[2] = b[2] /\ a # b =>
      /\ ServerOf(a[1]) # ServerOf(b[1])
      /\ deployment.subject[a[2]] \notin Queued

\* The code of the ServiceError anywhere in an error.
ServiceCode(err) ==
  IF HasKind(err, "service") THEN CodeAs(err, "service") ELSE ""

\* A process that is not killed does not let go of a request it has taken
\* before its requester, if it still waits, has the handler's response or the
\* code of its error, unless a Publish of that answer has failed; neither a
\* shutdown nor a handler that outlives its call of Run is an exception.
AnsweredUnlessLost ==
  [][\A st \in Streams :
       LET q == handler[st].req
           result == handler[st].result
       IN  /\ q # None /\ handler'[st].req # q /\ reply[q] = "waiting"
           /\ run'[ServerOf(st)] # "killed"
           => \/ reply'[q] = IF result = Response THEN "response"
                             ELSE ServiceCode(result)
              \/ <<st, q>> \in lost']_vars

\* Run returns once its context is done or its cleanup has begun, though the
\* platform may not answer any more.
ShutdownReturns ==
  \A s \in Servers :
    (Canceled(s) \/ run[s] \in {"unsubscribe", "disconnect", "closeConn"})
      ~> run[s] \in {"idle", "killed"}

\* "handles graceful shutdown" (server.go 137): Run does not return before
\* the requests its handlers have taken are answered.  (Expected to be
\* violated.)
GracefulShutdown ==
  [][\A st \in Streams :
       /\ handler[st].pc # "idle" /\ reply[handler[st].req] = "waiting"
       /\ run[ServerOf(st)] = "closeConn" /\ RunOf(st) = runs[ServerOf(st)]
       => run'[ServerOf(st)] # "idle"]_vars

\* A server that waits for its shutdown listens on a stream of each of its
\* services, or will again.  (Expected to be violated.)
ListensAgain ==
  \A s \in Servers : \A v \in Services :
    run[s] = "wait" /\ v <= deployment.services
      ~> run[s] # "wait" \/ <<s, runs[s], v>> \in streams
=============================================================================
