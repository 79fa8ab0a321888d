# Athyr Go SDK: models, checks and proofs

This directory holds TLA+ specifications of the Athyr Go SDK (`src/`), the TLC
configurations that check them on small instances, and proofs checked by TLAPS
for all instances. Paths below are relative to `src/`, line numbers are those of
the commit the specifications were written from.

## 1. The system

The SDK is a client library. An *agent* (`pkg/athyr`) holds one gRPC connection
to the Athyr platform; services, servers and middleware are built on it, and
`pkg/orchestration` has four ways of combining several remote agents.

| Component | Source | State it keeps | Operations |
|---|---|---|---|
| agent lifecycle | `pkg/athyr/agent.go` | `state`/`connected`, `conn`/`athyr`, `agentID`, `heartbeatCancel`, `reconnectStop`, `reconnectMu` | `Connect`, `Close`, heartbeat loop, reconnect loop |
| subscriptions | `pkg/athyr/messaging.go` | `subscriptions` (the records), one stream and receive loop per subscription | `Subscribe`, `QueueSubscribe`, `Unsubscribe`, `resubscribeAll` |
| unary calls | `messaging.go`, `memory.go`, `kv.go`, `discovery.go`, `llm.go` | none | check that the agent is connected, one RPC |
| completion streams | `pkg/athyr/llm.go` | the last error chunk | `CompleteStream`, `ResumeStream` |
| errors | `pkg/athyr/errors.go` | none | mapping of gRPC codes, predicates |
| middleware | `pkg/athyr/middleware.go` | the semaphore of `MaxConcurrency` | `Recover`, `Timeout`, `MaxConcurrency`, `Retry`, `Validate`, `Metrics`, `LogRequests`, `Chain` |
| services | `pkg/athyr/service.go` | the chain built by `BuildHandler` | typed wrapper, `formatError` |
| server | `pkg/athyr/server.go` | `services`, `subs`, `agent` | `Run`, `subscribeService`, `waitForShutdown`, `cleanup` |
| options, logging | `options.go`, `logger.go`, options in `server.go` and `service.go` | configuration | functional options |
| fan-out | `pkg/orchestration/fanout.go` | `results`, the trace, one goroutine per agent | `ExecuteWithTrace`, aggregators |
| handoff router | `pkg/orchestration/handoff.go` | `current`, the path | `HandleWithTrace` |
| pipeline | `pkg/orchestration/pipeline.go` | `current`, the trace | `ExecuteWithTrace` |
| group chat | `pkg/orchestration/groupchat.go` | the messages, the manager's index | `DiscussWithTrace`, managers |
| typed wrappers | `pkg/orchestration/typed.go` | none | JSON around the executors |
| platform storage | `kv.go`, `memory.go` (on the platform) | the value of a key, memory sessions | `Get`, `Put`, `CreateSession`, `GetSession`, `AddHint` |
| examples with a user | `examples/features-demo`, `resilience`, `tool-calling` | model, session id, messages | a loop over lines, `resilientStream`, `RunToolLoop` |
| orchestration examples | `examples/pipeline`, `group-chat`, `handoff-router`, `fanout` | what their workers have made | an orchestrator over one executor, workers |
| mock, generated client | `pkg/athyrtest`, `api/v1` | | |

How they interact. User goroutines call the agent's methods; `Connect` starts a
heartbeat goroutine, which on a failed heartbeat hands over to a reconnect
goroutine, which hands back to a new heartbeat goroutine. All of them share the
fields of `agent` under `c.mu`, but several reads of `c.conn` and `c.athyr` are
made without it. Each subscription has a goroutine that receives from its
stream and calls the application's handler; the server's handlers run there.
The orchestrators know the agent only through `Request`, which has a deadline. A
reply that reports an error is to `Request` a reply like any other.

What is hard here:

* **Interleavings in the agent.** `Close`, `Connect`, the two loops and the
  subscribers act on the same fields, in several critical sections each, with
  RPCs in between.
* **Failure paths.** Each step of a connection attempt may fail, and each
  failure has to release the connection and leave a state somebody looks after.
* **Handing over.** Progress depends on each goroutine starting the next before
  it returns, exactly once.
* **Identity.** Subscriptions, results and participants are kept in maps or
  lists under names that need not be distinct.
* **Bounds.** `MaxHandoffs`, `MaxRounds`, `maxRetries`, `RequireQuorum(n)`.
* **Middleware.** `Timeout` leaves its handler running; order in the chain
  matters.
* **Shutdown.** Signals, failing calls, streams that end and handlers that are
  still running meet in `Run` and `cleanup`, and `Run` may be called again.
* **Streams.** An answer can be broken off anywhere (by the backend, the
  connection or the application's handler), and what was shown is not taken
  back: whoever repeats or resumes must know what has arrived.
* **Errors as data.** Codes and causes are wrapped several times on their way to
  whoever decides by them, and some ways lose them.
* **Arithmetic.** Two backoffs double a 64-bit number of nanoseconds.

What makes each component correct, in a sentence: the agent goes through the
phases of the diagram in `docs/ARCHITECTURE.md`, never has more loops than
sessions, leaks no connection, loses no subscription, leaves its transient
phases, and stays closed when it is closed; a fan-out counts everybody and
hands out maps that are final; the other orchestrators take one turn after
another, follow the decisions they are given, stop at the first failure and
within their limit, and return what the last turn produced; a server answers
what it has taken, but for a `Publish` that fails, and leaves nothing open; a
resumed stream
delivers every chunk once and in order; an error keeps its code on the way to
`Retry` and to the requester; what a program tells its user is so.

`PROJECT.json` lists the components, and under `hazards` each place where a test
would hardly reach what can go wrong, with the property that watches it.

## 2. The modules

| Module | What it models |
|---|---|
| `Agent` | `agent.go` and `messaging.go`: one agent, all its goroutines, the platform as far as the agent sees it |
| `ConnectionLifecycle` | abstract: the phases of one agent's connection and its registration |
| `MCAgent` | menus, keys and symmetry for the runs of `Agent` |
| `AgentProofs` | theorems about `Agent`, whatever its callers do and with one session at a time |
| `AgentLifecycleProofs` | theorems about `Agent` in the other ways of using it that section 4 names; the abstract lifecycle |
| `FanOut`, `MCFanOut`, `FanOutProofs` | one execution of a fan-out, its runs, theorems about it |
| `Middleware`, `MCMiddleware`, `MiddlewareProofs` | requests served through a chain of middleware, its runs, theorems about it |
| `Conversation` | abstract: turns taken in order, up to a failure or a limit |
| `Handoff`, `Pipeline`, `GroupChat` | one execution each |
| `ToolLoop` | the tool loop of `examples/tool-calling`, with the request `Complete` builds |
| `Orchestration`, `OrchestrationProofs` | composes these four: an application that runs one of them; implements `Conversation`; theorems about it |
| `Errors` | error chains: what wraps what, the predicates, `isRetryable`, `formatError` (operators) |
| `Options` | every option, and the agents, servers, services and transports built from them (operators) |
| `Server`, `MCServer`, `ServerProofs` | server processes that share a load, run again and shut down; its run, with the statements about `Errors` and `Options`; theorems about it and about `Errors` |
| `CompletionStream` | `CompleteStream` and `ResumeStream`, and the platform they read from |
| `Delivery` | abstract: the chunks of one answer, once each and in order |
| `DurableStream` | an application that resumes a stream; implements `Delivery` |
| `Resilience` | `resilientStream` of `examples/resilience`: strategy after strategy |
| `Backoff` | `backoffDuration` and the waits of `Retry` at their width |
| `Retries`, `RetriesProofs` | composes these three: what is done again after a failure; theorems about it |
| `Store` | what the platform keeps under a key and in memory sessions |
| `ReadLoop` | the programs under `examples` that read lines, on `Store` |
| `BlogPipeline` | `examples/pipeline`: an orchestrator and four stages, on `Pipeline` |
| `Debate` | `examples/group-chat`, on `GroupChat` |
| `IntentRouter` | `examples/handoff-router`, on `Handoff` |
| `Applications`, `ApplicationsProofs` | composes these four; theorems about them |

Modules that are composed share a variable where the code shares or reuses a
thing (`status` is that of whichever executor runs), and have the others' as
`None`: one run then answers one question about several of them.

### Agent

*Goroutines.* `caller[c]` is what user goroutine `c` is doing and the locals it
holds across steps (the id returned by the Connect RPC, the connection `Close`
has taken, the subscription being made). `hb[h]` and `rc[r]` are the heartbeat
and reconnect loops, with `done` for their cancelled context. Loops are slots:
a loop that has returned leaves its slot for the next one.

*Steps.* A step is what one goroutine does between two points where another
could run: one critical section of `c.mu`, one unlocked access, or one RPC. So
`Connect` is the ten actions `ConnectCheck` … `ConnectStartHeartbeat`, `Close`
is `CloseBegin`, `CloseDisconnect`, `CloseSetState`, `CloseEnd` (or
`CloseNothing`), `triggerReconnect` is `TriggerCheck`, `TriggerSetState`,
`TriggerSpawn` between taking and releasing `reconnectMu`, and `doReconnect` is
`RcDropConn` … `RcStartHeartbeat`. Unlocked uses of `c.athyr` and `c.conn` read
whatever is there when the step is taken; if it is `nil`, `NilClient` ends the
process (`panicked`).

*Data.* Connections are model values, reused when nothing refers to them any
more (`InUse`). An agent id is named by the connection it was granted on, so
`agentID = conn` says that the id is valid where it is used. `c.conn` and
`c.athyr` are always assigned together and are one variable; so are `c.state`
and `c.connected`. A subscription is a value with a `Key` (subject and queue);
`handle` is what the application believes of it, `streams` which subscription is
served by which connection. `Unsubscribe` leaves the stream alone, because
`CloseSend` was already called by the generated client when it opened the stream
(`api/v1/athyr_grpc.pb.go:151`).

*Environment.* Any RPC may fail at any time; on a closed connection it must.
`StreamsFail` lets the platform refuse and drop streams of an open connection.

*Faulty variants.* A definition whose comment begins with "Faulty variant" is
not part of the specification. It is what the definition after it would be with
a plausible bug in the code; putting it in that definition's place must make a
property fail, which `PROJECT.json` records under `mutants`.

### ConnectionLifecycle

`Agent` implements it under `phase <- state` and `registration <- agentID`
while connected; a process that a nil client has ended counts as disconnected.
The specification says what the diagram says, and that calls of a connected agent
all go out under one registration. `FairSpec` adds that neither `connecting` nor
`reconnecting` lasts for ever.

### The orchestrators

Data is abstracted to where it comes from: in `Handoff`, `0` is the caller's
input and `n` the context of the decision in step `n`; in `Pipeline`, `<<k, t>>`
is the answer of step `k`, transformed or not; in `FanOut`, an answer is an
error, JSON, other bytes, or no bytes at all (which `FirstSuccess` tells
apart). `Init` covers every configuration within the bounds (steps and
transforms, participants and their names). In the three sequential ones a step
is one `Request` with everything done with its answer, as nothing else can see
the state in between; in `FanOut` each goroutine has three steps (start, answer,
critical section).

The application chooses the configuration, so it is part of `Init`: the
aggregator of a fan-out, whether a router has a fallback, the manager of a chat.
A custom aggregator (`WithAggregator`) is the application's own code and not
modelled; a custom selection function may name anybody (`Speakers`).

`ToolLoop` keeps the conversation as roles and IDs, and `Request` builds what is
sent message by message, as `buildCompletionRequest` does; what a tool returns
is abstracted, that it does not know a tool or cannot parse its arguments
included, because each has a result. `Orchestration` holds the state of the four
executors side by side: the variables of those that do not run are `None`, and
`current`, `messages` and `status` belong to the one that does. It states the
properties of each for the run of that executor, and the promise they share,
`Conversation`, once.

### Middleware

A server's receive loops (`Receivers`) and the goroutines that `Timeout` starts
(`Workers`) each run a stretch of the chain. `go[g]` is the stack of goroutine
`g`: it is at position `pos` of the chain, calling inwards (`call`), returning a
result outwards (`return`), waiting in the `select` of `Timeout` or in the
backoff of `Retry`, or its result is in the channel (`sent`). One action is one
middleware called, or returned to. A panic is a result that travels outwards, so
that deferred calls are what the middleware does on its return; at the base of a
goroutine it ends the process. Results are distinguished as far as the chain
does: retryable, panic, anything else. A worker's context ends when its deadline
passes or when it sees that its caller's has ended; the `defer cancel()` of
`Timeout` needs no step, as the context is done or its goroutine finished by
then. What the application supplies may panic: the service's handler, the
function given to `Validate`, and the callback of `Metrics` or the logger of
`LogRequests`, which are one kind, `observe`; only the logger given to `Recover`
is taken not to. `BuildHandler` puts the server's middleware outside the
service's, so a chain is any sequence.

### Server

*Processes.* `run[s]` is where the call of `Run` of server `s` blocks: `connect`,
`subscribe`, `wait` (for the signal), `unsubscribe`, `disconnect`, `closeConn`,
or `idle` between calls and `killed`. A step lasts from one blocking call to the
next. A stream is named by its server, its call of `Run` and its service, and is
also the goroutine that receives from it: `handler[st]` is the request it has
taken, what its handler returned, and whether it is about to publish.

*The agent of a server* is what `Run` makes of it: no automatic reconnection, so
it is connected from the end of `Connect` until `Close` sets the state. `Reply`
reads `s.agent` when it publishes, so that a handler that outlives its `Run`
finds the agent of the next, or the one before (`CanPublish`). A `Publish` may
fail on an agent that is connected, too, and its error is dropped
(`server.go:212`); `lost` remembers for which request that has happened under
which stream, which no action reads.

*Environment.* Signals, cancelled contexts, failing calls, ending streams, kills
and restarts of the platform (which forgets its agents) come at any time. The
platform gives a request of a queue group to one member and any other to every
subscriber. A requester waits until its own deadline.

*Errors.* A handler returns a `Response` or a chain of `Errors`; the reply is its
code as `formatError` gives it.

### Errors and Options

These have no state. An error is the sequence of its layers, which is what
`errors.As` and `errors.Is` walk. An option is a record of its function's name
and argument, and a configuration what a sequence of them makes of the defaults.
What is claimed of them are the assumptions of `MCServer`, over every chain of
up to two wrappings and every sequence of up to three or four options, which TLC
evaluates before the run: codes survive wrapping and `Retry` decides by them;
a `StreamError` is not retried; the transport is the one the documentation of
the TLS options means, for an agent and for the agent that a server builds; no
option leaves a setting unusable; the name given to a server is taken; a handler
is called through the server's middleware and then the service's, in order.

### Streams and retries

The platform of `CompletionStream` numbers chunks from 1. An answer is `open`,
`done` (its last chunk has `Done` set) or `failed`; a failed backend sends an
error chunk, numbered as well, and ends the stream (`FailureEnds` says how).
One call runs at a time. It receives a chunk and gives it to the handler
(`ChunkHandled`, or `HandlerFails` with the handler's error), an error chunk
(`CompleteStream` keeps it, `ResumeStream` gives it to the handler), an end or,
at any time, an error (`StreamFails`). `result` is what the call returned.

`DurableStream` is the application that the comment of `ResumeStream` describes
(`llm.go:129-130`): it keeps the request id and the number of the last chunk it
has handled. It implements `Delivery` under `answer`, `shown` and `Status`.
`Resilience` goes through its strategies, keeps what it has shown and never takes
it back. `Backoff` has integers of `Width` bits that wrap, and jitter in eighths.

### The programs under `examples`

`ReadLoop` is the shape four programs share: connect, read a line, look at the
context, do the line's work, and so on; a program differs in its `Commands` and
in when it looks at the context. `Store`'s calls succeed, are refused, or fail
after having been carried out. `BlogPipeline`, `Debate` and `IntentRouter` put
handlers, and the orchestrator's own steps, on top of one executor each, whose
actions they restrict: the debate's next speaker is the one `TurnManager` names,
triage's decision the one `ClassifyIntent` makes. Data keeps what tells answers
apart: which fields of the blog's data are about the topic, which argument was
made, who has answered which query.

## 3. The runs

Bounds are the constants of each `.cfg`.

| Run | Question | Distinct states |
|---|---|---|
| `agent_manual` | one goroutine that calls everything, no auto-reconnect, up to three sessions alive: heartbeat ownership, nothing left open, the loops of a closed agent end, the abstract lifecycle | 12 883 |
| `agent_closing` | `Close` from another goroutine anywhere in a reconnecting session with two attempts: the client it works with, its id, the owner of its state; the reconnection ends | 38 383 |
| `agent_recovery` | nobody closes, two goroutines use subscriptions, attempts unbounded: tracking, leaks, the fair abstract lifecycle, success once attempts can succeed | 4 800 |
| `agent_reconnecting` | `Connect` again while reconnecting, two sessions: how many sessions are alive, mutual exclusion of `triggerReconnect` | 60 080 |
| `fanout` | three agents under each aggregator, every answer and order: what each aggregator promises, final maps, the call returns | 4 296 |
| `orchestration` | every run of a router (two routes and a stranger, with and without a fallback, three rounds), of a pipeline (four steps), of a chat (three participants, five rounds, both managers) and of a tool loop (five requests, two calls each): what each promises, and the abstract conversation | 93 138 |
| `middleware` | seven chains with each middleware inside and outside a `Timeout`, two concurrent requests, handlers that return, fail, panic or hang, validators and observers that panic: slots, the limit, panics, an answer for every request, the end of abandoned goroutines | 27 881 |
| `server` | one server with two services that calls `Run` twice, or two members of a queue group; two requests: what `Run` leaves behind, what is handled how often, what is answered and with which code, the end of a shutdown | 277 229 |
| `retries` | a durable stream that is resumed twice, the resilience example (two streams, the backup model, the blocking call), answers of up to four chunks; waits of nine attempts in seven bits: the abstract delivery, whole answers, waits | 8 525 |
| `applications` | the four programs with a user (two runs, two hints, two models), the blog pipeline, the debate, four routed queries: what is printed and stored is so, a signal ends a program | 46 543 |

Why the bounds are enough. The agent's hazards need one session with one
reconnection and a second goroutine in the middle of it. With `MaxSessions = 1`
one loop is alive at a time (`BoundedSessions`, which is proved), so one slot of
each kind is no restriction; two sessions get two slots of each. Three
connections exist at once at most (the one in use, the one `Close` keeps, the
new one), two where nobody closes. `MaxSessions` bounds how many sessions are
alive together, not how many there are over time: callers connect again as often
as they like, so the runs cover unbounded histories. With `MaxRetries = 2` there
is a first, a repeated and an exhausted attempt; with 0 the attempt counter is
not used and stays 0. Fan-out needs three agents for a quorum of two that is
met, missed, and met with a failure. Handoff needs three rounds for a route
taken by triage, by a specialist, and by the agent a specialist named. In
`middleware` two requests compete for a semaphore of one slot; where a `Retry`
is outside a `Timeout` (or two `Timeout`s are nested) one request competes with
its own earlier attempt, and the other adds nothing but states. There are as
many workers as such a request can start; a missing one would show as a request
that is never answered.

In `server` a second `Run` is needed for a handler that outlives the first, two
services for a subscription that fails after another has succeeded, two servers
for a queue group; the two deployments keep these apart, and handlers may return
an error that has a code. Four chunks are enough for a break before the first
chunk, between two, in a handler, after the last, and again after a resumption.
Seven bits overflow at attempts that nine reach, for each of the three bases:
all wrap to a negative number first and to zero in the end, and 11 in between to
48, which is positive and above either cap; the code has 64 bits and the same
formula, and `WaitsAreAsMeant` is about every width. `FailureEnds = {"error"}`
in `retries` is the platform that reports a failed backend as an error of the
stream; the other kind is in `Retries_documented`. Two runs of a program are
needed because preferences outlive the first.

The other two runs expect a violation: they are disagreements between the code
and what its comments or documents say, which `findings` in `PROJECT.json`
quotes on both sides.

| Run | What happens |
|---|---|
| `agent_closed_again` | `CancelledReconnectionEnds`: a reconnect attempt whose Connect RPC has succeeded when `Close` cancels the reconnection connects the closed agent again |
| `agent_not_restored` | `SubscriptionsRestored`: a record that `resubscribeAll` works on, before the state is connected, is refused and given up without a stream |

Further configurations show disagreements of the same kind. They are not in the
list of runs, and each is a finding too. Those with a configuration of their own
are checked with `tlc -config <configuration>.cfg <module>`, which reports the
violation (with `-continue` all of them, where several are listed). Those marked
* are properties that the configuration of a run does not have: put in the place
of its own (as a PROPERTY for `ClosedStaysClosed`, `ClosedComesToRest`,
`GracefulShutdown`, `ListensAgain` and `RunsUntilSignal`, as an INVARIANT for
the others), the property is reported as violated.

| Configuration (module) | What happens |
|---|---|
| `MCAgent_closed_again`* (`MCAgent`) | `ClosedStaysClosed`: the RPC of a heartbeat fails because `Close` has cancelled it, which is taken for a lost connection: the closed agent reconnects |
| `MCAgent_closing`* | `ClosedComesToRest`: `Close` between the announcement of a connection and the start of its heartbeat does not stop that heartbeat |
| `MCAgent_recovery`* | `CallsFindClient`: a call that passed `checkConnected` dereferences the client `doReconnect` has set to nil |
| `MCAgent_manual`* | `UnsubscribedIsSilent`: `Unsubscribe` does not end the stream |
| `MCAgent_shared_queue` | `TrackedForRecovery`: two subscriptions of one subject and queue share a tracking record |
| `MCAgent_reconnecting`* | `OneReconnectLoop`: `Connect` during a reconnection leads to two reconnect loops at once |
| `MCFanOut`* | `FailsOnlyIfAllFail`: `FirstSuccess` takes a success without bytes for none; `FailuresCollected`: `CollectAll` leaves the failures out, which its comment says it includes |
| `MCFanOut_shared_all` | `AllSucceeded`: a failure is overwritten by an agent of the same name |
| `MCMiddleware_documented` (`MCMiddleware`) | `RecoverHolds`: `Recover` does not catch a panic below a `Timeout`; `LimitHolds`: with a `Timeout` inside `MaxConcurrency` more handlers than its limit run at once |
| `Handoff_documented` (`Handoff`) | `OnlyConfiguredSubjects`: an unknown route named by a specialist goes to the empty subject, not to the fallback; `HandoffsWithinLimit`: `MaxHandoffs(n)` allows 2n - 1 handoffs; `ContextReachesNext`: the fallback does not get the decision's context |
| `GroupChat_same_name` (`GroupChat`) | `SpeaksOncePerCycle`: of two participants with one name one never speaks |
| `MCServer`* | `GracefulShutdown`: `Run` returns with handlers running, whose answers are lost |
| `MCServer`* | `ListensAgain`: a server whose stream has ended waits on without listening |
| `MCServer_retried_code` | `AnsweredUnlessLost`: the code of an error that `Retry` has wrapped is lost |
| `Retries_documented` (`Retries`) | `NilMeansComplete`: a failed answer is a success when the stream ends with `io.EOF`; `InterruptionsAreTold`: a lost connection is not told to the user; `CappedAtMaxBackoff`: the jitter is applied after the cap; `AlwaysWaits`: overflowing waits are over at once |
| `Applications`* | `FailedStageIsAnError`: a failed stage is taken for data; `ModelIsSaved`: "saved" is said whatever `Put` returns; `RunsUntilSignal`: the orchestrator of the pipeline goes on after a signal |

Several safety properties of `Agent` hold only where the run says: nobody calls
`Close` during a reconnection (`agent_recovery`), or nobody calls `Connect`
during one (`agent_closing`). Outside, the findings above break them too. The
progress properties of a reconnection are stated up to `CallsFindClient`: the
agent settles unless the process is gone.

### Fairness

`Agent!Fairness` is weak fairness of each goroutine that is in the middle of
something: the Go scheduler runs runnable goroutines, and RPCs return. The
second half is an assumption about the platform for the Connect RPC of a
reconnect attempt, which has no deadline of its own (`agent.go:418`); the
heartbeat and Disconnect RPCs have one. Nothing is assumed of heartbeats'
outcomes (`HbTick`) nor of the user's calls. `PersistentSpec`, used by
`agent_recovery` only, adds that dialling and registering succeed if
they are tried for ever. `FanOut` and the sequential orchestrators assume that
`Request` returns, which its deadline ensures (`messaging.go:81-86`), and that
goroutines run. `Middleware` assumes that goroutines run and deadlines pass, and
nothing of the service's handler, which may never return.

The tool loop's `Complete` has no deadline: the platform is assumed to answer it.
`Server` assumes only that a shutdown goes on: what a done context makes fail
fails, and the calls of `cleanup` return, because `Close` gives its Disconnect
RPC five seconds (`agent.go:207`) and the rest is local. Nothing is assumed of
handlers, requests or signals. `DurableStream` assumes that the application makes
its calls and that a connection that holds brings what is there; handlers,
backends and connections may fail for ever. `Applications` assumes that a
program's calls return and that its user goes on typing something: after a signal
`EndsAfterSignal` waits for one line that is not empty.

`CHECK_DEADLOCK` is on where an execution has an end that is marked by an
explicit stuttering step (`Rest`, `Returned`): TLC would report any other state
without a successor. It is off in `server` and `retries`, where all requests may
have been sent and all processes killed, and where the attempts of a wait or an
abandoned answer come to their bound.

## 4. The proofs

TLAPS proves the theorems below for every value of the constants that satisfies
the named assumptions. The assumptions on constants (`ConstantsAssumption`,
`FanOutAssumption`, `MiddlewareAssumption`, `ServerAssumption`,
`OrchestrationAssumption`, `RetriesAssumption`, `ApplicationsAssumption`) are in
the modules they are about, and TLC evaluates them in the runs of these. Where a
theorem has a hypothesis of its own, it is a way of using the SDK that a run has
too, and outside it the property is false: the last column says what shows that.

| Theorems | Property | Hypothesis | Why it is needed |
|---|---|---|---|
| `AgentProofs`: `TypeCorrect`, `SessionsBounded`, `TriggerIsExclusive` | `TypeOK`, `BoundedSessions`, `TriggerExclusive` | | |
| `AgentProofs`: `CallsAreRegistered`, `SessionHasClient`, `CloseFindsTheHeartbeat`, `NoStateIsAbandoned` | `ConnectedAsRegistered`, `DriverHasClient`, `HeartbeatOwned`, `StateHasOwner` | one session at a time | `Connect` during a reconnection starts loops that share the fields (`OneReconnectLoop`) |
| `AgentLifecycleProofs`: `NoConnectionLeaks`, `GivingUpClosesTheConnection`, `UnclosedAgentImplementsLifecycle` | `NoOrphanConnection`, `DisconnectedIsClosed`, `ImplementsLifecycle` | one session, nobody calls `Close` | `agent_closed_again` |
| `AgentLifecycleProofs`: `HeldSubscriptionsAreTracked` | `TrackedForRecovery` | the same, distinct keys | `MCAgent_shared_queue` |
| `AgentLifecycleProofs`: `ManualHeartbeatIsOwned`, `ManualCloseIsComplete`, `ManualAgentImplementsLifecycle` | `HeartbeatOwned`, `DisconnectedIsClosed`, `ImplementsLifecycle` | one user goroutine, no automatic reconnection, any number of sessions | two goroutines may `Connect` and `Close` in between each other's steps |
| `FanOutProofs`: `TypeCorrect`, `EveryoneIsCounted`, `ResultsAreFrozen` | `TypeOK`, `EveryoneCounted`, `ResultsFrozen` | | |
| `FanOutProofs`: `AllMustSucceedHolds`, `RequireQuorumHolds` | `AllSucceeded`, `QuorumReached` | distinct names | `MCFanOut_shared_all` |
| `OrchestrationProofs`: `RouterFollowsDecisions`, `PipelinePassesOutputsOn`, `TurnsAreEven`, `ModelGetsResults` | `FollowsDecisions`, `OutputsArePassedOn`, `SpeaksOncePerCycle`, `CallsAreAnswered` | | |
| `OrchestrationProofs`: `TurnsAreTakenAsPromised` | the safety part of `ImplementsConversation` | | |
| `MiddlewareProofs`: `TypeCorrect`, `SlotsAreAccounted`, `LimitIsKept`, `RecoverIsEnough` | `TypeOK`, `SlotsAccounted`, `InnermostLimitHolds`, `GuardedPanicsCaught` | | |
| `ServerProofs`: `TypeCorrect`, `RunLeavesNothingOpen`, `RequestsHandledOnce` | `TypeOK`, `NothingLeftOpen`, `HandledOnce` | | |
| `ServerProofs`: `ServersAnswer` | `AnsweredUnlessLost` | no handler wraps a `ServiceError` | `MCServer_retried_code` |
| `RetriesProofs`: `ResilienceIsWholeOrExhausted` | `WholeOrAllTried` | failed streams end with an error | `Retries_documented` |
| `RetriesProofs`: `ChunksAreDeliveredAsPromised` | the safety part of `ImplementsDelivery` | the same | the same |
| `RetriesProofs`: `WaitsAreAsMeant` | `WaitsAsMeant` | | |
| `ApplicationsProofs`: `HintsToldAreStored`, `WhatIsPrintedIsTrue` | `HintsAreStored`, `PrintedIsTrue` | | |
| `ServerProofs`: `CodesSurviveEveryWrapping`, `RetryAgreesWithTheCodes` | what `CodesSurviveWrapping` of `MCServer` says of short chains | | |

### The arguments

*`Agent`, whatever its callers do.* `TypeOK` alone is not inductive:
`SubscribeTrack` adds `caller[c].sub` to `subscriptions`, which is a subscription
only because `SubscribeCheck` has put one there. `TypeInv` adds `SubInFlight`: a
goroutine between those two steps has one in hand, and so has a reconnect loop
that is restoring. `BoundedSessions` is an accounting: every step of every
goroutine keeps the sets of connecting callers, live heartbeat loops and live
reconnect loops, or moves one goroutine from one set to another, or takes one
out, except `ConnectCheck`, which adds one below the bound; cardinalities of
finite sets do the rest. `TriggerExclusive` is inductive with `TypeInv`: a loop
enters the section when `reconnectMu` is free, hence when nobody is in it.

*One session.* From `BoundedSessions` with `MaxSessions <= 1` follows
`OneSession`: one goroutine drives the session. `SessionInv` says, for each place
where it may be, what the shared fields are there: `CallerFine`, `HbFine`,
`RcFine`, and, if there is no driver, that the agent is disconnected or being
closed. Other goroutines may be in any step of `Close` or of a subscription
meanwhile; the invariant is what survives them. `Close` may cancel the driver
and change the state at any moment, but nothing else the driver relies on; and a
driver that has been told to stop leaves a `Close` behind that has yet to set the
state (`BeingClosed`), whence `StateHasOwner`.

*A session nobody closes.* `ExactInv` sharpens this to equations: which state,
which connections are open and whether an id is held at each step of the driver
(`OneConnection`: `open` is within `{conn}`). The refinement of
`ConnectionLifecycle` is then one lemma, `PhaseStep`: every step leaves the state
alone or makes one of the abstract transitions, with a new registration where one
is required. A step of a process that has panicked stutters.

*One goroutine without reconnection.* `ManualInv(u)` gives the same equations for
the goroutine `u`, with any number of loops of earlier sessions that are
cancelled and have not noticed. This is why `HeartbeatOwned` speaks only of loops
that are not cancelled.

*`FanOut`.* `IInv`: a goroutine that is done has filed its answer or was
overwritten by a namesake, there is an outcome only when all are done, and it is
what the aggregator returns for the results as they are.

*`Orchestration`.* `Inv` has an invariant for each executor. The router:
everybody on the path but the first was named by the agent before (`Follows`),
and whoever is asked next is named now (`Named`). The pipeline: `current` is the
last step's output. The chat: the speakers of the round-robin manager are in turn
(`InTurn`), so that what a participant has said is counted by how many rounds
have passed. The tool loop: each result is after the message that called for it,
at its place (`CalledAt`), and calls without a result are of the last response
and due (`AnsweredOrDue`). `Takes` relates each step to a turn of `Conversation`.

*`Middleware`.* `Inv` has `SlotsAccounted` itself: each step that enters or leaves
a `MaxConcurrency` moves one goroutine into or out of the calls in progress and
takes or gives back one slot. That needs to know where a call may be: inside the
`Timeout` that started its goroutine, waiting only in a middleware that waits
(`Placed`). A `MaxConcurrency` that has no `Timeout` inside it was entered by
every goroutine that is in the handler (`StartedOutside`), so the handlers
running are among the calls it counts. As for panics, if every place where one
may start is guarded (`AllGuarded`), there is a `Recover` of the same goroutine
on the way out of each (`PanicStarts`), it is still ahead of a panic that has
passed anything else (`PanicGoesOn`), and one that has reached a `Recover` is no
panic any more (`PanicContained`). The chains are arbitrary.

*`Server`.* `NothingLeftOpen` follows from `OwnStreams`: an open stream belongs
to the present call of `Run` of a server between subscribing and closing.
`HandledOnce` follows from `RoutedOnce`, which is about requests delivered and
not yet taken as well: the platform's routing is part of it.
`AnsweredUnlessLost` is an action property, proved by cases on who lets go of a
request; `ServerAssumption` says that services are numbered from 1, because
`Run` subscribes them in order.

*`Retries`.* For a durable stream `DurableInv` has `lastSequence = Len(shown)`,
and that a call in progress is about to receive the chunk after the last one
shown, or is past the error chunk of a failed answer; a call that returned nil has
shown all. `DurableStep` proves for each step that it is one of `Delivery`'s. For
the resilience example `ResilientInv` says that the strategies tried are the first
of the plan and its last, the blocking one, is still to come (`OnPlan`), and that
what was printed since the present strategy began is chunks 1 to m
(`FirstChunks`); `PlanEndsBlocking` is what the plan is, for any number of
retries.

The waits hold for every width, base, cap and number of attempts. `Backoff`
doubles with `Pow2`, a function defined by recursion on numbers; that there is
one (`DoublingExists`) and that it is greater than its argument (`Pow2Grows`) is
shown by induction over sets of numbers (`InductionOnNat`), which follows from
`<` being well-founded. With it `WrapKeeps` says that a product that fits is not
changed by wrapping, `ShiftedIsMeant` that the shift is the doubling it stands
for unless that overflows, and `JitterBounds` how far the jitter can take it:
what is capped, overflow or not, stays less than half longer than the cap.

*Errors.* For chains of any length and by one layer at a time: a layer of another
kind in front does not change which layer of a kind `errors.As` finds first
(`SameKindFound`), and `errors.Is` sees every code that it saw without it
(`FrontKeepsCodes`). `Faithful` is what `wrapError` keeps: all `AthyrError`s of a
chain report the code of the failed call. Of these `Retry` and the helpers say
the same; of any others it would be wrong, as `Retry` looks at the outermost
`AthyrError` and the helpers at all of them.

*`Applications`.* `HintsInv` adds to `HintsAreStored` that the session a program
uses is one the platform has, whenever it can be given a hint (`InSession`): a
new session takes a new place, so nothing said of an earlier one is undone.
`PrintInv` has one invariant for each of the other programs. The blog's fields
are determined by the stage that is due and by the stages that have failed
(`DataAfter`). The debate follows a script, because the order of speakers is
fixed and each makes its arguments in order (`Script`); the summary counts what
the script has (`TwoArgumentsEach`). A query is asked of triage and then, with
the query itself and not with triage's answer (`OriginIsQuery`), of the
specialist that triage has named (`Triaged`, `SpecialistAsked`).

### Only model-checked

* Everything under fairness: `ReconnectSettles`, `ReconnectSucceeds`,
  `ClosedComesToRest`, `ImplementsFairLifecycle`, `Returns`, `RequestsAnswered`,
  `AbandonedEnd`, `ShutdownReturns`, `EndsAfterSignal`, and the liveness halves of
  `ImplementsConversation` and `ImplementsDelivery` (the theorems are about
  `Safety`, which is all of those specifications but the halves). The prover has
  no rule for liveness here.
* `Agent` in uses the hypotheses exclude and where the property is not known to
  fail. `ImplementsLifecycle` with a closer in a reconnecting session is false
  (`agent_closed_again`).
* What is claimed of `Options` is evaluated for short sequences of options: it is
  about folds, and the theorems of the library on induction over sequences take
  an operator as a parameter, which the provers here cannot instantiate. (Where
  the induction is over the members of one set of numbers, as for `Backoff`, its
  set is enough.)

Every invariant and every safety property of steps that a run checks, and that
holds, is stated by a theorem, where needed under the hypothesis in the table.

## 5. Not modelled, and the plan

Not modelled:

* the calls of the state callback (`agent.go:248`): `setState` calls it outside
  the lock, so two goroutines may report their states in the wrong order; the
  states themselves are in `Agent`;
* `Delete`, `List` and the discovery calls beyond "check, then one RPC";
* the `fanout` and `quickstart` examples (one `FanOut` with `AllMustSucceed`, one
  subscription), which add nothing to the modules they use;
* typed wrappers (JSON around the executors) and the mock: no behaviour of their
  own; generated code (`api/v1`);
* the contents of messages and traces, usage figures, logging and durations,
  except where a property depends on them.

Worth doing next: which of the invariants of one session of an `Agent` hold with
two sessions that never overlap in a reconnection (`agent_reconnecting` checks
two properties of two sessions that do).
