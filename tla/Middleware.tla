----------------------------- MODULE Middleware -----------------------------
(***************************************************************************)
(* Requests served through a chain of middleware: pkg/athyr/middleware.go, *)
(* BuildHandler of service.go and the message handler of server.go.        *)
(*                                                                         *)
(* A receiver is the goroutine of one subscription, which serves one       *)
(* request at a time; a worker is a goroutine started by Timeout.  Each is *)
(* a stack of calls: it runs the middleware at the positions after its     *)
(* base, calling inwards and returning outwards; a panic is a result that  *)
(* travels outwards.  Whatever is the application's may panic: the         *)
(* handler, a validator, the logger or callback of an observer; only the   *)
(* logger given to Recover is taken not to.                                *)
(***************************************************************************)
EXTENDS Naturals, Sequences, FiniteSets, FiniteSetsExt

CONSTANTS
  Receivers,    \* the goroutines of the server's subscriptions
  Workers,      \* numbers for the goroutines Timeout starts
  Chains,       \* the chains considered, outermost middleware first
  Limit,        \* limit of each MaxConcurrency
  MaxAttempts,  \* maxAttempts of each Retry
  MaxRequests,  \* MaxRequests[c]: bound on the requests received under c
  None

\* "observe" is LogRequests and Metrics.
Kinds == {"recover", "timeout", "limit", "validate", "retry", "observe"}

ASSUME MiddlewareAssumption ==
  /\ Workers \subseteq Nat /\ IsFiniteSet(Workers) /\ IsFiniteSet(Receivers)
  /\ Receivers \cap Workers = {} /\ None \notin Receivers \cup Workers
  /\ Chains \subseteq Seq(Kinds)
  /\ Limit \in Nat /\ MaxAttempts \in Nat
  /\ MaxRequests \in [Chains -> Nat]

\* What a call comes back with: an error that Retry retries (a ServiceError or
\* an AthyrError saying unavailable, or another Retry's error around one), a
\* panic, or anything else: a response or an error for the requester.
Results == {"settled", "retryable", "panic"}

VARIABLES
  chain,      \* the middleware in use: the server's, then the service's
  go,         \* what each goroutine is doing
  sem,        \* sem[p]: slots taken of the semaphore of position p
  serverCtx,  \* the context given to Run
  received,   \* how many requests have been received
  crashed     \* a panic has reached the top of a goroutine

vars == <<chain, go, sem, serverCtx, received, crashed>>

Goroutines == Receivers \cup Workers
Positions == DOMAIN chain
Handler == Len(chain) + 1   \* where the chain ends
Ctxs == {"live", "expired", "canceled"}

\* pos is the middleware that is called, waits or is returned to; base the
\* Timeout that started the goroutine, for its caller parent, with context ctx.
Frames == [pc : {"idle", "call", "select", "backoff", "return", "sent"},
           pos : 0..Handler, base : 0..Len(chain),
           parent : Goroutines \cup {None}, ctx : Ctxs, result : Results,
           attempt : [Positions -> 0..MaxAttempts]]

TypeOK ==
  /\ chain \in Chains
  /\ go \in [Goroutines -> Frames]
  /\ sem \in [Positions -> 0..Limit]
  /\ serverCtx \in Ctxs
  /\ received \in 0..MaxRequests[chain]
  /\ crashed \in BOOLEAN

Idle == [pc |-> "idle", pos |-> 0, base |-> 0, parent |-> None,
         ctx |-> "live", result |-> "settled", attempt |-> [p \in Positions |-> 0]]

Init ==
  /\ chain \in Chains
  /\ go = [g \in Goroutines |-> Idle]
  /\ sem = [p \in Positions |-> 0]
  /\ serverCtx = "live" /\ received = 0 /\ crashed = FALSE

Ctx(g) == IF g \in Receivers THEN serverCtx ELSE go[g].ctx

\* Goroutine g calls the middleware of a kind, or is returned to by its next.
Calls(g, kind) ==
  /\ ~crashed /\ go[g].pc = "call"
  /\ go[g].pos \in Positions /\ chain[go[g].pos] = kind
Resumes(g, kind) ==
  /\ ~crashed /\ go[g].pc = "return" /\ go[g].pos > go[g].base
  /\ chain[go[g].pos] = kind

\* next(ctx, data), and the return of x to the middleware outside.
Next_(g) == go' = [go EXCEPT ![g].pc = "call", ![g].pos = @ + 1]
Returning(g, x) ==
  LET p == go[g].pos IN
  [go[g] EXCEPT !.pc = "return", !.pos = p - 1, !.result = x,
                !.attempt = [q \in Positions |-> IF q = p THEN 0 ELSE @[q]]]
Return(g, x) == go' = [go EXCEPT ![g] = Returning(g, x)]

Result(g) == go[g].result

-----------------------------------------------------------------------------
(* The receive loop and the message handler *)

Receive(r) ==
  /\ ~crashed /\ go[r].pc = "idle"
  /\ received < MaxRequests[chain]
  /\ received' = received + 1
  /\ go' = [go EXCEPT ![r].pc = "call", ![r].pos = 1]
  /\ UNCHANGED <<chain, sem, serverCtx, crashed>>

\* The result is published if a reply is wanted; the loop goes on.
Reply(r) ==
  /\ ~crashed /\ go[r].pc = "return" /\ go[r].pos = 0
  /\ Result(r) # "panic"
  /\ go' = [go EXCEPT ![r] = Idle]
  /\ UNCHANGED <<chain, sem, serverCtx, received, crashed>>

\* Nothing on the stack has recovered: the process ends.
Crash(g) ==
  /\ ~crashed /\ go[g].pc = "return" /\ go[g].pos = go[g].base
  /\ Result(g) = "panic"
  /\ crashed' = TRUE
  /\ UNCHANGED <<chain, go, sem, serverCtx, received>>

\* The service's handler returns or panics, sooner or later or never.
Handle(g) ==
  /\ ~crashed /\ go[g].pc = "call" /\ go[g].pos = Handler
  /\ \E x \in Results : Return(g, x)
  /\ UNCHANGED <<chain, sem, serverCtx, received, crashed>>

-----------------------------------------------------------------------------
(* Recover, Validate, and the observers *)

RecoverCall(g) ==
  /\ Calls(g, "recover")
  /\ Next_(g)
  /\ UNCHANGED <<chain, sem, serverCtx, received, crashed>>

\* Faulty variant: recover() is called only to log.
RecoverReturnIfLogging(g) ==
  /\ Resumes(g, "recover")
  /\ \E logging \in BOOLEAN :
       Return(g, IF Result(g) = "panic" /\ logging THEN "settled"
                                                   ELSE Result(g))
  /\ UNCHANGED <<chain, sem, serverCtx, received, crashed>>

RecoverReturn(g) ==
  /\ Resumes(g, "recover")
  /\ Return(g, IF Result(g) = "panic" THEN "settled" ELSE Result(g))
  /\ UNCHANGED <<chain, sem, serverCtx, received, crashed>>

ValidateCall(g) ==
  /\ Calls(g, "validate")
  /\ Next_(g) \/ \E x \in {"settled", "panic"} : Return(g, x)
  /\ UNCHANGED <<chain, sem, serverCtx, received, crashed>>

ValidateReturn(g) ==
  /\ Resumes(g, "validate")
  /\ Return(g, Result(g))
  /\ UNCHANGED <<chain, sem, serverCtx, received, crashed>>

ObserveCall(g) ==
  /\ Calls(g, "observe")
  /\ Next_(g)
  /\ UNCHANGED <<chain, sem, serverCtx, received, crashed>>

\* The logger or the callback is told once next has returned.
ObserveReturn(g) ==
  /\ Resumes(g, "observe")
  /\ \E x \in {Result(g), "panic"} : Return(g, x)
  /\ UNCHANGED <<chain, sem, serverCtx, received, crashed>>

-----------------------------------------------------------------------------
(* MaxConcurrency *)

\* Faulty variant: the slot is given back before next is called.
LimitCallUnheld(g) ==
  /\ Calls(g, "limit")
  /\ IF sem[go[g].pos] < Limit THEN Next_(g) ELSE Return(g, "retryable")
  /\ UNCHANGED <<chain, sem, serverCtx, received, crashed>>

LimitCall(g) ==
  /\ Calls(g, "limit")
  /\ IF sem[go[g].pos] < Limit
     THEN Next_(g) /\ sem' = [sem EXCEPT ![go[g].pos] = @ + 1]
     ELSE Return(g, "retryable") /\ UNCHANGED sem
  /\ UNCHANGED <<chain, serverCtx, received, crashed>>

\* Faulty variant: the slot is given back after next, not in a defer.
LimitReturnUndeferred(g) ==
  /\ Resumes(g, "limit")
  /\ sem' = IF Result(g) = "panic" THEN sem
                                   ELSE [sem EXCEPT ![go[g].pos] = @ - 1]
  /\ Return(g, Result(g))
  /\ UNCHANGED <<chain, serverCtx, received, crashed>>

LimitReturn(g) ==
  /\ Resumes(g, "limit")
  /\ sem' = [sem EXCEPT ![go[g].pos] = @ - 1]
  /\ Return(g, Result(g))
  /\ UNCHANGED <<chain, serverCtx, received, crashed>>

-----------------------------------------------------------------------------
(* Timeout *)

Free == {w \in Workers : go[w].pc = "idle"}

\* A goroutine is started for the rest of the chain, under a context that is
\* done already if the caller's is; which number it gets does not matter.
TimeoutCall(g) ==
  /\ Calls(g, "timeout")
  /\ Free # {}
  /\ go' = [go EXCEPT
       ![g].pc = "select",
       ![Min(Free)] = [Idle EXCEPT !.pc = "call", !.pos = go[g].pos + 1,
                                   !.base = go[g].pos, !.parent = g,
                                   !.ctx = Ctx(g)]]
  /\ UNCHANGED <<chain, sem, serverCtx, received, crashed>>

\* The deadline of w's context passes, or the context it is derived from ends.
Expire(w) ==
  /\ ~crashed /\ go[w].parent # None /\ go[w].ctx = "live"
  /\ \/ go' = [go EXCEPT ![w].ctx = "expired"]
     \/ Ctx(go[w].parent) # "live"
        /\ go' = [go EXCEPT ![w].ctx = Ctx(go[w].parent)]
  /\ UNCHANGED <<chain, sem, serverCtx, received, crashed>>

\* Faulty variant: done has no buffer, so that nobody is there to take the
\* result of an abandoned goroutine.
FinishUnbuffered(w) ==
  /\ ~crashed /\ go[w].pc = "return" /\ go[w].pos = go[w].base
  /\ Result(w) # "panic"
  /\ go[w].parent # None
  /\ go' = [go EXCEPT ![w].pc = "sent"]
  /\ UNCHANGED <<chain, sem, serverCtx, received, crashed>>

\* done <- result: the buffer has room even if nobody waits any more.
Finish(w) ==
  /\ ~crashed /\ go[w].pc = "return" /\ go[w].pos = go[w].base
  /\ Result(w) # "panic"
  /\ go' = [go EXCEPT ![w] = IF @.parent = None THEN Idle
                                                ELSE [@ EXCEPT !.pc = "sent"]]
  /\ UNCHANGED <<chain, sem, serverCtx, received, crashed>>

\* The select of Timeout, which chooses when both cases are ready: the result
\* is there, or the context is done and the worker w is left to itself.
TimeoutAnswered(g, w) ==
  /\ ~crashed /\ go[g].pc = "select" /\ go[w].parent = g
  /\ go[w].pc = "sent"
  /\ go' = [go EXCEPT ![g] = Returning(g, Result(w)), ![w] = Idle]
  /\ UNCHANGED <<chain, sem, serverCtx, received, crashed>>

TimeoutFires(g, w) ==
  /\ ~crashed /\ go[g].pc = "select" /\ go[w].parent = g
  /\ go[w].ctx # "live"
  /\ go' = [go EXCEPT
       ![g] = Returning(g, IF go[w].ctx = "expired" THEN "retryable"
                                                    ELSE "settled"),
       ![w] = IF @.pc = "sent" THEN Idle ELSE [@ EXCEPT !.parent = None]]
  /\ UNCHANGED <<chain, sem, serverCtx, received, crashed>>

-----------------------------------------------------------------------------
(* Retry *)

\* The head of the loop: another attempt, or the error that wraps the last.
Attempt(g, n) ==
  go' = [go EXCEPT ![g] =
           IF n < MaxAttempts
           THEN [go[g] EXCEPT !.pc = "call", !.pos = go[g].pos + 1,
                              !.attempt[go[g].pos] = n]
           ELSE Returning(g, IF n = 0 THEN "settled" ELSE "retryable")]

RetryCall(g) ==
  /\ Calls(g, "retry")
  /\ Attempt(g, 0)
  /\ UNCHANGED <<chain, sem, serverCtx, received, crashed>>

RetryReturn(g) ==
  /\ Resumes(g, "retry")
  /\ IF Result(g) = "retryable"
     THEN go' = [go EXCEPT ![g].pc = "backoff", ![g].result = "settled"]
     ELSE Return(g, Result(g))
  /\ UNCHANGED <<chain, sem, serverCtx, received, crashed>>

\* Faulty variant: the attempt is not counted.
BackoffUncounted(g) ==
  /\ ~crashed /\ go[g].pc = "backoff"
  /\ Attempt(g, go[g].attempt[go[g].pos])
  /\ UNCHANGED <<chain, sem, serverCtx, received, crashed>>

\* The wait, after the last attempt too, ends with time or with the context.
Backoff(g) ==
  /\ ~crashed /\ go[g].pc = "backoff"
  /\ \/ Attempt(g, go[g].attempt[go[g].pos] + 1)
     \/ Ctx(g) # "live" /\ Return(g, "settled")
  /\ UNCHANGED <<chain, sem, serverCtx, received, crashed>>

-----------------------------------------------------------------------------

\* The context given to Run is cancelled; what is being served goes on.
ServerCtxEnds ==
  /\ ~crashed /\ serverCtx = "live"
  /\ serverCtx' = "canceled"
  /\ UNCHANGED <<chain, go, sem, received, crashed>>

\* What a goroutine does next, unless it is in the service's handler.
Step(g) ==
  \/ RecoverCall(g) \/ RecoverReturn(g)
  \/ ValidateCall(g) \/ ValidateReturn(g)
  \/ ObserveCall(g) \/ ObserveReturn(g)
  \/ LimitCall(g) \/ LimitReturn(g)
  \/ RetryCall(g) \/ RetryReturn(g) \/ Backoff(g)
  \/ TimeoutCall(g)
  \/ \E w \in Workers : TimeoutAnswered(g, w) \/ TimeoutFires(g, w)
  \/ Crash(g)
  \/ g \in Workers /\ Finish(g)
  \/ g \in Receivers /\ Reply(g)

Rest ==
  /\ \/ crashed
     \/ received = MaxRequests[chain] /\ \A g \in Goroutines : go[g].pc = "idle"
  /\ UNCHANGED vars

Next ==
  \/ \E r \in Receivers : Receive(r)
  \/ \E g \in Goroutines : Step(g) \/ Handle(g)
  \/ \E w \in Workers : Expire(w)
  \/ ServerCtxEnds
  \/ Rest

Spec == Init /\ [][Next]_vars

\* Goroutines run and deadlines pass; a service's handler need not return.
FairSpec ==
  /\ Spec
  /\ \A g \in Goroutines : WF_vars(Step(g))
  /\ \A w \in Workers : WF_vars(Expire(w))

-----------------------------------------------------------------------------
(* Properties *)

\* No Timeout is inside position p.
Innermost(p) == \A q \in Positions : q > p => chain[q] # "timeout"

\* Goroutine g is between the call of the middleware at p and its return.
Inside(g, p) ==
  /\ go[g].base < p
  /\ \/ go[g].pc \in {"call", "select", "backoff"} /\ go[g].pos > p
     \/ go[g].pc = "return" /\ go[g].pos >= p

Running == {g \in Goroutines : go[g].pc = "call" /\ go[g].pos = Handler}

\* MaxConcurrency gives every slot back, once, however the call ends: the
\* slots taken are those of the calls in progress.
SlotsAccounted ==
  \A p \in Positions :
    chain[p] = "limit" =>
      sem[p] = Cardinality({g \in Goroutines : Inside(g, p)})

\* MaxConcurrency "limits concurrent requests".
LimitHolds ==
  (\E p \in Positions : chain[p] = "limit") => Cardinality(Running) <= Limit

\* It does when no Timeout is inside it.
InnermostLimitHolds ==
  (\E p \in Positions : chain[p] = "limit" /\ Innermost(p))
    => Cardinality(Running) <= Limit

\* Recover "catches panics from everything below".
RecoverHolds == (\E p \in Positions : chain[p] = "recover") => ~crashed

\* Where a panic may start, and when a Recover outside q is in the goroutine
\* that runs q: no Timeout is in between.
Panicking ==
  {Handler} \cup {q \in Positions : chain[q] \in {"validate", "observe"}}
Guarded(q) ==
  \E p \in Positions :
    /\ p < q /\ chain[p] = "recover"
    /\ \A t \in Positions : p < t /\ t < q => chain[t] # "timeout"

\* It does when everything of the application's that may panic is inside a
\* Recover with no Timeout in between.
GuardedPanicsCaught == (\A q \in Panicking : Guarded(q)) => ~crashed

\* With a Timeout anywhere in the chain the receiver gets an answer and goes
\* on to its next message, even if the service's handler never returns.
RequestsAnswered ==
  \A r \in Receivers :
    (go[r].pc # "idle" /\ \E p \in Positions : chain[p] = "timeout")
      ~> (go[r].pc = "idle" \/ crashed)

\* A goroutine that Timeout has given up on ends once its call has returned.
AbandonedEnd ==
  \A w \in Workers :
    (go[w].pc = "return" /\ go[w].pos = go[w].base)
      ~> (go[w].pc # "return" \/ crashed)
=============================================================================
