-------------------------- MODULE MiddlewareProofs --------------------------
(***************************************************************************)
(* Theorems about Middleware for all values of its constants: any chain,   *)
(* any number of receivers, workers and requests, any Limit.               *)
(***************************************************************************)
EXTENDS Middleware, Integers, FiniteSetTheorems, WellFoundedInduction, TLAPS

-----------------------------------------------------------------------------
(* The inductive invariant *)

\* Where a goroutine's call may be: strictly inside the Timeout that started
\* it, waiting only in a middleware that waits.
Placed(f) ==
  /\ f.pc \in {"call", "select", "backoff"} => f.pos > f.base
  /\ f.pc = "select" => f.pos \in Positions /\ chain[f.pos] = "timeout"
  /\ f.pc = "backoff" => f.pos \in Positions /\ chain[f.pos] = "retry"
  /\ f.pc = "return" => f.pos >= f.base /\ f.pos <= Len(chain)
  /\ f.base # 0 => chain[f.base] = "timeout"
  /\ f.pc = "idle" => f.base = 0

\* A Recover that a panic on its way out comes to before it leaves goroutine
\* base's, once it has been returned to pos.
Ahead(base, pos) ==
  \E p \in Positions : base < p /\ p <= pos /\ chain[p] = "recover"

\* A panic never leaves the goroutine it happened in, and if every place one may
\* start at is guarded there is a Recover ahead of it.
AllGuarded == \A q \in Panicking : Guarded(q)
PanicContained(f) ==
  /\ f.pc = "sent" => f.result # "panic"
  /\ AllGuarded /\ f.pc = "return" /\ f.result = "panic"
       => Ahead(f.base, f.pos)

\* What is always true of the frame f of goroutine g.
Fits(g, f) ==
  /\ f \in Frames /\ f.parent # g
  /\ Placed(f) /\ PanicContained(f)

AllFit ==
  /\ go \in [Goroutines -> Frames]
  /\ \A g \in Goroutines : Fits(g, go[g])

Plain ==
  /\ chain \in Chains
  /\ serverCtx \in Ctxs
  /\ received \in 0..MaxRequests[chain]
  /\ crashed \in BOOLEAN

SemRange ==
  /\ sem \in [Positions -> Int]
  /\ \A p \in Positions : sem[p] <= Limit /\ (chain[p] # "limit" => sem[p] = 0)

Inv == Plain /\ AllFit /\ SemRange /\ SlotsAccounted

-----------------------------------------------------------------------------
(* The parts of a chain and of a step *)

\* A chain's positions are the numbers up to its length.
LEMMA ChainType ==
  ASSUME chain \in Chains
  PROVE  /\ chain \in Seq(Kinds) /\ Len(chain) \in Nat
         /\ Positions = 1..Len(chain) /\ Handler = Len(chain) + 1
         /\ \A p \in Positions : chain[p] \in Kinds
<1>1. chain \in Seq(Kinds)
  BY MiddlewareAssumption
<1> QED
  BY <1>1 DEF Positions, Handler

\* A set of numbers that is not empty has a smallest one.
LEMMA MinInSet ==
  ASSUME NEW S \in SUBSET Nat, S # {}
  PROVE  Min(S) \in S
<1> DEFINE Smaller == {xy \in Nat \X Nat : xy[1] < xy[2]}
<1>1. IsWellFoundedOn(Smaller, Nat)
  BY NatLessThanWellFounded DEF OpToRel
<1>2. \E x \in S : \A y \in S : ~ (<<y, x>> \in Smaller)
  <2> HIDE DEF Smaller
  <2> QED
    BY <1>1, WFMin
<1>3. \E x \in S : \A y \in S : x <= y
  <2>1. PICK x \in S : \A y \in S : ~ (<<y, x>> \in Smaller)
    BY <1>2
  <2>2. ASSUME NEW y \in S PROVE x <= y
    <3>1. ~ (y < x)
      BY <2>1
    <3> QED
      BY <3>1
  <2> QED
    BY <2>2
<1> QED
  BY <1>3 DEF Min

\* There are finitely many goroutines, so that sets of them can be counted.
LEMMA Countable ==
  ASSUME NEW S \in SUBSET Goroutines
  PROVE  IsFiniteSet(S) /\ Cardinality(S) \in Nat
<1>1. IsFiniteSet(Goroutines)
  BY MiddlewareAssumption, FS_Union DEF Goroutines
<1> QED
  BY <1>1, FS_Subset, FS_CardinalityType

\* The goroutines with a call in progress at p.
Counted(p) == {g \in Goroutines : Inside(g, p)}

\* A call that enters or leaves no MaxConcurrency.
SameCalls(f, h) ==
  \A p \in Positions : chain[p] = "limit" =>
    ((/\ f.base < p
      /\ \/ f.pc \in {"call", "select", "backoff"} /\ f.pos > p
         \/ f.pc = "return" /\ f.pos >= p)
     <=>
     (/\ h.base < p
      /\ \/ h.pc \in {"call", "select", "backoff"} /\ h.pos > p
         \/ h.pc = "return" /\ h.pos >= p))

\* Frames that fit before the step is counted fit after it.
LEMMA FramesFit ==
  ASSUME \A g \in Goroutines : Fits(g, go'[g]),
         go' \in [Goroutines -> Frames], chain' = chain
  PROVE  AllFit'
<1>1. Positions' = Positions /\ Handler' = Handler /\ Frames' = Frames
  BY DEF Positions, Handler, Frames
<1>2. ASSUME NEW g \in Goroutines PROVE Fits(g, go[g])'
  <2>1. AllGuarded' <=> AllGuarded
    BY <1>1 DEF AllGuarded, Panicking, Guarded
  <2>2. Placed(go[g])' /\ PanicContained(go[g])'
    BY <1>1, <2>1 DEF Fits, Placed, PanicContained, Ahead
  <2> QED
    BY <1>1, <2>2 DEF Fits
<1> QED
  BY <1>1, <1>2 DEF AllFit

\* A step that leaves the rest alone.
LEMMA PlainKept ==
  ASSUME Inv, UNCHANGED <<chain, serverCtx, received, crashed>>
  PROVE  Plain'
BY DEF Inv, Plain

\* A step that takes and gives back no slot keeps the invariant if the new
\* frames fit.
LEMMA FramesMove ==
  ASSUME Inv,
         \A g \in Goroutines : Fits(g, go'[g]) /\ SameCalls(go[g], go'[g]),
         go' \in [Goroutines -> Frames],
         UNCHANGED <<chain, sem>>, Plain'
  PROVE  Inv'
<1>2. AllFit'
  BY FramesFit
<1>3. SemRange'
  BY DEF Inv, SemRange, Positions
<1>4. SlotsAccounted'
  <2> SUFFICES ASSUME NEW p \in Positions, chain[p] = "limit"
               PROVE  sem[p] = Cardinality(Counted(p)')
    BY DEF SlotsAccounted, Counted, Positions
  <2>1. Counted(p)' = Counted(p)
    BY DEF Counted, Inside, SameCalls, Positions
  <2> QED
    BY <2>1 DEF Inv, SlotsAccounted, Counted
<1> QED
  BY <1>2, <1>3, <1>4 DEF Inv

\* A step of one goroutine.
LEMMA OneMoves ==
  ASSUME Inv, NEW g \in Goroutines, NEW f,
         go' = [go EXCEPT ![g] = f], Fits(g, f), SameCalls(go[g], f),
         UNCHANGED <<chain, sem>>, Plain'
  PROVE  Inv'
<1>1. \A h \in Goroutines : Fits(h, go[h]) /\ SameCalls(go[h], go[h])
  BY DEF Inv, AllFit, SameCalls
<1>2. \A h \in Goroutines : Fits(h, go'[h]) /\ SameCalls(go[h], go'[h])
  BY <1>1 DEF Inv, AllFit
<1>3. go' \in [Goroutines -> Frames]
  BY DEF Inv, AllFit, Fits
<1> QED
  BY <1>2, <1>3, FramesMove

\* A step of a goroutine that also concerns one that Timeout started.
LEMMA TwoMove ==
  ASSUME Inv, NEW g \in Goroutines, NEW w \in Goroutines, g # w, NEW f, NEW h,
         go' = [go EXCEPT ![g] = f, ![w] = h],
         Fits(g, f), SameCalls(go[g], f), Fits(w, h), SameCalls(go[w], h),
         UNCHANGED <<chain, sem, serverCtx, received, crashed>>
  PROVE  Inv'
<1>1. \A k \in Goroutines : Fits(k, go[k]) /\ SameCalls(go[k], go[k])
  BY DEF Inv, AllFit, SameCalls
<1>2. \A k \in Goroutines : Fits(k, go'[k]) /\ SameCalls(go[k], go'[k])
  BY <1>1 DEF Inv, AllFit
<1>3. go' \in [Goroutines -> Frames]
  BY DEF Inv, AllFit, Fits
<1> QED
  BY <1>2, <1>3, FramesMove, PlainKept

-----------------------------------------------------------------------------
(* The frames that a middleware call leaves *)

\* The fields of a goroutine's frame have their types.
LEMMA FrameType ==
  ASSUME Inv, NEW g \in Goroutines
  PROVE  /\ go[g] \in Frames /\ Fits(g, go[g])
         /\ go[g].pc \in {"idle", "call", "select", "backoff", "return", "sent"}
         /\ go[g].pos \in 0..Handler /\ go[g].pos \in Nat
         /\ go[g].base \in 0..Len(chain) /\ go[g].base \in Nat
         /\ go[g].parent \in Goroutines \cup {None}
         /\ go[g].ctx \in Ctxs /\ go[g].result \in Results
         /\ go[g].attempt \in [Positions -> 0..MaxAttempts]
         /\ Ctx(g) \in Ctxs
<1>1. go[g] \in Frames /\ Fits(g, go[g]) /\ serverCtx \in Ctxs
  BY DEF Inv, AllFit, Plain
<1>2. Len(chain) \in Nat /\ Handler = Len(chain) + 1
  BY ChainType DEF Inv, Plain
<1> QED
  BY <1>1, <1>2 DEF Frames, Ctx

\* The call of the middleware one further in.
Onward(g) == [go[g] EXCEPT !.pc = "call", !.pos = @ + 1]

\* It is what a middleware does that calls the next one.
LEMMA NextIsOnward ==
  ASSUME Inv, NEW g \in Goroutines, Next_(g)
  PROVE  go' = [go EXCEPT ![g] = Onward(g)]
BY FrameType DEF Next_, Onward, Inv, AllFit, Frames

\* That call is placed inside the chain,
LEMMA OnwardFits ==
  ASSUME Inv, NEW g \in Goroutines,
         go[g].pos \in Positions, go[g].pos > go[g].base
  PROVE  Fits(g, Onward(g))
<1>1. go[g].pos + 1 \in 0..Handler /\ go[g].pos + 1 > go[g].base
  BY ChainType, FrameType DEF Inv, Plain
<1>2. Onward(g) \in Frames
  BY <1>1, FrameType DEF Onward, Frames
<1> QED
  BY <1>1, <1>2, FrameType DEF Onward, Frames, Fits, Placed, PanicContained

\* and enters or leaves no MaxConcurrency but the one that makes it.
LEMMA OnwardKeepsCalls ==
  ASSUME Inv, NEW g \in Goroutines, go[g].pc \in {"call", "backoff"},
         go[g].pos \in Positions, chain[go[g].pos] # "limit"
  PROVE  SameCalls(go[g], Onward(g))
<1>1. /\ Onward(g).pc = "call" /\ Onward(g).pos = go[g].pos + 1
      /\ Onward(g).base = go[g].base
  BY FrameType DEF Onward, Frames
<1>2. Positions \subseteq Nat
  BY ChainType DEF Inv, Plain
<1> QED
  BY <1>1, <1>2, FrameType DEF SameCalls

\* A panic comes back only to where it may be.
MayReturn(g, x) ==
  x = "panic" /\ AllGuarded => Ahead(go[g].base, go[g].pos - 1)

\* A return to the middleware outside is placed in the chain as well,
LEMMA ReturningFits ==
  ASSUME Inv, NEW g \in Goroutines, NEW x \in Results,
         go[g].pos > go[g].base, MayReturn(g, x)
  PROVE  Fits(g, Returning(g, x))
<1>1. Len(chain) \in Nat /\ Handler = Len(chain) + 1
  BY ChainType DEF Inv, Plain
<1>2. go[g].pos - 1 \in 0..Len(chain) /\ go[g].pos - 1 >= go[g].base
  BY <1>1, FrameType
<1> DEFINE a == [q \in Positions |-> IF q = go[g].pos THEN 0 ELSE go[g].attempt[q]]
<1>3. a \in [Positions -> 0..MaxAttempts]
  BY FrameType, MiddlewareAssumption
<1>4. Returning(g, x) = [go[g] EXCEPT !.pc = "return", !.pos = go[g].pos - 1,
                                      !.result = x, !.attempt = a]
  BY FrameType DEF Returning, Frames
<1> HIDE DEF a
<1>5. Returning(g, x) \in Frames
  <2>1. go[g].pos - 1 \in 0..Handler
    BY <1>1, <1>2
  <2> QED
    BY <2>1, <1>3, <1>4, FrameType DEF Frames
<1>6. /\ Returning(g, x).pc = "return" /\ Returning(g, x).pos = go[g].pos - 1
      /\ Returning(g, x).base = go[g].base
      /\ Returning(g, x).parent = go[g].parent
      /\ Returning(g, x).result = x
  BY <1>4, FrameType DEF Frames
<1> QED
  BY <1>2, <1>5, <1>6, FrameType DEF Fits, Placed, PanicContained, MayReturn

\* and leaves no MaxConcurrency but the one that returns.
LEMMA ReturningKeepsCalls ==
  ASSUME Inv, NEW g \in Goroutines, NEW x \in Results, go[g].pos > go[g].base,
         \/ go[g].pc \in {"call", "select", "backoff"}
         \/ go[g].pc = "return" /\ chain[go[g].pos] # "limit"
  PROVE  SameCalls(go[g], Returning(g, x))
<1>1. /\ Returning(g, x).pc = "return" /\ Returning(g, x).pos = go[g].pos - 1
      /\ Returning(g, x).base = go[g].base
  BY FrameType DEF Returning, Frames
<1>2. Positions \subseteq Nat
  BY ChainType DEF Inv, Plain
<1> QED
  BY <1>1, <1>2, FrameType DEF SameCalls

\* A panic that a middleware other than Recover is returned has a Recover ahead
\* of it still when it goes on.
LEMMA PanicGoesOn ==
  ASSUME Inv, NEW g \in Goroutines, go[g].pc = "return",
         go[g].pos \in Positions, chain[go[g].pos] # "recover"
  PROVE  MayReturn(g, Result(g))
<1>1. Positions \subseteq Nat
  BY ChainType DEF Inv, Plain
<1>2. ASSUME Result(g) = "panic", AllGuarded
      PROVE  Ahead(go[g].base, go[g].pos - 1)
  <2>1. Ahead(go[g].base, go[g].pos)
    BY <1>2, FrameType DEF Result, Fits, PanicContained
  <2>2. PICK p \in Positions :
          go[g].base < p /\ p <= go[g].pos /\ chain[p] = "recover"
    BY <2>1 DEF Ahead
  <2>3. p <= go[g].pos - 1
    BY <1>1, <2>2, FrameType
  <2> QED
    BY <2>2, <2>3 DEF Ahead
<1> QED
  BY <1>2 DEF MayReturn

\* One that starts at q has the Recover that guards q ahead: the goroutine was
\* started outside it.
LEMMA PanicStarts ==
  ASSUME Inv, NEW g \in Goroutines, NEW x,
         go[g].pos \in Panicking, go[g].pos > go[g].base
  PROVE  MayReturn(g, x)
<1>1. Positions = 1..Len(chain) /\ Len(chain) \in Nat
  BY ChainType DEF Inv, Plain
<1>2. go[g].base # 0 => go[g].base \in Positions /\ chain[go[g].base] = "timeout"
  BY <1>1, FrameType DEF Fits, Placed
<1>3. ASSUME AllGuarded PROVE Ahead(go[g].base, go[g].pos - 1)
  <2>1. PICK p \in Positions :
          /\ p < go[g].pos /\ chain[p] = "recover"
          /\ \A t \in Positions : p < t /\ t < go[g].pos => chain[t] # "timeout"
    BY <1>3 DEF AllGuarded, Guarded
  <2>2. p <= go[g].pos - 1
    BY <1>1, <2>1, FrameType
  <2>3. go[g].base < p
    BY <1>1, <1>2, <2>1, FrameType
  <2> QED
    BY <2>1, <2>2, <2>3 DEF Ahead
<1> QED
  BY <1>3 DEF MayReturn

\* A middleware that is called, or that is returned to, is at a position inside
\* the goroutine's base.
LEMMA CalledAt ==
  ASSUME Inv, NEW g \in Goroutines, NEW kind, Calls(g, kind)
  PROVE  /\ go[g].pc = "call" /\ go[g].pos \in Positions
         /\ go[g].pos > go[g].base /\ chain[go[g].pos] = kind
BY FrameType DEF Calls, Fits, Placed

\* The same for one that is returned to.
LEMMA ResumedAt ==
  ASSUME Inv, NEW g \in Goroutines, NEW kind, Resumes(g, kind)
  PROVE  /\ go[g].pc = "return" /\ go[g].pos \in Positions
         /\ go[g].pos > go[g].base /\ chain[go[g].pos] = kind
<1>1. go[g].pos <= Len(chain)
  BY FrameType DEF Resumes, Fits, Placed
<1> QED
  BY <1>1, ChainType, FrameType DEF Resumes, Inv, Plain

\* A goroutine that calls the next middleware, and one that returns.
LEMMA StepsOnward ==
  ASSUME Inv, NEW g \in Goroutines, NEW kind, Calls(g, kind), kind # "limit",
         Next_(g), UNCHANGED <<chain, sem, serverCtx, received, crashed>>
  PROVE  Inv'
<1>1. Fits(g, Onward(g)) /\ SameCalls(go[g], Onward(g))
  BY CalledAt, OnwardFits, OnwardKeepsCalls
<1> QED
  BY <1>1, NextIsOnward, OneMoves, PlainKept

\* A middleware that returns keeps it too.
LEMMA StepsBack ==
  ASSUME Inv, NEW g \in Goroutines, NEW x \in Results, Return(g, x),
         go[g].pos > go[g].base, MayReturn(g, x),
         \/ go[g].pc \in {"call", "select", "backoff"}
         \/ go[g].pc = "return" /\ chain[go[g].pos] # "limit",
         UNCHANGED <<chain, sem, serverCtx, received, crashed>>
  PROVE  Inv'
<1>1. Fits(g, Returning(g, x)) /\ SameCalls(go[g], Returning(g, x))
  BY ReturningFits, ReturningKeepsCalls
<1> QED
  BY <1>1, OneMoves, PlainKept DEF Return

\* An error and a response pass everything.
LEMMA NoPanicReturns ==
  ASSUME NEW g, NEW x \in Results, x # "panic"
  PROVE  MayReturn(g, x)
BY DEF MayReturn

\* An idle goroutine fits, and has no call in progress.
LEMMA IdleFits ==
  ASSUME Inv, NEW g \in Goroutines
  PROVE  Fits(g, Idle) /\ Idle \in Frames
<1>1. 0 \in 0..Handler /\ 0 \in 0..Len(chain) /\ None # g
  BY ChainType, MiddlewareAssumption DEF Inv, Plain, Goroutines
<1>2. [p \in Positions |-> 0] \in [Positions -> 0..MaxAttempts]
  BY MiddlewareAssumption
<1>3. Idle \in Frames
  BY <1>1, <1>2 DEF Idle, Frames, Results, Ctxs
<1> QED
  BY <1>1, <1>3 DEF Idle, Fits, Placed, PanicContained

-----------------------------------------------------------------------------
(* Every action keeps the invariant *)

\* The receive loop, the service's handler and a panic that nobody recovers.
LEMMA ReceiverKeeps ==
  ASSUME Inv, NEW g \in Goroutines,
         \/ g \in Receivers /\ (Receive(g) \/ Reply(g))
         \/ Handle(g) \/ Crash(g)
  PROVE  Inv'
<1>1. CASE g \in Receivers /\ Receive(g)
  <2> DEFINE f == [go[g] EXCEPT !.pc = "call", !.pos = 1]
  <2>1. go' = [go EXCEPT ![g] = f]
    BY <1>1, FrameType DEF Receive, Inv, AllFit, Frames
  <2>2. f \in Frames
    <3>1. 1 \in 0..Handler
      BY ChainType DEF Inv, Plain
    <3> QED
      BY <3>1, FrameType DEF Frames
  <2>3. f.pc = "call" /\ f.pos = 1 /\ f.base = go[g].base /\ f.parent = go[g].parent
    BY FrameType DEF Frames
  <2>4. go[g].base = 0 /\ go[g].pc = "idle"
    BY <1>1, FrameType DEF Receive, Fits, Placed
  <2> HIDE DEF f
  <2>5. Fits(g, f)
    BY <2>2, <2>3, <2>4, FrameType DEF Fits, Placed, PanicContained
  <2>6. SameCalls(go[g], f)
    <3>1. Positions = 1..Len(chain) /\ Len(chain) \in Nat
      BY ChainType DEF Inv, Plain
    <3> QED
      BY <2>3, <2>4, <3>1 DEF SameCalls
  <2>7. Plain'
    <3>1. received \in 0..MaxRequests[chain] /\ MaxRequests[chain] \in Nat
      BY MiddlewareAssumption DEF Inv, Plain
    <3> QED
      BY <1>1, <3>1 DEF Receive, Inv, Plain
  <2> QED
    BY <1>1, <2>1, <2>5, <2>6, <2>7, OneMoves DEF Receive
<1>2. CASE g \in Receivers /\ Reply(g)
  <2>1. SameCalls(go[g], Idle)
    BY <1>2, ChainType DEF Reply, Idle, SameCalls, Inv, Plain
  <2> QED
    BY <1>2, <2>1, IdleFits, OneMoves, PlainKept DEF Reply
<1>3. CASE Handle(g)
  <2>1. PICK x \in Results : Return(g, x)
    BY <1>3 DEF Handle
  <2>2. go[g].pos > go[g].base
    BY <1>3, FrameType DEF Handle, Fits, Placed
  <2>3. MayReturn(g, x)
    BY <1>3, <2>2, PanicStarts DEF Handle, Panicking
  <2> QED
    BY <1>3, <2>1, <2>2, <2>3, StepsBack DEF Handle
<1>4. CASE Crash(g)
  <2>1. go' = [go EXCEPT ![g] = go[g]]
    BY <1>4 DEF Crash, Inv, AllFit
  <2>2. SameCalls(go[g], go[g])
    BY DEF SameCalls
  <2>3. Plain'
    BY <1>4 DEF Crash, Inv, Plain
  <2> QED
    BY <1>4, <2>1, <2>2, <2>3, FrameType, OneMoves DEF Crash
<1> QED
  BY <1>1, <1>2, <1>3, <1>4

\* Recover, Validate and the observers.
LEMMA FilterKeeps ==
  ASSUME Inv, NEW g \in Goroutines,
         \/ RecoverCall(g) \/ RecoverReturn(g)
         \/ ValidateCall(g) \/ ValidateReturn(g)
         \/ ObserveCall(g) \/ ObserveReturn(g)
  PROVE  Inv'
<1>1. CASE RecoverCall(g)
  BY <1>1, StepsOnward DEF RecoverCall
<1>2. CASE RecoverReturn(g)
  <2> DEFINE x == IF Result(g) = "panic" THEN "settled" ELSE Result(g)
  <2>1. x \in Results /\ x # "panic"
    BY FrameType DEF Result, Results
  <2>2. Resumes(g, "recover") /\ Return(g, x)
    BY <1>2 DEF RecoverReturn
  <2> HIDE DEF x
  <2> QED
    BY <1>2, <2>1, <2>2, ResumedAt, NoPanicReturns, StepsBack DEF RecoverReturn
<1>3. CASE ValidateCall(g)
  <2>1. CASE Next_(g)
    BY <1>3, <2>1, StepsOnward DEF ValidateCall
  <2>2. ASSUME NEW x \in {"settled", "panic"}, Return(g, x) PROVE Inv'
    <3>1. x \in Results
      BY DEF Results
    <3>2. Calls(g, "validate")
      BY <1>3 DEF ValidateCall
    <3>3. MayReturn(g, x)
      BY <3>2, CalledAt, PanicStarts DEF Panicking
    <3> QED
      BY <1>3, <2>2, <3>1, <3>2, <3>3, CalledAt, StepsBack DEF ValidateCall
  <2> QED
    BY <1>3, <2>1, <2>2 DEF ValidateCall
<1>4. CASE ValidateReturn(g)
  <2>1. Resumes(g, "validate") /\ Return(g, Result(g)) /\ Result(g) \in Results
    BY <1>4, FrameType DEF ValidateReturn, Result
  <2>2. MayReturn(g, Result(g))
    BY <2>1, ResumedAt, PanicGoesOn
  <2> QED
    BY <1>4, <2>1, <2>2, ResumedAt, StepsBack DEF ValidateReturn
<1>5. CASE ObserveCall(g)
  BY <1>5, StepsOnward DEF ObserveCall
<1>6. CASE ObserveReturn(g)
  <2>1. PICK x \in {Result(g), "panic"} : Return(g, x)
    BY <1>6 DEF ObserveReturn
  <2>2. Resumes(g, "observe") /\ x \in Results
    BY <1>6, FrameType DEF ObserveReturn, Result, Results
  <2>3. MayReturn(g, x)
    BY <2>2, ResumedAt, PanicStarts DEF Panicking
  <2> QED
    BY <1>6, <2>1, <2>2, <2>3, ResumedAt, StepsBack DEF ObserveReturn
<1> QED
  BY <1>1, <1>2, <1>3, <1>4, <1>5, <1>6

\* The head of Retry's loop: its frame of another attempt.
LEMMA AttemptKeeps ==
  ASSUME Inv, NEW g \in Goroutines, NEW n \in Nat, Attempt(g, n),
         go[g].pc \in {"call", "backoff"}, go[g].pos \in Positions,
         go[g].pos > go[g].base, chain[go[g].pos] = "retry",
         UNCHANGED <<chain, sem, serverCtx, received, crashed>>
  PROVE  Inv'
<1>1. CASE n < MaxAttempts
  <2> DEFINE a == [go[g].attempt EXCEPT ![go[g].pos] = n]
             f == [Onward(g) EXCEPT !.attempt = a]
  <2>1. a \in [Positions -> 0..MaxAttempts]
    BY <1>1, FrameType, MiddlewareAssumption
  <2>2. go' = [go EXCEPT ![g] = f]
    <3> DEFINE h == [go[g] EXCEPT !.pc = "call", !.pos = go[g].pos + 1,
                                  !.attempt[go[g].pos] = n]
    <3>1. go' = [go EXCEPT ![g] = h]
      BY <1>1 DEF Attempt
    <3>2. h = f
      BY FrameType DEF Onward, Frames
    <3> QED
      BY <3>1, <3>2
  <2> HIDE DEF a
  <2>3. Fits(g, Onward(g)) /\ SameCalls(go[g], Onward(g))
    BY OnwardFits, OnwardKeepsCalls
  <2>4. f \in Frames /\ f.pc = Onward(g).pc /\ f.pos = Onward(g).pos
        /\ f.base = Onward(g).base /\ f.parent = Onward(g).parent
        /\ f.result = Onward(g).result
    BY <2>1, <2>3 DEF Fits, Frames
  <2> HIDE DEF f
  <2>5. Fits(g, f)
    BY <2>3, <2>4 DEF Fits, Placed, PanicContained
  <2>6. SameCalls(go[g], f)
    BY <2>3, <2>4 DEF SameCalls
  <2> QED
    BY <2>2, <2>5, <2>6, OneMoves, PlainKept
<1>2. CASE ~(n < MaxAttempts)
  <2> DEFINE x == IF n = 0 THEN "settled" ELSE "retryable"
  <2>1. Return(g, x) /\ x \in Results /\ x # "panic"
    BY <1>2 DEF Attempt, Return, Results
  <2> HIDE DEF x
  <2> QED
    BY <2>1, NoPanicReturns, StepsBack
<1> QED
  BY <1>1, <1>2

\* Retry.
LEMMA RetryKeeps ==
  ASSUME Inv, NEW g \in Goroutines,
         RetryCall(g) \/ RetryReturn(g) \/ Backoff(g)
  PROVE  Inv'
<1>1. CASE RetryCall(g)
  BY <1>1, CalledAt, AttemptKeeps DEF RetryCall
<1>2. CASE RetryReturn(g)
  <2>1. /\ go[g].pc = "return" /\ go[g].pos \in Positions
        /\ go[g].pos > go[g].base /\ chain[go[g].pos] = "retry"
    BY <1>2, ResumedAt DEF RetryReturn
  <2>2. CASE Result(g) = "retryable"
    <3> DEFINE f == [go[g] EXCEPT !.pc = "backoff", !.result = "settled"]
    <3>1. go' = [go EXCEPT ![g] = f]
      BY <1>2, <2>2, FrameType DEF RetryReturn, Inv, AllFit, Frames
    <3>2. /\ f \in Frames /\ f.pc = "backoff" /\ f.pos = go[g].pos
          /\ f.base = go[g].base /\ f.parent = go[g].parent
      BY FrameType DEF Frames, Results
    <3> HIDE DEF f
    <3>3. Fits(g, f)
      BY <2>1, <3>2, FrameType DEF Fits, Placed, PanicContained
    <3>4. SameCalls(go[g], f)
      <4>1. Positions \subseteq Nat
        BY ChainType DEF Inv, Plain
      <4> QED
        BY <2>1, <3>2, <4>1, FrameType DEF SameCalls
    <3> QED
      BY <1>2, <3>1, <3>3, <3>4, OneMoves, PlainKept DEF RetryReturn
  <2>3. CASE Result(g) # "retryable"
    <3>1. Return(g, Result(g)) /\ Result(g) \in Results
      BY <1>2, <2>3, FrameType DEF RetryReturn, Result
    <3>2. MayReturn(g, Result(g))
      BY <2>1, PanicGoesOn
    <3> QED
      BY <1>2, <2>1, <3>1, <3>2, StepsBack DEF RetryReturn
  <2> QED
    BY <2>2, <2>3
<1>3. CASE Backoff(g)
  <2>1. /\ go[g].pc = "backoff" /\ go[g].pos \in Positions
        /\ go[g].pos > go[g].base /\ chain[go[g].pos] = "retry"
    BY <1>3, FrameType DEF Backoff, Fits, Placed
  <2>2. CASE Attempt(g, go[g].attempt[go[g].pos] + 1)
    <3>1. go[g].attempt[go[g].pos] + 1 \in Nat
      BY <2>1, FrameType, MiddlewareAssumption
    <3> QED
      BY <1>3, <2>1, <2>2, <3>1, AttemptKeeps DEF Backoff
  <2>3. CASE Return(g, "settled")
    <3>1. "settled" \in Results
      BY DEF Results
    <3> QED
      BY <1>3, <2>1, <2>3, <3>1, NoPanicReturns, StepsBack DEF Backoff
  <2> QED
    BY <1>3, <2>2, <2>3 DEF Backoff
<1> QED
  BY <1>1, <1>2, <1>3

\* Timeout: the goroutine that calls it and the one it starts.
LEMMA TimeoutKeeps ==
  ASSUME Inv, NEW g \in Goroutines,
         \/ TimeoutCall(g)
         \/ \E w \in Workers : TimeoutAnswered(g, w) \/ TimeoutFires(g, w)
  PROVE  Inv'
<1> Workers \subseteq Goroutines /\ None \notin Goroutines
  BY MiddlewareAssumption DEF Goroutines
<1>1. CASE TimeoutCall(g)
  <2> DEFINE w == Min(Free)
             f == [go[g] EXCEPT !.pc = "select"]
             h == [Idle EXCEPT !.pc = "call", !.pos = go[g].pos + 1,
                               !.base = go[g].pos, !.parent = g, !.ctx = Ctx(g)]
  <2>1. w \in Workers /\ go[w].pc = "idle"
    <3>1. Free \in SUBSET Nat /\ Free # {}
      BY <1>1, MiddlewareAssumption DEF TimeoutCall, Free
    <3>2. w \in Free
      BY <3>1, MinInSet
    <3> QED
      BY <3>2 DEF Free
  <2>2. /\ go[g].pc = "call" /\ go[g].pos \in Positions
        /\ go[g].pos > go[g].base /\ chain[go[g].pos] = "timeout"
    BY <1>1, CalledAt DEF TimeoutCall
  <2>3. g # w
    BY <2>1, <2>2
  <2>4. go' = [go EXCEPT ![g] = f, ![w] = h]
    BY <1>1, <2>3, FrameType DEF TimeoutCall, Inv, AllFit
  <2> HIDE DEF w
  <2>5. /\ f \in Frames /\ f.pc = "select" /\ f.pos = go[g].pos
        /\ f.base = go[g].base /\ f.parent = go[g].parent
    BY FrameType DEF Frames
  <2>6. Fits(g, f) /\ SameCalls(go[g], f)
    BY <2>2, <2>5, FrameType DEF Fits, Placed, PanicContained, SameCalls
  <2>7. /\ Positions = 1..Len(chain) /\ Len(chain) \in Nat
        /\ Handler = Len(chain) + 1
    BY ChainType DEF Inv, Plain
  <2>8. /\ h \in Frames /\ h.pc = "call" /\ h.pos = go[g].pos + 1
        /\ h.base = go[g].pos /\ h.parent = g
    <3>1. go[g].pos + 1 \in 0..Handler /\ go[g].pos \in 0..Len(chain)
      BY <2>2, <2>7
    <3> QED
      BY <3>1, IdleFits, FrameType DEF Frames, Idle
  <2>9. Fits(w, h)
    BY <2>2, <2>3, <2>7, <2>8 DEF Fits, Placed, PanicContained
  <2>10. SameCalls(go[w], h)
    BY <2>1, <2>2, <2>7, <2>8 DEF SameCalls
  <2> HIDE DEF f, h
  <2> QED
    BY <1>1, <2>1, <2>3, <2>4, <2>6, <2>9, <2>10, TwoMove DEF TimeoutCall
<1>2. ASSUME NEW w \in Workers, TimeoutAnswered(g, w)
      PROVE  Inv'
  <2> DEFINE x == Result(w)
  <2>1. /\ go[g].pc = "select" /\ go[g].pos > go[g].base
        /\ go[w].pc = "sent" /\ x \in Results /\ x # "panic"
    BY <1>2, FrameType DEF TimeoutAnswered, Fits, Placed, PanicContained, Result
  <2>2. /\ Fits(g, Returning(g, x)) /\ SameCalls(go[g], Returning(g, x))
    BY <2>1, NoPanicReturns, ReturningFits, ReturningKeepsCalls
  <2>3. Fits(w, Idle) /\ SameCalls(go[w], Idle)
    BY <2>1, IdleFits DEF SameCalls, Idle
  <2> QED
    BY <1>2, <2>1, <2>2, <2>3, TwoMove DEF TimeoutAnswered
<1>3. ASSUME NEW w \in Workers, TimeoutFires(g, w)
      PROVE  Inv'
  <2> DEFINE x == IF go[w].ctx = "expired" THEN "retryable" ELSE "settled"
             h == IF go[w].pc = "sent" THEN Idle
                                       ELSE [go[w] EXCEPT !.parent = None]
  <2>1. /\ go[g].pc = "select" /\ go[g].pos > go[g].base
        /\ x \in Results /\ x # "panic"
    BY <1>3, FrameType DEF TimeoutFires, Fits, Placed, Results
  <2>2. g # w
    BY <1>3, FrameType DEF TimeoutFires, Fits
  <2>3. go' = [go EXCEPT ![g] = Returning(g, x), ![w] = h]
    BY <1>3, <2>2 DEF TimeoutFires, Inv, AllFit
  <2>4. /\ Fits(g, Returning(g, x)) /\ SameCalls(go[g], Returning(g, x))
    BY <2>1, NoPanicReturns, ReturningFits, ReturningKeepsCalls
  <2>5. Fits(w, h) /\ SameCalls(go[w], h)
    <3>1. CASE go[w].pc = "sent"
      BY <3>1, IdleFits DEF SameCalls, Idle
    <3>2. CASE go[w].pc # "sent"
      <4>1. /\ h \in Frames /\ h.pc = go[w].pc /\ h.pos = go[w].pos
            /\ h.base = go[w].base /\ h.parent = None
            /\ h.result = go[w].result
        BY <3>2, FrameType DEF Frames
      <4> HIDE DEF h
      <4> QED
        BY <4>1, FrameType DEF Fits, Placed, PanicContained, SameCalls
    <3> QED
      BY <3>1, <3>2
  <2> HIDE DEF x, h
  <2> QED
    BY <1>3, <2>2, <2>3, <2>4, <2>5, TwoMove DEF TimeoutFires
<1> QED
  BY <1>1, <1>2, <1>3

\* A worker's context ends, or it sends its result.
LEMMA WorkerKeeps ==
  ASSUME Inv, NEW w \in Workers, Expire(w) \/ Finish(w)
  PROVE  Inv'
<1> w \in Goroutines
  BY DEF Goroutines
<1>1. ASSUME NEW c \in Ctxs, go' = [go EXCEPT ![w].ctx = c],
             UNCHANGED <<chain, sem, serverCtx, received, crashed>>
      PROVE  Inv'
  <2> DEFINE f == [go[w] EXCEPT !.ctx = c]
  <2>1. go' = [go EXCEPT ![w] = f]
    BY <1>1, FrameType DEF Inv, AllFit
  <2>2. /\ f \in Frames /\ f.pc = go[w].pc /\ f.pos = go[w].pos
        /\ f.base = go[w].base /\ f.parent = go[w].parent
        /\ f.result = go[w].result
    BY FrameType DEF Frames
  <2> HIDE DEF f
  <2>3. Fits(w, f) /\ SameCalls(go[w], f)
    BY <2>2, FrameType DEF Fits, Placed, PanicContained, SameCalls
  <2> QED
    BY <1>1, <2>1, <2>3, OneMoves, PlainKept
<1>2. CASE Expire(w)
  <2>1. go[w].parent # None => go[w].parent \in Goroutines
    BY FrameType
  <2>2. "expired" \in Ctxs /\ Ctx(go[w].parent) \in Ctxs
    BY <1>2, <2>1, FrameType DEF Expire, Ctxs
  <2> QED
    BY <1>1, <1>2, <2>2 DEF Expire
<1>3. CASE Finish(w)
  <2>1. go[w].pc = "return" /\ go[w].pos = go[w].base /\ go[w].result # "panic"
    BY <1>3 DEF Finish, Result
  <2>2. CASE go[w].parent = None
    <3>1. go' = [go EXCEPT ![w] = Idle]
      BY <1>3, <2>2 DEF Finish, Inv, AllFit
    <3>2. SameCalls(go[w], Idle)
      <4>1. Positions \subseteq Nat
        BY ChainType DEF Inv, Plain
      <4> QED
        BY <2>1, <4>1, FrameType DEF SameCalls, Idle
    <3> QED
      BY <1>3, <3>1, <3>2, IdleFits, OneMoves, PlainKept DEF Finish
  <2>3. CASE go[w].parent # None
    <3> DEFINE f == [go[w] EXCEPT !.pc = "sent"]
    <3>1. go' = [go EXCEPT ![w] = f]
      BY <1>3, <2>3 DEF Finish, Inv, AllFit
    <3>2. /\ f \in Frames /\ f.pc = "sent" /\ f.pos = go[w].pos
          /\ f.base = go[w].base /\ f.parent = go[w].parent
          /\ f.result = go[w].result
      BY FrameType DEF Frames
    <3> HIDE DEF f
    <3>3. Fits(w, f)
      BY <2>1, <3>2, FrameType DEF Fits, Placed, PanicContained
    <3>4. SameCalls(go[w], f)
      <4>1. Positions \subseteq Nat
        BY ChainType DEF Inv, Plain
      <4> QED
        BY <2>1, <3>2, <4>1, FrameType DEF SameCalls
    <3> QED
      BY <1>3, <3>1, <3>3, <3>4, OneMoves, PlainKept DEF Finish
  <2> QED
    BY <2>2, <2>3
<1> QED
  BY <1>2, <1>3

\* MaxConcurrency takes a slot and gives it back.
LEMMA LimitKeeps ==
  ASSUME Inv, NEW g \in Goroutines, LimitCall(g) \/ LimitReturn(g)
  PROVE  Inv'
<1> DEFINE p == go[g].pos
<1>1. Positions \subseteq Nat /\ \A q \in Positions : sem[q] \in Int
  BY ChainType DEF Inv, Plain, SemRange
<1>0. Limit \in Int
  BY MiddlewareAssumption
<1>2. CASE LimitCall(g) /\ ~(sem[p] < Limit)
  <2>1. "retryable" \in Results /\ Return(g, "retryable") /\ Calls(g, "limit")
    BY <1>2 DEF Results, LimitCall
  <2> QED
    BY <1>2, <2>1, CalledAt, NoPanicReturns, StepsBack DEF LimitCall
<1>3. CASE LimitCall(g) /\ sem[p] < Limit
  <2>1. /\ go[g].pc = "call" /\ p \in Positions
        /\ p > go[g].base /\ chain[p] = "limit"
    BY <1>3, CalledAt DEF LimitCall
  <2>2. go' = [go EXCEPT ![g] = Onward(g)] /\ sem' = [sem EXCEPT ![p] = sem[p] + 1]
    BY <1>3, NextIsOnward DEF LimitCall
  <2>3. /\ Onward(g).pc = "call" /\ Onward(g).pos = p + 1
        /\ Onward(g).base = go[g].base
    BY FrameType DEF Onward, Frames
  <2>4. Fits(g, Onward(g)) /\ Onward(g) \in Frames
    BY <2>1, OnwardFits DEF Fits
  <2>5. AllFit'
    <3>1. \A h \in Goroutines : Fits(h, go'[h])
      BY <2>2, <2>4, FrameType DEF Inv, AllFit
    <3>2. go' \in [Goroutines -> Frames]
      BY <2>2, <2>4 DEF Inv, AllFit
    <3> QED
      BY <1>3, <3>1, <3>2, FramesFit DEF LimitCall
  <2>6. SemRange'
    <3>1. sem[p] + 1 \in Int /\ sem[p] + 1 <= Limit
      <4>1. sem[p] < Limit /\ sem[p] \in Int
        BY <1>1, <1>3, <2>1
      <4> HIDE DEF p
      <4> QED
        BY <1>0, <4>1
    <3> QED
      BY <1>3, <2>1, <2>2, <3>1 DEF LimitCall, Inv, SemRange, Positions
  <2>7. ASSUME NEW q \in Positions, chain[q] = "limit"
        PROVE  sem'[q] = Cardinality(Counted(q)')
    <3>1. sem[q] = Cardinality(Counted(q))
      BY <2>7 DEF Inv, SlotsAccounted, Counted
    <3>2. CASE q = p
      <4>1. Counted(q)' = Counted(q) \cup {g}
        BY <1>1, <2>1, <2>2, <2>3, <3>2, FrameType
        DEF Counted, Inside, Inv, AllFit
      <4>2. g \notin Counted(q)
        BY <1>1, <2>1, <3>2 DEF Counted, Inside
      <4>3. IsFiniteSet(Counted(q))
        BY Countable DEF Counted
      <4>4. Cardinality(Counted(q)') = Cardinality(Counted(q)) + 1
        BY <4>1, <4>2, <4>3, FS_AddElement
      <4> QED
        BY <2>1, <2>2, <3>1, <3>2, <4>4 DEF Inv, SemRange
    <3>3. CASE q # p
      <4>1. Counted(q)' = Counted(q)
        BY <1>1, <2>1, <2>2, <2>3, <3>3, FrameType
        DEF Counted, Inside, Inv, AllFit
      <4> QED
        BY <2>1, <2>2, <3>1, <3>3, <4>1 DEF Inv, SemRange
    <3> QED
      BY <3>2, <3>3
  <2>8. SlotsAccounted'
    BY <1>3, <2>7 DEF LimitCall, SlotsAccounted, Counted, Positions
  <2> QED
    BY <1>3, <2>5, <2>6, <2>8, PlainKept DEF LimitCall, Inv
<1>4. CASE LimitReturn(g)
  <2> DEFINE f == Returning(g, Result(g))
  <2>1. /\ go[g].pc = "return" /\ p \in Positions
        /\ p > go[g].base /\ chain[p] = "limit"
    BY <1>4, ResumedAt DEF LimitReturn
  <2>2. go' = [go EXCEPT ![g] = f] /\ sem' = [sem EXCEPT ![p] = sem[p] - 1]
    BY <1>4 DEF LimitReturn, Return
  <2>3. f.pc = "return" /\ f.pos = p - 1 /\ f.base = go[g].base
    BY FrameType DEF Returning, Frames
  <2>4. Fits(g, f) /\ f \in Frames
    <3>1. MayReturn(g, Result(g)) /\ Result(g) \in Results
      BY <2>1, PanicGoesOn, FrameType DEF Result
    <3> QED
      BY <2>1, <3>1, ReturningFits DEF Fits
  <2> HIDE DEF f
  <2>5. AllFit'
    <3>1. \A h \in Goroutines : Fits(h, go'[h])
      BY <2>2, <2>4, FrameType DEF Inv, AllFit
    <3>2. go' \in [Goroutines -> Frames]
      BY <2>2, <2>4 DEF Inv, AllFit
    <3> QED
      BY <1>4, <3>1, <3>2, FramesFit DEF LimitReturn
  <2>6. SemRange'
    <3>1. sem[p] - 1 \in Int /\ sem[p] - 1 <= Limit
      <4>1. sem[p] <= Limit /\ sem[p] \in Int
        BY <1>1, <2>1 DEF Inv, SemRange
      <4> HIDE DEF p
      <4> QED
        BY <1>0, <4>1
    <3> QED
      BY <1>4, <2>1, <2>2, <3>1 DEF LimitReturn, Inv, SemRange, Positions
  <2>7. ASSUME NEW q \in Positions, chain[q] = "limit"
        PROVE  sem'[q] = Cardinality(Counted(q)')
    <3>1. sem[q] = Cardinality(Counted(q))
      BY <2>7 DEF Inv, SlotsAccounted, Counted
    <3>2. CASE q = p
      <4>1. Counted(q)' = Counted(q) \ {g}
        BY <1>1, <2>1, <2>2, <2>3, <3>2, FrameType
        DEF Counted, Inside, Inv, AllFit
      <4>2. g \in Counted(q)
        BY <1>1, <2>1, <3>2, FrameType DEF Counted, Inside
      <4>3. IsFiniteSet(Counted(q))
        BY Countable DEF Counted
      <4>4. Cardinality(Counted(q)') = Cardinality(Counted(q)) - 1
        BY <4>1, <4>2, <4>3, FS_RemoveElement
      <4> QED
        BY <2>1, <2>2, <3>1, <3>2, <4>4 DEF Inv, SemRange
    <3>3. CASE q # p
      <4>1. Counted(q)' = Counted(q)
        BY <1>1, <2>1, <2>2, <2>3, <3>3, FrameType
        DEF Counted, Inside, Inv, AllFit
      <4> QED
        BY <2>1, <2>2, <3>1, <3>3, <4>1 DEF Inv, SemRange
    <3> QED
      BY <3>2, <3>3
  <2>8. SlotsAccounted'
    BY <1>4, <2>7 DEF LimitReturn, SlotsAccounted, Counted, Positions
  <2> QED
    BY <1>4, <2>5, <2>6, <2>8, PlainKept DEF LimitReturn, Inv
<1> QED
  BY <1>2, <1>3, <1>4

\* The context given to Run ends, or nothing happens.
LEMMA StillKeeps ==
  ASSUME Inv, ServerCtxEnds \/ UNCHANGED vars
  PROVE  Inv'
<1>1. \A g \in Goroutines : Fits(g, go[g]) /\ SameCalls(go[g], go[g])
  BY FrameType DEF SameCalls
<1>2. UNCHANGED <<chain, go, sem>> /\ Plain'
  BY DEF ServerCtxEnds, vars, Inv, Plain, Ctxs
<1> QED
  BY <1>1, <1>2, FramesMove DEF Inv, AllFit

-----------------------------------------------------------------------------
(* The theorems *)

\* Nothing is called and no slot is taken at first.
LEMMA InitInv == Init => Inv
<1> SUFFICES ASSUME Init PROVE Inv
  OBVIOUS
<1>1. /\ Plain /\ sem = [p \in Positions |-> 0]
      /\ go = [g \in Goroutines |-> Idle]
  <2>1. MaxRequests[chain] \in Nat
    BY MiddlewareAssumption DEF Init
  <2>2. received \in 0..MaxRequests[chain]
    BY <2>1 DEF Init
  <2> QED
    BY <2>2 DEF Init, Plain, Ctxs
<1>2. AllFit
  <2>1. 0 \in 0..Handler /\ 0 \in 0..Len(chain)
    BY <1>1, ChainType DEF Plain
  <2>2. Idle \in Frames
    BY <2>1, MiddlewareAssumption DEF Idle, Frames, Results, Ctxs
  <2>3. None \notin Goroutines
    BY MiddlewareAssumption DEF Goroutines
  <2> QED
    BY <1>1, <2>2, <2>3 DEF AllFit, Fits, Placed, PanicContained, Idle
<1>3. SemRange
  <2>1. Limit \in Nat
    BY MiddlewareAssumption
  <2> QED
    BY <1>1, <2>1 DEF SemRange
<1>4. SlotsAccounted
  <2> SUFFICES ASSUME NEW p \in Positions
               PROVE  0 = Cardinality(Counted(p))
    BY <1>1 DEF SlotsAccounted, Counted
  <2>1. Counted(p) = {}
    BY <1>1 DEF Counted, Inside, Idle
  <2> QED
    BY <2>1, FS_EmptySet
<1> QED
  BY <1>1, <1>2, <1>3, <1>4 DEF Inv

\* Every step keeps the invariant.
LEMMA NextInv == Inv /\ [Next]_vars => Inv'
<1> SUFFICES ASSUME Inv, [Next]_vars PROVE Inv'
  OBVIOUS
<1> Receivers \subseteq Goroutines
  BY DEF Goroutines
<1>1. CASE \E r \in Receivers : Receive(r)
  BY <1>1, ReceiverKeeps
<1>2. ASSUME NEW g \in Goroutines, Step(g) PROVE Inv'
  BY <1>2, ReceiverKeeps, FilterKeeps, LimitKeeps, RetryKeeps, TimeoutKeeps,
     WorkerKeeps DEF Step
<1>3. ASSUME NEW g \in Goroutines, Handle(g) PROVE Inv'
  BY <1>3, ReceiverKeeps
<1>4. CASE \E w \in Workers : Expire(w)
  BY <1>4, WorkerKeeps
<1>5. CASE ServerCtxEnds \/ Rest \/ UNCHANGED vars
  BY <1>5, StillKeeps DEF Rest
<1> QED
  BY <1>1, <1>2, <1>3, <1>4, <1>5 DEF Next

\* The invariant holds of every reachable state.
LEMMA Invariant == Spec => []Inv
<1> QED
  BY InitInv, NextInv, PTL DEF Spec

\* MaxConcurrency: for every chain the slots taken of a semaphore are those of
\* the calls in progress, whatever way a call ends.
THEOREM SlotsAreAccounted == Spec => []SlotsAccounted
<1>1. Inv => SlotsAccounted
  BY DEF Inv
<1> QED
  BY <1>1, Invariant, PTL

\* The variables of Middleware keep their types, the semaphores their bounds.
THEOREM TypeCorrect == Spec => []TypeOK
<1>1. Inv => TypeOK
  <2> SUFFICES ASSUME Inv PROVE TypeOK
    OBVIOUS
  <2>1. ASSUME NEW p \in Positions PROVE sem[p] \in 0..Limit
    <3>1. sem[p] \in Int /\ sem[p] <= Limit /\ Limit \in Nat
      BY MiddlewareAssumption DEF Inv, SemRange
    <3>2. CASE chain[p] = "limit"
      <4>1. sem[p] = Cardinality(Counted(p)) /\ Cardinality(Counted(p)) \in Nat
        BY <3>2, Countable DEF Inv, SlotsAccounted, Counted
      <4> QED
        BY <3>1, <4>1
    <3>3. CASE chain[p] # "limit"
      BY <3>1, <3>3 DEF Inv, SemRange
    <3> QED
      BY <3>2, <3>3
  <2>2. sem \in [Positions -> 0..Limit]
    BY <2>1 DEF Inv, SemRange
  <2> QED
    BY <2>2 DEF Inv, Plain, AllFit, TypeOK
<1> QED
  BY <1>1, Invariant, PTL

\* A goroutine inside an innermost middleware p was not started inside it.
LEMMA StartedOutside ==
  ASSUME Inv, NEW g \in Goroutines, NEW p \in Positions,
         Innermost(p), chain[p] # "timeout"
  PROVE  go[g].base < p
<1>1. Positions = 1..Len(chain)
  BY ChainType DEF Inv, Plain
<1>2. go[g].base # 0 => go[g].base \in Positions /\ chain[go[g].base] = "timeout"
  BY <1>1, FrameType DEF Fits, Placed
<1> QED
  BY <1>1, <1>2, FrameType DEF Innermost

\* MaxConcurrency limits the requests in the service's handler when no Timeout
\* is inside it, for every chain, Limit and number of goroutines.
THEOREM LimitIsKept == Spec => []InnermostLimitHolds
<1>1. Inv => InnermostLimitHolds
  <2> SUFFICES ASSUME Inv, NEW p \in Positions, chain[p] = "limit", Innermost(p)
               PROVE  Cardinality(Running) <= Limit
    BY DEF InnermostLimitHolds
  <2>1. Running \subseteq Counted(p)
    <3> SUFFICES ASSUME NEW g \in Running PROVE g \in Counted(p)
      OBVIOUS
    <3>1. g \in Goroutines /\ go[g].pc = "call" /\ go[g].pos = Handler
      BY DEF Running
    <3>2. go[g].base < p /\ Handler > p
      BY <3>1, StartedOutside, ChainType DEF Inv, Plain
    <3> QED
      BY <3>1, <3>2 DEF Counted, Inside
  <2>2. IsFiniteSet(Counted(p)) /\ Cardinality(Counted(p)) \in Nat
    BY Countable DEF Counted
  <2>3. Cardinality(Running) <= Cardinality(Counted(p))
    BY <2>1, <2>2, FS_Subset
  <2>4. Cardinality(Running) \in Nat
    BY Countable DEF Running
  <2>5. Cardinality(Counted(p)) <= Limit
    BY DEF Inv, SlotsAccounted, SemRange, Counted
  <2>6. Limit \in Nat
    BY MiddlewareAssumption
  <2> QED
    BY <2>2, <2>3, <2>4, <2>5, <2>6
<1> QED
  BY <1>1, Invariant, PTL

\* The chain is put together once.
LEMMA ChainFixed == [Next]_vars => chain' = chain
BY DEF Next, Step, Rest, vars, Receive, Reply, Crash, Handle, RecoverCall,
       RecoverReturn, ValidateCall, ValidateReturn, ObserveCall,
       ObserveReturn, LimitCall, LimitReturn,
       TimeoutCall, TimeoutAnswered, TimeoutFires, Expire, Finish, RetryCall,
       RetryReturn, Backoff, ServerCtxEnds

\* Only a panic that reaches the top of a goroutine ends the process.
LEMMA OnlyCrashCrashes ==
  ASSUME [Next]_vars, \A g \in Goroutines : ~Crash(g)
  PROVE  crashed' = crashed
BY DEF Next, Step, Rest, vars, Receive, Reply, Handle, RecoverCall,
       RecoverReturn, ValidateCall, ValidateReturn, ObserveCall,
       ObserveReturn, LimitCall, LimitReturn,
       TimeoutCall, TimeoutAnswered, TimeoutFires, Expire, Finish, RetryCall,
       RetryReturn, Backoff, ServerCtxEnds

\* Recover keeps the process alive when the handler, every validator and every
\* observer is inside one with no Timeout in between, for every chain: wherever
\* a panic starts it is turned into an error before it can leave its goroutine.
THEOREM RecoverIsEnough == Spec => []GuardedPanicsCaught
<1>1. Init => GuardedPanicsCaught
  BY DEF Init, GuardedPanicsCaught
<1>2. Inv /\ GuardedPanicsCaught /\ [Next]_vars => GuardedPanicsCaught'
  <2> SUFFICES ASSUME Inv, GuardedPanicsCaught, [Next]_vars, AllGuarded'
               PROVE  ~crashed'
    BY DEF GuardedPanicsCaught, AllGuarded
  <2>1. chain' = chain
    BY ChainFixed
  <2>2. AllGuarded
    BY <2>1 DEF AllGuarded, Panicking, Guarded, Positions, Handler
  <2>3. ASSUME NEW g \in Goroutines PROVE ~Crash(g)
    <3>1. ~Ahead(go[g].base, go[g].base)
      BY ChainType, FrameType DEF Ahead, Inv, Plain
    <3>2. go[g].pc = "return" /\ go[g].result = "panic"
            => Ahead(go[g].base, go[g].pos)
      BY <2>2, FrameType DEF Fits, PanicContained
    <3> QED
      BY <3>1, <3>2 DEF Crash, Result
  <2> QED
    BY <2>2, <2>3, OnlyCrashCrashes DEF GuardedPanicsCaught, AllGuarded
<1> QED
  BY <1>1, <1>2, Invariant, PTL DEF Spec
=============================================================================
