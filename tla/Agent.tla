------------------------------- MODULE Agent -------------------------------
(***************************************************************************)
(* The connection lifecycle of one SDK agent: pkg/athyr/agent.go and the   *)
(* subscriptions of pkg/athyr/messaging.go.                                *)
(*                                                                         *)
(* Goroutines: user goroutines inside Connect, Close, subscribe,           *)
(* Unsubscribe or any other call (Callers), heartbeat loops (HbLoops) and  *)
(* reconnect loops (RcLoops).  A step is what one goroutine does between   *)
(* two points where another can run: one critical section of c.mu, one     *)
(* unlocked access, or one RPC.  An RPC is a single step that reads        *)
(* c.athyr where the code does and takes its outcome; what the goroutine   *)
(* does with the outcome is the next step, so everything can still happen  *)
(* between an RPC and the code that follows it.                            *)
(***************************************************************************)
EXTENDS Naturals, FiniteSets

CONSTANTS
  Callers,        \* user goroutines
  Menu,           \* Menu[c]: the methods goroutine c may call
  HbLoops,        \* slots for running heartbeat loops
  RcLoops,        \* slots for running reconnect loops
  Conns,          \* names of gRPC connections, reused once nothing holds them
  Subs,           \* Subscription values, each created by one subscribe call
  Key,            \* Key[s]: the subject and queue of subscription s
  AutoReconnect,  \* WithAutoReconnect was given
  MaxRetries,     \* its maxRetries; 0 means for ever
  MaxSessions,    \* bound: Connect is called when fewer sessions are alive
  StreamsFail,    \* the platform may refuse or drop a stream of an open conn
  None            \* nil

Methods == {"Connect", "Close", "Subscribe", "Unsubscribe", "Call"}

ASSUME ConstantsAssumption ==
  /\ Menu \in [Callers -> SUBSET Methods]
  /\ AutoReconnect \in BOOLEAN
  /\ StreamsFail \in BOOLEAN
  /\ MaxRetries \in Nat
  /\ MaxSessions \in Nat
  /\ IsFiniteSet(Callers) /\ IsFiniteSet(HbLoops) /\ IsFiniteSet(RcLoops)
  /\ Subs \subseteq DOMAIN Key
  /\ None \notin Conns \cup HbLoops \cup RcLoops

VARIABLES
  state,            \* c.state; c.connected is always state = "connected"
  conn,             \* c.conn and c.athyr, which are always assigned together
  agentID,          \* c.agentID, named by the connection it was granted on
  heartbeatCancel,  \* the loop whose context c.heartbeatCancel cancels
  reconnectStop,    \* the loop whose context c.reconnectStop cancels
  reconnectMu,      \* the heartbeat loop that holds c.reconnectMu
  subscriptions,    \* c.subscriptions
  caller, hb, rc,   \* what each goroutine is doing, with its locals
  open,             \* connections the client has not closed
  streams,          \* <<s, k>>: s has a live stream on connection k
  handle,           \* what the user has done with each subscription
  panicked          \* a goroutine has dereferenced a nil client

agentVars == <<state, conn, agentID, heartbeatCancel, reconnectStop,
               reconnectMu, subscriptions>>
netVars   == <<open, streams>>
shared == <<agentVars, netVars, handle, panicked>>  \* all but the goroutines
vars == <<shared, caller, hb, rc>>

States == {"disconnected", "connecting", "connected", "reconnecting"}

ConnectPcs == {"connecting", "dial", "register", "registerFailed",
               "connectFailed", "registered", "announce", "startHeartbeat"}
ClosePcs == {"disconnect", "closeState", "closeConn"}
CallerPcs == ConnectPcs \cup ClosePcs
             \cup {"idle", "subscribe", "track", "call"}
HbPcs == {"idle", "select", "trigger", "triggered", "spawn"}
RcPcs == {"idle", "top", "giveUp", "dropConn", "dial", "register",
          "registerFailed", "forgetConn", "registered", "resubscribe",
          "resubscribeCall", "resubscribeTrack", "restored", "startHeartbeat"}

\* The locals of each goroutine.
CallerRecs == [pc : CallerPcs, conn : Conns \cup {None},
               id : Conns \cup {None}, sub : Subs \cup {None}]
HbRecs == [pc : HbPcs, done : BOOLEAN]
RcRecs == [pc : RcPcs, done : BOOLEAN, attempt : Nat,
           id : Conns \cup {None}, todo : SUBSET Subs, sub : Subs \cup {None}]

Connected == state = "connected"

\* Connections something still refers to: a name is reused once it is closed
\* and out of reach, so that the model needs only as many as coexist.
InUse == {conn, agentID} \cup open
         \cup {caller[c].conn : c \in Callers}
         \cup {caller[c].id : c \in Callers}
         \cup {rc[r].id : r \in RcLoops}
FreshConns == Conns \ InUse

\* grpc.NewClient: a new connection and its client replace the agent's.
Dialled ==
  /\ \E k \in FreshConns : conn' = k /\ open' = open \cup {k}
  /\ UNCHANGED <<state, agentID, heartbeatCancel, reconnectStop, reconnectMu,
                 subscriptions, streams, handle, panicked>>

\* conn.Close(): every stream of the connection ends with it.
CloseConn(k) ==
  /\ open' = open \ {k}
  /\ streams' = {t \in streams : t[2] # k}

GoCaller(c, pc) == caller' = [caller EXCEPT ![c].pc = pc]
GoHb(h, pc) == hb' = [hb EXCEPT ![h].pc = pc]
GoRc(r, pc) == rc' = [rc EXCEPT ![r].pc = pc]

SetState(s) ==
  /\ state' = s
  /\ UNCHANGED <<conn, agentID, heartbeatCancel, reconnectStop, reconnectMu,
                 subscriptions, netVars, handle, panicked>>

\* Where a goroutine is; after a panic no goroutine is anywhere.
At(c, pc) == ~panicked /\ caller[c].pc = pc
HbAt(h, pc) == ~panicked /\ hb[h].pc = pc
RcAt(r, pc) == ~panicked /\ rc[r].pc = pc

CanCall(c, m) == At(c, "idle") /\ m \in Menu[c]

\* A session is a running Connect call, or the loop it has led to by now.
ConnectingCallers == {c \in Callers : caller[c].pc \in ConnectPcs}
LiveHb == {h \in HbLoops : hb[h].pc # "idle"}
LiveRc == {r \in RcLoops : rc[r].pc # "idle"}
Sessions == Cardinality(ConnectingCallers) + Cardinality(LiveHb)
            + Cardinality(LiveRc)

\* A method call on a nil c.athyr or c.conn: the process dies.
NilClient ==
  /\ conn = None
  /\ panicked' = TRUE
  /\ UNCHANGED <<agentVars, caller, hb, rc, netVars, handle>>

Init ==
  /\ state = "disconnected"
  /\ conn = None /\ agentID = None
  /\ heartbeatCancel = None /\ reconnectStop = None /\ reconnectMu = None
  /\ subscriptions = {}
  /\ caller = [c \in Callers |->
                [pc |-> "idle", conn |-> None, id |-> None, sub |-> None]]
  /\ hb = [h \in HbLoops |-> [pc |-> "idle", done |-> FALSE]]
  /\ rc = [r \in RcLoops |->
            [pc |-> "idle", done |-> FALSE, attempt |-> 0, id |-> None,
             todo |-> {}, sub |-> None]]
  /\ open = {} /\ streams = {}
  /\ handle = [s \in Subs |-> "none"]
  /\ panicked = FALSE

-----------------------------------------------------------------------------
(* Connect *)

\* The agent is not connected: Connect goes on.  (When it is, Connect returns
\* ErrAlreadyConnected and nothing changes.)
ConnectCheck(c) ==
  /\ CanCall(c, "Connect")
  /\ ~Connected
  /\ Sessions < MaxSessions
  /\ GoCaller(c, "connecting")
  /\ UNCHANGED <<shared, hb, rc>>

ConnectAnnounce(c) ==
  /\ At(c, "connecting")
  /\ SetState("connecting")
  /\ GoCaller(c, "dial")
  /\ UNCHANGED <<hb, rc>>

\* Credentials and grpc.NewClient: either fails, or the new connection and
\* its client replace the agent's.
ConnectDialFails(c) ==
  /\ At(c, "dial")
  /\ GoCaller(c, "connectFailed")
  /\ UNCHANGED <<shared, hb, rc>>

ConnectDial(c) ==
  /\ At(c, "dial")
  /\ Dialled
  /\ GoCaller(c, "register")
  /\ UNCHANGED <<hb, rc>>

\* The Connect RPC, through whatever c.athyr is now (read without the lock).
ConnectRegister(c) ==
  /\ At(c, "register")
  /\ \/ NilClient
     \/ /\ conn \in open
        /\ caller' = [caller EXCEPT ![c].pc = "registered", ![c].id = conn]
        /\ UNCHANGED <<shared, hb, rc>>
     \/ /\ conn # None
        /\ GoCaller(c, "registerFailed")
        /\ UNCHANGED <<shared, hb, rc>>

\* Faulty variant: the connection is not closed when Connect fails.
ConnectRegisterFailedLeak(c) ==
  /\ At(c, "registerFailed")
  /\ GoCaller(c, "connectFailed")
  /\ UNCHANGED <<shared, hb, rc>>

\* c.conn.Close() on whatever c.conn is now (read without the lock).
ConnectRegisterFailed(c) ==
  /\ At(c, "registerFailed")
  /\ \/ NilClient
     \/ /\ conn # None
        /\ CloseConn(conn)
        /\ GoCaller(c, "connectFailed")
        /\ UNCHANGED <<agentVars, hb, rc, handle, panicked>>

ConnectFail(c) ==
  /\ At(c, "connectFailed")
  /\ SetState("disconnected")
  /\ GoCaller(c, "idle")
  /\ UNCHANGED <<hb, rc>>

\* Faulty variant: the id is forgotten between the RPC and the assignment.
ConnectSetIDForgotten(c) ==
  /\ At(c, "registered")
  /\ caller' = [caller EXCEPT ![c].pc = "announce", ![c].id = None]
  /\ UNCHANGED <<shared, hb, rc>>

ConnectSetID(c) ==
  /\ At(c, "registered")
  /\ agentID' = caller[c].id
  /\ caller' = [caller EXCEPT ![c].pc = "announce", ![c].id = None]
  /\ UNCHANGED <<state, conn, heartbeatCancel, reconnectStop, reconnectMu,
                 subscriptions, hb, rc, netVars, handle, panicked>>

ConnectSetConnected(c) ==
  /\ At(c, "announce")
  /\ SetState("connected")
  /\ GoCaller(c, "startHeartbeat")
  /\ UNCHANGED <<hb, rc>>

\* heartbeatCancel is replaced and the loop started; Connect returns.
StartLoop(h) ==
  /\ hb[h].pc = "idle"
  /\ heartbeatCancel' = h
  /\ hb' = [hb EXCEPT ![h] = [pc |-> "select", done |-> FALSE]]

ConnectStartHeartbeat(c) ==
  /\ At(c, "startHeartbeat")
  /\ \E h \in HbLoops : StartLoop(h)
  /\ GoCaller(c, "idle")
  /\ UNCHANGED <<state, conn, agentID, reconnectStop, reconnectMu,
                 subscriptions, rc, netVars, handle, panicked>>

-----------------------------------------------------------------------------
(* Close *)

StopReconnect ==
  /\ rc' = [r \in RcLoops |->
             IF r = reconnectStop THEN [rc[r] EXCEPT !.done = TRUE] ELSE rc[r]]
  /\ reconnectStop' = None

\* Close's critical section.  Either there is nothing to close and it
\* returns, or it cancels the heartbeat, clears the tracking and keeps the
\* connection for the steps below.
CloseNothing(c) ==
  /\ CanCall(c, "Close")
  /\ state \notin {"connected", "reconnecting"}
  /\ StopReconnect
  /\ UNCHANGED <<state, conn, agentID, heartbeatCancel, reconnectMu,
                 subscriptions, caller, hb, netVars, handle, panicked>>

\* Faulty variant: the heartbeat loop is not cancelled.
CloseBeginBeating(c) ==
  /\ CanCall(c, "Close")
  /\ state \in {"connected", "reconnecting"}
  /\ StopReconnect
  /\ subscriptions' = {}
  /\ caller' = [caller EXCEPT ![c].pc = "disconnect", ![c].conn = conn]
  /\ UNCHANGED <<state, conn, agentID, heartbeatCancel, reconnectMu, hb,
                 netVars, handle, panicked>>

CloseBegin(c) ==
  /\ CanCall(c, "Close")
  /\ state \in {"connected", "reconnecting"}
  /\ StopReconnect
  /\ hb' = [h \in HbLoops |->
             IF h = heartbeatCancel THEN [hb[h] EXCEPT !.done = TRUE]
                                    ELSE hb[h]]
  /\ subscriptions' = {}
  /\ caller' = [caller EXCEPT ![c].pc = "disconnect", ![c].conn = conn]
  /\ UNCHANGED <<state, conn, agentID, heartbeatCancel, reconnectMu,
                 netVars, handle, panicked>>

\* The Disconnect RPC; its outcome is ignored.
CloseDisconnect(c) ==
  /\ At(c, "disconnect")
  /\ GoCaller(c, "closeState")
  /\ UNCHANGED <<shared, hb, rc>>

CloseSetState(c) ==
  /\ At(c, "closeState")
  /\ SetState("disconnected")
  /\ GoCaller(c, "closeConn")
  /\ UNCHANGED <<hb, rc>>

\* conn.Close() on the connection kept by CloseBegin; c.conn keeps its value.
CloseEnd(c) ==
  /\ At(c, "closeConn")
  /\ CloseConn(caller[c].conn)
  /\ caller' = [caller EXCEPT ![c].pc = "idle", ![c].conn = None]
  /\ UNCHANGED <<agentVars, hb, rc, handle, panicked>>

-----------------------------------------------------------------------------
(* subscribe, Unsubscribe and the other calls *)

SubscribeCheck(c, s) ==
  /\ CanCall(c, "Subscribe")
  /\ handle[s] = "none"
  /\ Connected
  /\ handle' = [handle EXCEPT ![s] = "pending"]
  /\ caller' = [caller EXCEPT ![c].pc = "subscribe", ![c].sub = s]
  /\ UNCHANGED <<agentVars, hb, rc, netVars, panicked>>

\* The Subscribe RPC opens a stream, through whatever c.athyr is now.
OpenStream(s) ==
  /\ conn \in open
  /\ streams' = streams \cup {<<s, conn>>}

\* Faulty variant: the record is dropped before it is tracked.
SubscribeCallDropped(c) ==
  /\ At(c, "subscribe")
  /\ OpenStream(caller[c].sub)
  /\ caller' = [caller EXCEPT ![c].pc = "track", ![c].sub = None]
  /\ UNCHANGED <<agentVars, hb, rc, open, handle, panicked>>

SubscribeCall(c) ==
  /\ At(c, "subscribe")
  /\ \/ NilClient
     \/ /\ OpenStream(caller[c].sub)
        /\ GoCaller(c, "track")
        /\ UNCHANGED <<agentVars, hb, rc, open, handle, panicked>>
     \/ /\ conn # None
        /\ conn \in open => StreamsFail
        /\ handle' = [handle EXCEPT ![caller[c].sub] = "none"]
        /\ caller' = [caller EXCEPT ![c].pc = "idle", ![c].sub = None]
        /\ UNCHANGED <<agentVars, hb, rc, netVars, panicked>>

\* A record is added unless one has the same subject and queue.
Track(s) ==
  subscriptions' = IF \E t \in subscriptions : Key[t] = Key[s]
                   THEN subscriptions ELSE subscriptions \cup {s}

\* The first record with the same subject and queue is removed.
Untrack(s) ==
  subscriptions' = {t \in subscriptions : Key[t] # Key[s]}

SubscribeTrack(c) ==
  /\ At(c, "track")
  /\ Track(caller[c].sub)
  /\ handle' = [handle EXCEPT ![caller[c].sub] = "active"]
  /\ caller' = [caller EXCEPT ![c].pc = "idle", ![c].sub = None]
  /\ UNCHANGED <<state, conn, agentID, heartbeatCancel, reconnectStop,
                 reconnectMu, hb, rc, netVars, panicked>>

\* s.cancel() is stream.CloseSend(), which the generated client has already
\* called when it opened the stream: it does not end the stream.
Unsubscribe(c, s) ==
  /\ CanCall(c, "Unsubscribe")
  /\ handle[s] = "active"
  /\ handle' = [handle EXCEPT ![s] = "unsubscribed"]
  /\ Untrack(s)
  /\ UNCHANGED <<state, conn, agentID, heartbeatCancel, reconnectStop,
                 reconnectMu, caller, hb, rc, netVars, panicked>>

\* Every other method: checkConnected, then an RPC through whatever c.athyr
\* is now.  Its outcome does not change the agent.
CallCheck(c) ==
  /\ CanCall(c, "Call")
  /\ Connected
  /\ GoCaller(c, "call")
  /\ UNCHANGED <<shared, hb, rc>>

CallRpc(c) ==
  /\ At(c, "call")
  /\ \/ NilClient
     \/ /\ conn # None
        /\ GoCaller(c, "idle")
        /\ UNCHANGED <<shared, hb, rc>>

-----------------------------------------------------------------------------
(* heartbeatLoop and triggerReconnect *)

HbExit(h) ==
  /\ HbAt(h, "select")
  /\ hb[h].done
  /\ GoHb(h, "idle")
  /\ UNCHANGED <<shared, caller, rc>>

\* A tick (select may choose it even when the context is done) and its RPC.
HbOk(h) ==
  /\ HbAt(h, "select")
  /\ ~hb[h].done
  /\ conn \in open
  /\ UNCHANGED vars

HbNil(h) ==
  /\ HbAt(h, "select")
  /\ NilClient

HbErr(h) ==
  /\ HbAt(h, "select")
  /\ conn # None
  /\ GoHb(h, IF AutoReconnect THEN "trigger" ELSE "select")
  /\ UNCHANGED <<shared, caller, rc>>

\* Faulty variant: the state is tested without taking reconnectMu first.
TriggerCheckUnlocked(h) ==
  /\ HbAt(h, "trigger")
  /\ IF state = "reconnecting"
     THEN GoHb(h, "idle") /\ UNCHANGED reconnectMu
     ELSE GoHb(h, "triggered") /\ reconnectMu' = h
  /\ UNCHANGED <<state, conn, agentID, heartbeatCancel, reconnectStop,
                 subscriptions, caller, rc, netVars, handle, panicked>>

\* reconnectMu is taken and the state read: nothing to do when somebody is
\* reconnecting already.
TriggerCheck(h) ==
  /\ HbAt(h, "trigger")
  /\ reconnectMu = None
  /\ IF state = "reconnecting"
     THEN GoHb(h, "idle") /\ UNCHANGED reconnectMu
     ELSE GoHb(h, "triggered") /\ reconnectMu' = h
  /\ UNCHANGED <<state, conn, agentID, heartbeatCancel, reconnectStop,
                 subscriptions, caller, rc, netVars, handle, panicked>>

\* Faulty variant: the reconnect loop starts with the agent still connected.
TriggerSetStateSkipped(h) ==
  /\ HbAt(h, "triggered")
  /\ GoHb(h, "spawn")
  /\ UNCHANGED <<shared, caller, rc>>

TriggerSetState(h) ==
  /\ HbAt(h, "triggered")
  /\ SetState("reconnecting")
  /\ GoHb(h, "spawn")
  /\ UNCHANGED <<caller, rc>>

\* Faulty variant: the heartbeat loop goes on after triggering.
TriggerSpawnAndBeat(h) ==
  /\ HbAt(h, "spawn")
  /\ \E r \in RcLoops :
       /\ rc[r].pc = "idle"
       /\ reconnectStop' = r
       /\ rc' = [rc EXCEPT ![r].pc = "top"]
  /\ GoHb(h, "select")
  /\ reconnectMu' = None
  /\ UNCHANGED <<state, conn, agentID, heartbeatCancel, subscriptions,
                 caller, netVars, handle, panicked>>

\* The reconnect context is stored and its loop started; the heartbeat loop
\* returns and reconnectMu is released.
TriggerSpawn(h) ==
  /\ HbAt(h, "spawn")
  /\ \E r \in RcLoops :
       /\ rc[r].pc = "idle"
       /\ reconnectStop' = r
       /\ rc' = [rc EXCEPT ![r] = [pc |-> "top", done |-> FALSE,
                                   attempt |-> 0, id |-> None, todo |-> {},
                                   sub |-> None]]
  /\ GoHb(h, "idle")
  /\ reconnectMu' = None
  /\ UNCHANGED <<state, conn, agentID, heartbeatCancel, subscriptions,
                 caller, netVars, handle, panicked>>

-----------------------------------------------------------------------------
(* reconnectLoop and doReconnect *)

Exhausted(r) == MaxRetries > 0 /\ rc[r].attempt >= MaxRetries

RcCancelled(r) ==
  /\ RcAt(r, "top")
  /\ rc[r].done
  /\ GoRc(r, "idle")
  /\ UNCHANGED <<shared, caller, hb>>

\* Faulty variant: the loop gives up without setting the state.
RcExhaustedSilently(r) ==
  /\ RcAt(r, "top")
  /\ ~rc[r].done
  /\ Exhausted(r)
  /\ GoRc(r, "idle")
  /\ UNCHANGED <<shared, caller, hb>>

RcExhausted(r) ==
  /\ RcAt(r, "top")
  /\ ~rc[r].done
  /\ Exhausted(r)
  /\ GoRc(r, "giveUp")
  /\ UNCHANGED <<shared, caller, hb>>

RcGiveUp(r) ==
  /\ RcAt(r, "giveUp")
  /\ SetState("disconnected")
  /\ GoRc(r, "idle")
  /\ UNCHANGED <<caller, hb>>

\* The backoff is over.  A cancellation during the backoff may lose to the
\* timer in the second select, so the loop goes on with its context done.
RcAttempt(r) ==
  /\ RcAt(r, "top")
  /\ ~rc[r].done
  /\ ~Exhausted(r)
  /\ GoRc(r, "dropConn")
  /\ UNCHANGED <<shared, caller, hb>>

\* Faulty variant: the attempts are not counted.
RetryUncounted(r) == GoRc(r, "top")

\* A failed attempt: back to the top, one attempt later.
Retry(r) ==
  rc' = [rc EXCEPT ![r].pc = "top",
                   ![r].attempt = IF MaxRetries = 0 THEN 0 ELSE @ + 1]

\* Faulty variant: the old connection is forgotten and not closed.
RcDropConnLeak(r) ==
  /\ RcAt(r, "dropConn")
  /\ conn' = None
  /\ GoRc(r, "dial")
  /\ UNCHANGED <<state, agentID, heartbeatCancel, reconnectStop, reconnectMu,
                 subscriptions, netVars, caller, hb, handle, panicked>>

RcDropConn(r) ==
  /\ RcAt(r, "dropConn")
  /\ CloseConn(conn)
  /\ conn' = None
  /\ GoRc(r, "dial")
  /\ UNCHANGED <<state, agentID, heartbeatCancel, reconnectStop, reconnectMu,
                 subscriptions, caller, hb, handle, panicked>>

\* Faulty variants: the loop goes on without a connection, or returns.
RcDialFailsUnnoticed(r) ==
  /\ RcAt(r, "dial")
  /\ GoRc(r, "register")
  /\ UNCHANGED <<shared, caller, hb>>

RcDialFailsForGood(r) ==
  /\ RcAt(r, "dial")
  /\ GoRc(r, "idle")
  /\ UNCHANGED <<shared, caller, hb>>

RcDialFails(r) ==
  /\ RcAt(r, "dial")
  /\ Retry(r)
  /\ UNCHANGED <<shared, caller, hb>>

RcDial(r) ==
  /\ RcAt(r, "dial")
  /\ Dialled
  /\ GoRc(r, "register")
  /\ UNCHANGED <<caller, hb>>

\* The Connect RPC under the reconnect context, through whatever c.athyr is.
RcRegisterOk(r) ==
  /\ RcAt(r, "register")
  /\ conn \in open
  /\ ~rc[r].done
  /\ rc' = [rc EXCEPT ![r].pc = "registered", ![r].id = conn]
  /\ UNCHANGED <<shared, caller, hb>>

RcRegisterFails(r) ==
  /\ RcAt(r, "register")
  /\ \/ NilClient
     \/ /\ conn # None
        /\ GoRc(r, "registerFailed")
        /\ UNCHANGED <<shared, caller, hb>>

\* c.conn.Close() without the lock, then c.conn and c.athyr set to nil.
RcCloseConn(r) ==
  /\ RcAt(r, "registerFailed")
  /\ \/ NilClient
     \/ /\ conn # None
        /\ CloseConn(conn)
        /\ GoRc(r, "forgetConn")
        /\ UNCHANGED <<agentVars, caller, hb, handle, panicked>>

RcForgetConn(r) ==
  /\ RcAt(r, "forgetConn")
  /\ conn' = None
  /\ Retry(r)
  /\ UNCHANGED <<state, agentID, heartbeatCancel, reconnectStop, reconnectMu,
                 subscriptions, caller, hb, netVars, handle, panicked>>

\* Faulty variant: the id of the lost session is kept.
RcSetIDStale(r) ==
  /\ RcAt(r, "registered")
  /\ rc' = [rc EXCEPT ![r].pc = "resubscribe", ![r].id = None,
                      ![r].todo = subscriptions]
  /\ UNCHANGED <<shared, caller, hb>>

\* The new id is stored and the records are copied.
RcSetID(r) ==
  /\ RcAt(r, "registered")
  /\ agentID' = rc[r].id
  /\ rc' = [rc EXCEPT ![r].pc = "resubscribe", ![r].id = None,
                      ![r].todo = subscriptions]
  /\ UNCHANGED <<state, conn, heartbeatCancel, reconnectStop, reconnectMu,
                 subscriptions, caller, hb, netVars, handle, panicked>>

\* Faulty variant: resubscribeAll does not check that the agent is connected,
\* so a record unsubscribed meanwhile is tracked again.
RcResubscribeUnchecked(r) ==
  /\ RcAt(r, "resubscribe")
  /\ \E s \in rc[r].todo :
       rc' = [rc EXCEPT ![r].todo = @ \ {s}, ![r].pc = "resubscribeCall",
                        ![r].sub = s]
  /\ UNCHANGED <<shared, caller, hb>>

\* resubscribeAll: subscribe for each copied record.  checkConnected refuses
\* unless somebody has made the agent connected meanwhile.
RcResubscribe(r) ==
  /\ RcAt(r, "resubscribe")
  /\ \E s \in rc[r].todo :
       rc' = [rc EXCEPT ![r].todo = @ \ {s},
                        ![r].pc = IF Connected THEN "resubscribeCall" ELSE @,
                        ![r].sub = IF Connected THEN s ELSE @]
  /\ UNCHANGED <<shared, caller, hb>>

RcResubscribeCall(r) ==
  /\ RcAt(r, "resubscribeCall")
  /\ \/ NilClient
     \/ /\ OpenStream(rc[r].sub)
        /\ GoRc(r, "resubscribeTrack")
        /\ UNCHANGED <<agentVars, caller, hb, open, handle, panicked>>
     \/ /\ conn # None
        /\ conn \in open => StreamsFail
        /\ rc' = [rc EXCEPT ![r].pc = "resubscribe", ![r].sub = None]
        /\ UNCHANGED <<shared, caller, hb>>

RcResubscribeTrack(r) ==
  /\ RcAt(r, "resubscribeTrack")
  /\ Track(rc[r].sub)
  /\ rc' = [rc EXCEPT ![r].pc = "resubscribe", ![r].sub = None]
  /\ UNCHANGED <<state, conn, agentID, heartbeatCancel, reconnectStop,
                 reconnectMu, caller, hb, netVars, handle, panicked>>

RcResubscribed(r) ==
  /\ RcAt(r, "resubscribe")
  /\ rc[r].todo = {}
  /\ GoRc(r, "restored")
  /\ UNCHANGED <<shared, caller, hb>>

RcSetConnected(r) ==
  /\ RcAt(r, "restored")
  /\ SetState("connected")
  /\ GoRc(r, "startHeartbeat")
  /\ UNCHANGED <<caller, hb>>

RcStartHeartbeat(r) ==
  /\ RcAt(r, "startHeartbeat")
  /\ \E h \in HbLoops : StartLoop(h)
  /\ reconnectStop' = None
  /\ GoRc(r, "idle")
  /\ UNCHANGED <<state, conn, agentID, reconnectMu, subscriptions, caller,
                 netVars, handle, panicked>>

-----------------------------------------------------------------------------
(* The platform and the network *)

\* The platform ends a stream, or the context given to subscribe is done: the
\* receive loop returns.
StreamLost ==
  /\ ~panicked
  /\ StreamsFail
  /\ \E t \in streams : streams' = streams \ {t}
  /\ UNCHANGED <<agentVars, caller, hb, rc, open, handle, panicked>>

\* Nothing is running, or the process is gone.
Quiet ==
  /\ \A c \in Callers : caller[c].pc = "idle"
  /\ LiveHb = {} /\ LiveRc = {}

Rest ==
  /\ \/ panicked
     \/ Quiet
  /\ UNCHANGED vars

\* What a goroutine in the middle of a method does next.
CallerStep(c) ==
  \/ ConnectAnnounce(c) \/ ConnectDialFails(c) \/ ConnectDial(c)
  \/ ConnectRegister(c) \/ ConnectRegisterFailed(c) \/ ConnectFail(c)
  \/ ConnectSetID(c) \/ ConnectSetConnected(c) \/ ConnectStartHeartbeat(c)
  \/ CloseDisconnect(c) \/ CloseSetState(c) \/ CloseEnd(c)
  \/ SubscribeCall(c) \/ SubscribeTrack(c) \/ CallRpc(c)

CallerStart(c) ==
  \/ ConnectCheck(c) \/ CloseNothing(c) \/ CloseBegin(c) \/ CallCheck(c)
  \/ \E s \in Subs : SubscribeCheck(c, s) \/ Unsubscribe(c, s)

HbStep(h) ==
  \/ HbExit(h) \/ TriggerCheck(h) \/ TriggerSetState(h) \/ TriggerSpawn(h)

HbTick(h) == HbOk(h) \/ HbNil(h) \/ HbErr(h)

RcStep(r) ==
  \/ RcCancelled(r) \/ RcExhausted(r) \/ RcGiveUp(r) \/ RcAttempt(r) \/ RcDropConn(r)
  \/ RcDialFails(r) \/ RcDial(r) \/ RcRegisterOk(r) \/ RcRegisterFails(r)
  \/ RcCloseConn(r) \/ RcForgetConn(r) \/ RcSetID(r) \/ RcResubscribe(r)
  \/ RcResubscribeCall(r) \/ RcResubscribeTrack(r) \/ RcResubscribed(r)
  \/ RcSetConnected(r) \/ RcStartHeartbeat(r)

Next ==
  \/ \E c \in Callers : CallerStart(c) \/ CallerStep(c)
  \/ \E h \in HbLoops : HbStep(h) \/ HbTick(h)
  \/ \E r \in RcLoops : RcStep(r)
  \/ StreamLost
  \/ Rest

Spec == Init /\ [][Next]_vars


\* Goroutines that are runnable run; a heartbeat ticks only as the platform
\* lets it, so nothing is assumed of HbTick.
Fairness ==
  /\ \A c \in Callers : WF_vars(CallerStep(c))
  /\ \A h \in HbLoops : WF_vars(HbStep(h))
  /\ \A r \in RcLoops : WF_vars(RcStep(r))

FairSpec == Spec /\ Fairness

\* Fairness of the platform too: attempts to dial and to register that go on
\* for ever do not fail for ever.
PersistentSpec ==
  /\ FairSpec
  /\ \A r \in RcLoops : SF_vars(RcDial(r)) /\ SF_vars(RcRegisterOk(r))

-----------------------------------------------------------------------------
(* Properties *)

TypeOK ==
  /\ state \in States
  /\ conn \in Conns \cup {None}
  /\ agentID \in Conns \cup {None}
  /\ heartbeatCancel \in HbLoops \cup {None}
  /\ reconnectStop \in RcLoops \cup {None}
  /\ reconnectMu \in HbLoops \cup {None}
  /\ subscriptions \in SUBSET Subs
  /\ caller \in [Callers -> CallerRecs]
  /\ hb \in [HbLoops -> HbRecs]
  /\ rc \in [RcLoops -> RcRecs]
  /\ open \in SUBSET Conns
  /\ streams \in SUBSET (Subs \X Conns)
  /\ handle \in [Subs -> {"none", "pending", "active", "unsubscribed"}]
  /\ panicked \in BOOLEAN

\* A Connect call becomes one heartbeat loop, that loop becomes at most one
\* reconnect loop and that one at most one heartbeat loop: whatever fails and
\* whoever closes, loops never multiply.
BoundedSessions == Sessions <= MaxSessions

\* reconnectMu: one goroutine at a time is between the test of the state and
\* the start of the reconnect loop, so they start one loop per connection loss.
TriggerExclusive ==
  \A h \in HbLoops : hb[h].pc \in {"triggered", "spawn"} => reconnectMu = h

\* The loop that Close cancels is the loop that runs: no other heartbeat loop
\* goes on unless it has been cancelled already.
HeartbeatOwned ==
  \A h \in LiveHb : ~hb[h].done => heartbeatCancel = h

\* While nobody calls Connect during a session, the goroutines that use c.conn
\* or c.athyr without the lock (Connect, doReconnect, heartbeatLoop) find it.
DriverHasClient ==
  /\ \A c \in Callers :
       caller[c].pc \in {"register", "registerFailed"} => conn # None
  /\ \A h \in LiveHb : conn # None
  /\ \A r \in RcLoops :
       rc[r].pc \in {"register", "registerFailed"} => conn # None

\* A connected agent's id was granted on the connection its calls go through.
ConnectedAsRegistered == Connected => conn # None /\ agentID = conn

\* Every connection still open is the agent's or is about to be closed by a
\* Close in progress.
NoOrphanConnection ==
  open \subseteq {conn} \cup {caller[c].conn : c \in Callers}

\* When everything has returned and the agent says it is disconnected, it has
\* no connection left open.
DisconnectedIsClosed == Quiet /\ state = "disconnected" => open = {}

\* An agent that says it is connecting, connected or reconnecting has a
\* goroutine working on it, or one that is closing it: it cannot be stuck.
StateHasOwner ==
  state # "disconnected" =>
    Sessions > 0 \/ \E c \in Callers : caller[c].pc \in ClosePcs

\* What the application holds as a subscription is in the list that
\* doReconnect will restore, and what it has unsubscribed is not.
TrackedForRecovery ==
  \A s \in Subs :
    /\ handle[s] = "active" => s \in subscriptions
    /\ handle[s] = "unsubscribed" => s \notin subscriptions

\* Unsubscribe ends the delivery of messages.
UnsubscribedIsSilent ==
  \A s \in Subs : handle[s] = "unsubscribed" =>
                    \A k \in Conns : <<s, k>> \notin streams

\* "Re-subscribe to all tracked subscriptions" (agent.go 442): resubscribeAll
\* is done with a record it has copied only when the subscription has a stream
\* on the new connection (StreamsFail is FALSE).  (Expected to be violated.)
ToRestore(r) == rc[r].todo \cup ({rc[r].sub} \ {None})
SubscriptionsRestored ==
  [][\A r \in RcLoops : \A s \in ToRestore(r) :
       s \notin ToRestore(r)' => <<s, conn>> \in streams']_vars

\* "Cancel any in-progress reconnection" (agent.go 181): a reconnection that
\* Close has cancelled does not make the closed agent connected.  (Expected to
\* be violated.)
CancelledReconnectionEnds ==
  [][\A r \in RcLoops :
       rc[r].done /\ rc'[r] # rc[r] /\ state = "disconnected"
         => ~Connected']_vars

\* "Stop heartbeat" (agent.go 192): Close is final, only Connect leaves the
\* disconnected state.  (Expected to be violated, by a heartbeat that has been
\* cancelled as well.)
ClosedStaysClosed ==
  [][state = "disconnected" => state' \in {"disconnected", "connecting"}]_vars

\* "Prevents concurrent reconnection attempts".
OneReconnectLoop == Cardinality(LiveRc) <= 1

\* A method that has passed checkConnected does not find a nil client.
CallsFindClient == ~panicked

\* A reconnection with a bound on its attempts ends: the agent is connected
\* again or gives up, whatever the platform does and whoever closes it (unless
\* a call on a nil client ends the process first, see CallsFindClient).
ReconnectSettles ==
  state = "reconnecting" ~> state # "reconnecting" \/ panicked

\* One without a bound makes the agent connected again once attempts can
\* succeed (with the same exception).
ReconnectSucceeds == state = "reconnecting" ~> Connected \/ panicked

\* After Close the agent comes to rest: its loops end.
ClosedComesToRest ==
  (state = "disconnected" /\ \A c \in Callers : caller[c].pc = "idle")
    ~> Quiet \/ state # "disconnected"

\* The abstract lifecycle: a connected agent's registration is its id, and an
\* agent whose process is gone is disconnected.
Lifecycle == INSTANCE ConnectionLifecycle
             WITH Ids <- Conns,
                  phase <- IF panicked THEN "disconnected" ELSE state,
                  registration <- IF Connected /\ ~panicked THEN agentID
                                                            ELSE None

\* The agent goes through the phases of the documented diagram, and no call
\* of a connected agent goes out under another registration.
ImplementsLifecycle == Lifecycle!Spec

\* It also leaves the two transient phases.
ImplementsFairLifecycle == Lifecycle!FairSpec

=============================================================================
