------------------------ MODULE AgentLifecycleProofs ------------------------
(***************************************************************************)
(* Agent implements ConnectionLifecycle, for all values of its constants,  *)
(* in two uses of it: one session at a time that nobody closes, with       *)
(* automatic reconnection or without; and one goroutine that connects and  *)
(* closes as often as it likes, without automatic reconnection.            *)
(***************************************************************************)
EXTENDS AgentProofs

-----------------------------------------------------------------------------
(* Steps of the abstract lifecycle *)

\* A step of Agent that is a step of the abstract lifecycle, or none of it.
PhaseStep ==
  \/ state' = state /\ (Connected => agentID' = agentID)
  \/ state = "disconnected" /\ state' = "connecting"
  \/ /\ state \in {"connecting", "reconnecting"} /\ state' = "connected"
     /\ agentID' \in Conns
  \/ state = "connected" /\ state' = "reconnecting"
  \/ state' = "disconnected"

\* A process that has panicked does nothing any more.
LEMMA PanicIsFinal == [Next]_vars /\ panicked => panicked'
<1> SUFFICES ASSUME [Next]_vars, panicked PROVE panicked'
  OBVIOUS
<1> USE DEF At, HbAt, RcAt, CanCall
<1>1. ASSUME NEW c \in Callers PROVE ~CallerStart(c)
  BY DEF CallerStart, ConnectCheck, CloseNothing, CloseBegin, CallCheck,
         SubscribeCheck, Unsubscribe
<1>2. ASSUME NEW c \in Callers PROVE ~CallerStep(c)
  BY DEF CallerStep, ConnectAnnounce, ConnectDialFails, ConnectDial,
         ConnectRegister, ConnectRegisterFailed, ConnectFail, ConnectSetID,
         ConnectSetConnected, ConnectStartHeartbeat, CloseDisconnect,
         CloseSetState, CloseEnd, SubscribeCall, SubscribeTrack, CallRpc
<1>3. ASSUME NEW h \in HbLoops PROVE ~(HbStep(h) \/ HbTick(h))
  BY DEF HbStep, HbTick, HbExit, TriggerCheck, TriggerSetState, TriggerSpawn,
         HbOk, HbNil, HbErr
<1>4. ASSUME NEW r \in RcLoops PROVE ~RcStep(r)
  BY DEF RcStep, RcCancelled, RcExhausted, RcGiveUp, RcAttempt, RcDropConn,
         RcDialFails, RcDial, RcRegisterOk, RcRegisterFails, RcCloseConn,
         RcForgetConn, RcSetID, RcResubscribe, RcResubscribeCall,
         RcResubscribeTrack, RcResubscribed, RcSetConnected, RcStartHeartbeat
<1>5. UNCHANGED vars
  BY <1>1, <1>2, <1>3, <1>4 DEF Next, StreamLost, Rest
<1> QED
  BY <1>5 DEF vars, shared

\* Such a step is one under the refinement mapping.
LEMMA PhaseStepRefines ==
  ASSUME TypeOK, [Next]_vars, PhaseStep
  PROVE  [Lifecycle!Next]_(Lifecycle!lifecycle)
<1> DEFINE phase == IF panicked THEN "disconnected" ELSE state
           registration == IF Connected /\ ~panicked THEN agentID ELSE None
<1>1. CASE panicked
  <2>1. panicked'
    BY <1>1, PanicIsFinal
  <2>2. UNCHANGED <<phase, registration>>
    BY <1>1, <2>1
  <2> QED
    BY <2>2 DEF Lifecycle!lifecycle
<1>2. CASE ~panicked /\ (panicked' \/ state' = "disconnected")
  <2>1. phase' = "disconnected" /\ registration' = None
    BY <1>2 DEF Connected
  <2>2. phase = state /\ (state = "disconnected" => registration = None)
    BY <1>2 DEF Connected
  <2> QED
    BY <2>1, <2>2 DEF Lifecycle!lifecycle, Lifecycle!Next, Lifecycle!Ended
<1>3. CASE ~panicked /\ ~panicked' /\ state' # "disconnected"
  <2>1. /\ phase = state /\ phase' = state'
        /\ registration = IF Connected THEN agentID ELSE None
        /\ registration' = IF Connected' THEN agentID' ELSE None
    BY <1>3
  <2> HIDE DEF phase, registration
  <2>2. CASE state' = state /\ (Connected => agentID' = agentID)
    <3>1. UNCHANGED <<phase, registration>>
      BY <2>1, <2>2 DEF Connected
    <3> QED
      BY <3>1 DEF Lifecycle!lifecycle, phase, registration
  <2>3. CASE state = "disconnected" /\ state' = "connecting"
    <3>1. phase = "disconnected" /\ phase' = "connecting" /\ UNCHANGED registration
      BY <2>1, <2>3 DEF Connected
    <3> QED
      BY <3>1 DEF Lifecycle!Next, Lifecycle!Connect, phase, registration
  <2>4. CASE /\ state \in {"connecting", "reconnecting"} /\ state' = "connected"
             /\ agentID' \in Conns
    <3>1. /\ phase \in {"connecting", "reconnecting"}
          /\ phase' = "connected" /\ registration' \in Conns
      BY <2>1, <2>4 DEF Connected
    <3> QED
      BY <3>1 DEF Lifecycle!Next, Lifecycle!Registered, phase, registration
  <2>5. CASE state = "connected" /\ state' = "reconnecting"
    <3>1. /\ phase = "connected" /\ phase' = "reconnecting"
          /\ registration' = None
      BY <2>1, <2>5 DEF Connected
    <3> QED
      BY <3>1 DEF Lifecycle!Next, Lifecycle!ConnectionLost, phase, registration
  <2> QED
    BY <1>3, <2>2, <2>3, <2>4, <2>5 DEF PhaseStep
<1> QED
  BY <1>1, <1>2, <1>3

\* So is the initial state.
LEMMA InitRefines == Init => Lifecycle!Init
BY DEF Init, Lifecycle!Init, Connected

\* Agent implements the lifecycle if all its steps are such steps.
LEMMA StepsRefine == Spec /\ [][PhaseStep]_vars => ImplementsLifecycle
<1>1. TypeInv => TypeOK
  BY DEF TypeInv
<1>2. TypeOK /\ [Next]_vars /\ [PhaseStep]_vars
        => [Lifecycle!Next]_(Lifecycle!lifecycle)
  <2> SUFFICES ASSUME TypeOK, [Next]_vars, [PhaseStep]_vars
               PROVE  [Lifecycle!Next]_(Lifecycle!lifecycle)
    OBVIOUS
  <2>1. CASE PhaseStep
    BY <2>1, PhaseStepRefines
  <2>2. CASE UNCHANGED vars
    <3>1. PhaseStep
      BY <2>2 DEF vars, shared, agentVars, PhaseStep
    <3> QED
      BY <3>1, PhaseStepRefines
  <2> QED
    BY <2>1, <2>2
<1>3. ImplementsLifecycle <=>
        Lifecycle!Init /\ [][Lifecycle!Next]_(Lifecycle!lifecycle)
  BY DEF ImplementsLifecycle, Lifecycle!Spec
<1> QED
  BY <1>1, <1>2, <1>3, InitRefines, TypesAndSessions, PTL DEF Spec

-----------------------------------------------------------------------------
(* A session that nobody closes *)

NobodyMayClose == \A c \in Callers : "Close" \notin Menu[c]

\* Nothing is being closed and no loop has been told to stop.
NobodyCloses ==
  /\ \A c \in Callers : caller[c].pc \notin ClosePcs /\ caller[c].conn = None
  /\ \A h \in HbLoops : ~hb[h].done
  /\ \A r \in RcLoops : ~rc[r].done

\* It stays so.
LEMMA NextKeepsOpen ==
  ASSUME NobodyMayClose, TypeInv, NobodyCloses, [Next]_vars
  PROVE  NobodyCloses'
<1> USE DEF At, HbAt, RcAt, CanCall, shared, vars
<1>1. /\ caller \in [Callers -> CallerRecs]
      /\ hb \in [HbLoops -> HbRecs] /\ rc \in [RcLoops -> RcRecs]
  BY DEF TypeInv, TypeOK
<1>3. ASSUME UNCHANGED rc, NEW c \in Callers, NEW pc \in CallerPcs \ ClosePcs,
             GoCaller(c, pc), \A h \in HbLoops : ~hb'[h].done
      PROVE  NobodyCloses'
  BY <1>1, <1>3, CallerMoves DEF NobodyCloses
<1>4. ASSUME NEW c \in Callers, CallerStart(c) \/ CallerStep(c)
      PROVE  NobodyCloses'
  <2>1. /\ caller[c].pc \notin ClosePcs /\ "Close" \notin Menu[c]
        /\ \A h \in HbLoops : ~hb[h].done
    BY DEF NobodyMayClose, NobodyCloses
  <2>2. CASE ConnectStartHeartbeat(c)
    <3>1. /\ \A h \in HbLoops : ~hb'[h].done
          /\ GoCaller(c, "idle") /\ UNCHANGED rc
      BY <1>1, <2>1, <2>2 DEF ConnectStartHeartbeat, StartLoop
    <3> QED
      BY <1>3, <3>1 DEF CallerPcs, ClosePcs
  <2>3. CASE ConnectRegister(c) \/ ConnectSetID(c)
    <3>1. CASE caller' = [caller EXCEPT ![c].pc = "registered", ![c].id = conn]
      BY <1>1, <2>3, <3>1
      DEF ConnectRegister, ConnectSetID, NilClient, NobodyCloses, ClosePcs,
          CallerRecs
    <3>2. CASE caller' = [caller EXCEPT ![c].pc = "announce", ![c].id = None]
      BY <1>1, <2>3, <3>2
      DEF ConnectRegister, ConnectSetID, NilClient, NobodyCloses, ClosePcs,
          CallerRecs
    <3>3. CASE GoCaller(c, "registerFailed")
      BY <1>1, <2>3, <3>3, CallerMoves
      DEF ConnectRegister, ConnectSetID, NilClient, NobodyCloses, ClosePcs,
          CallerPcs, ConnectPcs
    <3>4. CASE UNCHANGED caller
      BY <2>3, <3>4 DEF ConnectRegister, ConnectSetID, NilClient, NobodyCloses
    <3> QED
      BY <2>3, <3>1, <3>2, <3>3, <3>4 DEF ConnectRegister, ConnectSetID, NilClient
  <2>4. CASE \/ SubscribeCall(c) \/ SubscribeTrack(c)
             \/ \E s \in Subs : SubscribeCheck(c, s)
    <3>1. UNCHANGED <<hb, rc>>
      BY <2>4 DEF SubscribeCall, SubscribeTrack, SubscribeCheck, NilClient
    <3>2. \/ UNCHANGED caller \/ GoCaller(c, "track")
          \/ \E pc \in {"idle", "subscribe"}, s \in Subs \cup {None} :
               caller' = [caller EXCEPT ![c].pc = pc, ![c].sub = s]
      BY <2>4 DEF SubscribeCall, SubscribeTrack, SubscribeCheck, NilClient
    <3>3. \A d \in Callers :
            /\ caller'[d].pc \in {caller[d].pc, "track", "idle", "subscribe"}
            /\ caller'[d].conn = caller[d].conn
      BY <1>1, <3>2 DEF GoCaller, CallerRecs
    <3> QED
      BY <3>1, <3>3 DEF NobodyCloses, ClosePcs
  <2>5. CASE \E s \in Subs : Unsubscribe(c, s)
    BY <2>5 DEF Unsubscribe, NobodyCloses
  <2>6. CASE \/ ConnectCheck(c) \/ ConnectAnnounce(c) \/ ConnectDialFails(c)
             \/ ConnectDial(c) \/ ConnectRegisterFailed(c) \/ ConnectFail(c)
             \/ ConnectSetConnected(c) \/ CallCheck(c) \/ CallRpc(c)
    <3>1. UNCHANGED <<hb, rc>>
      BY <2>6
      DEF ConnectCheck, ConnectAnnounce, ConnectDialFails, ConnectDial,
          ConnectRegisterFailed, ConnectFail, ConnectSetConnected, CallCheck,
          CallRpc, NilClient
    <3>2. \/ UNCHANGED caller
          \/ \E pc \in {"connecting", "dial", "connectFailed", "register",
                        "idle", "startHeartbeat", "call"} : GoCaller(c, pc)
      BY <2>6
      DEF ConnectCheck, ConnectAnnounce, ConnectDialFails, ConnectDial,
          ConnectRegisterFailed, ConnectFail, ConnectSetConnected, CallCheck,
          CallRpc, NilClient
    <3> QED
      BY <1>3, <2>1, <3>1, <3>2 DEF NobodyCloses, CallerPcs, ConnectPcs, ClosePcs
  <2>7. ~(CloseNothing(c) \/ CloseBegin(c) \/ CloseDisconnect(c)
          \/ CloseSetState(c) \/ CloseEnd(c))
    BY <2>1 DEF CloseNothing, CloseBegin, CloseDisconnect, CloseSetState,
                CloseEnd, ClosePcs
  <2> QED
    BY <1>4, <2>2, <2>3, <2>4, <2>5, <2>6, <2>7 DEF CallerStart, CallerStep
<1>5. ASSUME NEW h \in HbLoops, HbStep(h) \/ HbTick(h)
      PROVE  NobodyCloses'
  <2>1. UNCHANGED caller
    BY <1>5 DEF HbStep, HbTick, HbExit, TriggerCheck, TriggerSetState,
                TriggerSpawn, HbOk, HbNil, HbErr, NilClient
  <2>2. \/ UNCHANGED hb \/ \E pc \in HbPcs : GoHb(h, pc)
    BY <1>5 DEF HbStep, HbTick, HbExit, TriggerCheck, TriggerSetState,
                TriggerSpawn, HbOk, HbNil, HbErr, NilClient, HbPcs
  <2>3. \A g \in HbLoops : hb'[g].done = hb[g].done
    BY <1>1, <2>2, HbMoves
  <2>4. UNCHANGED rc \/ TriggerSpawn(h)
    BY <1>5 DEF HbStep, HbTick, HbExit, TriggerCheck, TriggerSetState,
                HbOk, HbNil, HbErr, NilClient
  <2>5. \A r \in RcLoops : rc'[r].done => rc[r].done
    BY <1>1, <2>4 DEF TriggerSpawn
  <2> QED
    BY <2>1, <2>3, <2>5 DEF NobodyCloses
<1>6. ASSUME NEW r \in RcLoops, RcStep(r)
      PROVE  NobodyCloses'
  <2>1. UNCHANGED caller
    BY <1>6
    DEF RcStep, RcCancelled, RcExhausted, RcGiveUp, RcAttempt, RcDropConn,
        RcDialFails, RcDial, RcRegisterOk, RcRegisterFails, RcCloseConn,
        RcForgetConn, RcSetID, RcResubscribe, RcResubscribeCall,
        RcResubscribeTrack, RcResubscribed, RcSetConnected, RcStartHeartbeat,
        NilClient
  <2>2. \A h \in HbLoops : hb'[h].done => hb[h].done
    <3>1. UNCHANGED hb \/ RcStartHeartbeat(r)
      BY <1>6
      DEF RcStep, RcCancelled, RcExhausted, RcGiveUp, RcAttempt, RcDropConn,
          RcDialFails, RcDial, RcRegisterOk, RcRegisterFails, RcCloseConn,
          RcForgetConn, RcSetID, RcResubscribe, RcResubscribeCall,
          RcResubscribeTrack, RcResubscribed, RcSetConnected, NilClient
    <3> QED
      BY <1>1, <3>1 DEF RcStartHeartbeat, StartLoop
  <2>3. \A q \in RcLoops : rc'[q].done = rc[q].done
    <3>1. CASE \/ RcCancelled(r) \/ RcExhausted(r) \/ RcGiveUp(r)
               \/ RcAttempt(r) \/ RcDropConn(r) \/ RcDial(r)
               \/ RcRegisterFails(r) \/ RcCloseConn(r) \/ RcResubscribed(r)
               \/ RcSetConnected(r) \/ RcStartHeartbeat(r)
      <4>1. \/ UNCHANGED rc
            \/ \E pc \in {"idle", "giveUp", "dropConn", "dial", "register",
                          "registerFailed", "forgetConn", "restored",
                          "startHeartbeat"} : GoRc(r, pc)
        BY <3>1
        DEF RcCancelled, RcExhausted, RcGiveUp, RcAttempt, RcDropConn, RcDial,
            RcRegisterFails, RcCloseConn, RcResubscribed, RcSetConnected,
            RcStartHeartbeat, NilClient
      <4> QED
        BY <1>1, <4>1, RcMoves DEF RcPcs
    <3>2. CASE RcDialFails(r) \/ RcForgetConn(r)
      BY <1>1, <3>2, RetryMoves DEF RcDialFails, RcForgetConn
    <3>3. CASE RcRegisterOk(r)
      BY <1>1, <3>3 DEF RcRegisterOk, RcRecs
    <3>4. CASE RcSetID(r)
      BY <1>1, <3>4 DEF RcSetID, RcRecs
    <3>5. CASE RcResubscribe(r)
      BY <1>1, <3>5 DEF RcResubscribe, RcRecs
    <3>6. CASE RcResubscribeCall(r) \/ RcResubscribeTrack(r)
      <4>1. \/ UNCHANGED rc \/ GoRc(r, "resubscribeTrack")
            \/ rc' = [rc EXCEPT ![r].pc = "resubscribe", ![r].sub = None]
        BY <3>6 DEF RcResubscribeCall, RcResubscribeTrack, NilClient
      <4>2. CASE rc' = [rc EXCEPT ![r].pc = "resubscribe", ![r].sub = None]
        BY <1>1, <4>2 DEF RcRecs
      <4> QED
        BY <1>1, <4>1, <4>2, RcMoves DEF RcPcs
    <3> QED
      BY <1>6, <3>1, <3>2, <3>3, <3>4, <3>5, <3>6 DEF RcStep
  <2> QED
    BY <2>1, <2>2, <2>3 DEF NobodyCloses
<1>7. CASE StreamLost \/ Rest \/ UNCHANGED vars
  BY <1>7 DEF StreamLost, Rest, NobodyCloses
<1> QED
  BY <1>4, <1>5, <1>6, <1>7 DEF Next

\* What the session's goroutine relies on when nobody closes: the state is the
\* one it has set itself, and a connection it has not dialled yet, or has
\* closed, leaves none open.
CallerExact(c) ==
  /\ caller[c].pc = "connecting" => state = "disconnected"
  /\ caller[c].pc = "startHeartbeat" => state = "connected"
  /\ caller[c].pc \notin {"connecting", "startHeartbeat"} => state = "connecting"
  /\ caller[c].pc \in {"connecting", "dial", "connectFailed"} => open = {}

HbExact(h) == state # "disconnected"

RcExact(r) ==
  /\ state # "disconnected"
  /\ rc[r].pc \in {"dial", "forgetConn", "giveUp"} => open = {}
  /\ rc[r].pc = "top" /\ rc[r].attempt > 0 => open = {}

OneConnection == open \subseteq {conn}

ExactInv ==
  /\ \A c \in ConnectingCallers : CallerExact(c)
  /\ \A h \in LiveHb : HbExact(h)
  /\ \A r \in LiveRc : RcExact(r)
  /\ NoSession => state = "disconnected" /\ open = {}
  /\ OneConnection

\* As above: the session is run, after the step, by one goroutine or none.
LEMMA ExactDrives ==
  ASSUME OneSession', OneConnection',
         \/ \E c \in ConnectingCallers' : CallerExact(c)'
         \/ \E h \in LiveHb' : HbExact(h)'
         \/ \E r \in LiveRc' : RcExact(r)'
         \/ NoSession' /\ state' = "disconnected" /\ open' = {}
  PROVE  ExactInv'
<1>1. CASE \E c \in ConnectingCallers' : CallerExact(c)'
  BY <1>1 DEF OneSession, ExactInv, NoSession
<1>2. CASE \E h \in LiveHb' : HbExact(h)'
  BY <1>2 DEF OneSession, ExactInv, NoSession, HbExact
<1>3. CASE \E r \in LiveRc' : RcExact(r)'
  BY <1>3 DEF OneSession, ExactInv, NoSession
<1>4. CASE NoSession' /\ state' = "disconnected" /\ open' = {}
  BY <1>4 DEF ExactInv, NoSession
<1> QED
  BY <1>1, <1>2, <1>3, <1>4

\* Somebody else's step changes nothing of this.
LEMMA ExactBystands ==
  ASSUME ExactInv, UNCHANGED <<state, conn, open>>,
         \A c \in Callers :
           caller[c].pc \in ConnectPcs \/ caller'[c].pc \in ConnectPcs =>
             caller'[c].pc = caller[c].pc,
         \A h \in HbLoops : hb'[h].pc = hb[h].pc,
         UNCHANGED rc
  PROVE  ExactInv'
<1>1. /\ ConnectingCallers' = ConnectingCallers
      /\ LiveHb' = LiveHb /\ LiveRc' = LiveRc
  BY DEF ConnectingCallers, LiveHb, LiveRc
<1>2. ASSUME NEW c \in ConnectingCallers PROVE CallerExact(c)'
  <2>1. CallerExact(c) /\ caller'[c].pc = caller[c].pc
    BY DEF ExactInv, ConnectingCallers
  <2> QED
    BY <2>1 DEF CallerExact
<1> QED
  BY <1>1, <1>2 DEF ExactInv, HbExact, RcExact, NoSession, OneConnection

\* Connect.
LEMMA ConnectKeepsExact ==
  ASSUME TypeInv, OneSession, OneSession', SessionInv, ExactInv,
         NEW c \in Callers,
         \/ ConnectCheck(c) \/ ConnectAnnounce(c) \/ ConnectDialFails(c)
         \/ ConnectDial(c) \/ ConnectRegister(c) \/ ConnectRegisterFailed(c)
         \/ ConnectFail(c)
         \/ ConnectSetID(c) \/ ConnectSetConnected(c) \/ ConnectStartHeartbeat(c)
  PROVE  ExactInv'
<1> USE DEF At, SetState, shared, agentVars, netVars
<1>1. caller \in [Callers -> CallerRecs]
  BY DEF TypeInv, TypeOK
<1>2. caller[c].pc \in ConnectPcs => CallerFine(c) /\ CallerExact(c)
  BY CallerAlone DEF SessionInv, ExactInv
<1>3. ASSUME caller'[c].pc \in ConnectPcs, CallerExact(c)', OneConnection'
      PROVE  ExactInv'
  BY <1>3, ExactDrives DEF ConnectingCallers
<1>4. OneConnection
  BY DEF ExactInv
<1>5. CASE ConnectCheck(c)
  <2>1. UNCHANGED <<state, conn, open>> /\ caller'[c].pc = "connecting"
    BY <1>1, <1>5, CallerMoves DEF ConnectCheck, CallerPcs, ConnectPcs
  <2>2. state = "disconnected" /\ open = {}
    <3>1. NoSession
      <4>1. /\ caller[c].pc = "idle" /\ UNCHANGED <<hb, rc>>
            /\ \A d \in Callers : d # c => caller'[d].pc = caller[d].pc
        BY <1>1, <1>5, CallerMoves DEF ConnectCheck, CanCall, CallerPcs, ConnectPcs
      <4>2. c \in ConnectingCallers'
        BY <2>1 DEF ConnectingCallers, ConnectPcs
      <4>3. /\ LiveHb' = {} /\ LiveRc' = {}
            /\ \A d \in ConnectingCallers' : d = c
        BY <4>2 DEF OneSession
      <4> QED
        BY <4>1, <4>3
        DEF NoSession, ConnectingCallers, LiveHb, LiveRc, ConnectPcs
    <3> QED
      BY <3>1 DEF ExactInv
  <2> QED
    BY <1>3, <1>4, <2>1, <2>2 DEF CallerExact, OneConnection, ConnectPcs
<1>6. CASE ConnectAnnounce(c)
  <2>1. /\ UNCHANGED <<conn, open>> /\ caller'[c].pc = "dial"
        /\ caller[c].pc = "connecting" /\ state' = "connecting"
    BY <1>1, <1>6, CallerMoves DEF ConnectAnnounce, CallerPcs, ConnectPcs
  <2> QED
    BY <1>2, <1>3, <1>4, <2>1 DEF CallerExact, OneConnection, ConnectPcs
<1>7. CASE ConnectDialFails(c)
  <2>1. /\ UNCHANGED <<state, conn, open>> /\ caller'[c].pc = "connectFailed"
        /\ caller[c].pc = "dial"
    BY <1>1, <1>7, CallerMoves DEF ConnectDialFails, CallerPcs, ConnectPcs
  <2> QED
    BY <1>2, <1>3, <1>4, <2>1 DEF CallerExact, OneConnection, ConnectPcs
<1>8. CASE ConnectDial(c)
  <2>1. /\ UNCHANGED state /\ caller'[c].pc = "register"
        /\ caller[c].pc = "dial" /\ open' = open \cup {conn'}
    BY <1>1, <1>8, CallerMoves DEF ConnectDial, Dialled, CallerPcs, ConnectPcs
  <2> QED
    BY <1>2, <1>3, <2>1 DEF CallerExact, OneConnection, ConnectPcs
<1>9. CASE ConnectRegister(c)
  <2>1. caller[c].pc = "register" /\ conn # None
    BY <1>2, <1>9 DEF ConnectRegister, CallerFine, ConnectPcs
  <2>2. UNCHANGED <<state, conn, open>>
    BY <1>9 DEF ConnectRegister, NilClient
  <2>3. caller'[c].pc \in {"registered", "registerFailed"}
    <3>1. CASE GoCaller(c, "registerFailed")
      BY <1>1, <3>1, CallerMoves DEF CallerPcs, ConnectPcs
    <3>2. CASE caller' = [caller EXCEPT ![c].pc = "registered", ![c].id = conn]
      BY <1>1, <3>2 DEF CallerRecs
    <3> QED
      BY <1>9, <2>1, <3>1, <3>2 DEF ConnectRegister, NilClient
  <2> QED
    BY <1>2, <1>3, <1>4, <2>1, <2>2, <2>3
    DEF CallerExact, OneConnection, ConnectPcs
<1>10. CASE ConnectRegisterFailed(c)
  <2>1. caller[c].pc = "registerFailed" /\ conn # None
    BY <1>2, <1>10 DEF ConnectRegisterFailed, CallerFine, ConnectPcs
  <2>2. /\ UNCHANGED <<state, conn>> /\ open' = open \ {conn}
        /\ caller'[c].pc = "connectFailed"
    BY <1>1, <1>10, <2>1, CallerMoves
    DEF ConnectRegisterFailed, NilClient, CloseConn, CallerPcs, ConnectPcs
  <2>3. open' = {}
    BY <1>4, <2>2 DEF OneConnection
  <2> QED
    BY <1>2, <1>3, <2>1, <2>2, <2>3 DEF CallerExact, OneConnection, ConnectPcs
<1>11. CASE ConnectFail(c)
  <2>1. /\ caller[c].pc = "connectFailed" /\ state' = "disconnected"
        /\ \A d \in Callers :
             caller'[d].pc = IF d = c THEN "idle" ELSE caller[d].pc
        /\ UNCHANGED <<conn, open, hb, rc>>
    BY <1>1, <1>11, CallerMoves DEF ConnectFail, CallerPcs
  <2>2. NoSession'
    <3>1. /\ LiveHb = {} /\ LiveRc = {}
          /\ \A d \in Callers : d # c => caller[d].pc \notin ConnectPcs
      BY <2>1, CallerAlone DEF ConnectPcs
    <3> QED
      BY <2>1, <3>1
      DEF NoSession, ConnectingCallers, LiveHb, LiveRc, ConnectPcs
  <2> QED
    BY <1>2, <2>1, <2>2, ExactDrives DEF CallerExact, OneConnection, ConnectPcs
<1>12. CASE ConnectSetID(c)
  <2>1. /\ UNCHANGED <<state, conn, open>> /\ caller[c].pc = "registered"
        /\ caller'[c].pc = "announce"
    BY <1>1, <1>12 DEF ConnectSetID, CallerRecs
  <2> QED
    BY <1>2, <1>3, <1>4, <2>1 DEF CallerExact, OneConnection, ConnectPcs
<1>13. CASE ConnectSetConnected(c)
  <2>1. /\ UNCHANGED <<conn, open>> /\ caller[c].pc = "announce"
        /\ caller'[c].pc = "startHeartbeat" /\ state' = "connected"
    BY <1>1, <1>13, CallerMoves DEF ConnectSetConnected, CallerPcs, ConnectPcs
  <2> QED
    BY <1>3, <1>4, <2>1 DEF CallerExact, OneConnection, ConnectPcs
<1>14. CASE ConnectStartHeartbeat(c)
  <2>1. /\ UNCHANGED <<state, conn, open>> /\ caller[c].pc = "startHeartbeat"
    BY <1>14 DEF ConnectStartHeartbeat
  <2>2. PICK h \in HbLoops : StartLoop(h)
    BY <1>14 DEF ConnectStartHeartbeat
  <2>3. hb'[h].pc = "select"
    BY <2>2 DEF StartLoop, TypeInv, TypeOK
  <2>4. h \in LiveHb' /\ HbExact(h)'
    BY <1>2, <2>1, <2>3 DEF CallerExact, LiveHb, HbExact, ConnectPcs
  <2> QED
    BY <1>4, <2>1, <2>4, ExactDrives DEF OneConnection
<1> QED
  BY <1>5, <1>6, <1>7, <1>8, <1>9, <1>10, <1>11, <1>12, <1>13, <1>14

\* The loops.  A heartbeat loop that nobody stops ends by starting a reconnect
\* loop, and that one goes on until the agent is connected or it gives up.
LEMMA HbKeepsExact ==
  ASSUME TypeInv, OneSession, OneSession', SessionInv, NobodyCloses, ExactInv,
         NEW h \in HbLoops, HbStep(h) \/ HbTick(h)
  PROVE  ExactInv'
<1> USE DEF HbAt, SetState, shared, agentVars, netVars
<1>1. hb \in [HbLoops -> HbRecs] /\ rc \in [RcLoops -> RcRecs]
  BY DEF TypeInv, TypeOK
<1>2. hb[h].pc # "idle"
  BY DEF HbStep, HbTick, HbExit, TriggerCheck, TriggerSetState, TriggerSpawn,
         HbOk, HbNil, HbErr
<1>3. HbFine(h) /\ HbExact(h) /\ OneConnection /\ ~hb[h].done
  BY <1>2, HbAlone DEF SessionInv, ExactInv, NobodyCloses
<1>4. CASE HbExit(h) \/ HbNil(h)
  BY <1>3, <1>4 DEF HbExit, HbNil, NilClient, HbFine
<1>5. CASE HbOk(h)
  BY <1>5, ExactBystands DEF HbOk, vars
<1>6. CASE HbErr(h) \/ TriggerCheck(h) \/ TriggerSetState(h)
  <2>1. TriggerCheck(h) => state # "reconnecting"
    BY <1>3 DEF TriggerCheck, HbFine
  <2>2. hb'[h].pc # "idle"
    BY <1>1, <1>6, <2>1, HbMoves DEF HbErr, TriggerCheck, TriggerSetState, HbPcs
  <2>3. UNCHANGED <<conn, open>> /\ state' # "disconnected"
    BY <1>3, <1>6 DEF HbErr, TriggerCheck, TriggerSetState, HbExact
  <2> QED
    BY <1>3, <2>2, <2>3, ExactDrives DEF LiveHb, HbExact, OneConnection
<1>7. CASE TriggerSpawn(h)
  <2>1. UNCHANGED <<state, conn, open>>
    BY <1>7 DEF TriggerSpawn
  <2>2. PICK r \in RcLoops :
          rc' = [rc EXCEPT ![r] = [pc |-> "top", done |-> FALSE, attempt |-> 0,
                                   id |-> None, todo |-> {}, sub |-> None]]
    BY <1>7 DEF TriggerSpawn
  <2>3. rc'[r].pc = "top" /\ rc'[r].attempt = 0
    BY <1>1, <2>2
  <2>4. r \in LiveRc' /\ RcExact(r)'
    BY <1>3, <2>1, <2>3 DEF LiveRc, RcExact, HbExact
  <2> QED
    BY <1>3, <2>1, <2>4, ExactDrives DEF OneConnection
<1> QED
  BY <1>4, <1>5, <1>6, <1>7 DEF HbStep, HbTick

\* The steps of a reconnect loop.
LEMMA RcKeepsExact ==
  ASSUME TypeInv, OneSession, OneSession', SessionInv, NobodyCloses, ExactInv,
         NEW r \in RcLoops, RcStep(r)
  PROVE  ExactInv'
<1> USE DEF RcAt, SetState, shared, agentVars, netVars
<1>1. rc \in [RcLoops -> RcRecs] /\ hb \in [HbLoops -> HbRecs]
  BY DEF TypeInv, TypeOK
<1>2. rc[r].pc # "idle"
  BY DEF RcStep, RcCancelled, RcExhausted, RcGiveUp, RcAttempt, RcDropConn,
         RcDialFails, RcDial, RcRegisterOk, RcRegisterFails, RcCloseConn,
         RcForgetConn, RcSetID, RcResubscribe, RcResubscribeCall,
         RcResubscribeTrack, RcResubscribed, RcSetConnected, RcStartHeartbeat
<1>3. /\ RcFine(r) /\ RcExact(r) /\ OneConnection /\ ~rc[r].done
      /\ ConnectingCallers = {} /\ LiveHb = {}
      /\ \A q \in RcLoops : q # r => rc[q].pc = "idle"
  BY <1>2, RcAlone DEF SessionInv, ExactInv, NobodyCloses
<1>4. ASSUME rc'[r].pc # "idle", RcExact(r)', OneConnection' PROVE ExactInv'
  BY <1>4, ExactDrives DEF LiveRc
<1>5. CASE RcCancelled(r) \/ RcResubscribeCall(r) \/ RcResubscribeTrack(r)
  BY <1>3, <1>5 DEF RcCancelled, RcResubscribeCall, RcResubscribeTrack, RcFine
<1>6. CASE RcExhausted(r)
  <2>1. /\ UNCHANGED <<state, conn, open>> /\ rc[r].pc = "top"
        /\ rc'[r].pc = "giveUp"
    BY <1>1, <1>6, RcMoves DEF RcExhausted, RcPcs
  <2>2. rc[r].attempt > 0
    <3>1. rc[r].attempt \in Nat /\ MaxRetries \in Nat
      BY <1>1, ConstantsAssumption DEF RcRecs
    <3> QED
      BY <1>6, <3>1 DEF RcExhausted, Exhausted
  <2> QED
    BY <1>3, <1>4, <2>1, <2>2 DEF RcExact, OneConnection
<1>7. CASE RcGiveUp(r)
  <2>1. /\ UNCHANGED <<caller, hb, conn, open>> /\ state' = "disconnected"
        /\ rc[r].pc = "giveUp"
        /\ \A q \in RcLoops : rc'[q].pc = "idle"
    BY <1>1, <1>3, <1>7, RcMoves DEF RcGiveUp, RcPcs
  <2>2. NoSession'
    BY <1>3, <2>1 DEF NoSession, ConnectingCallers, LiveHb, LiveRc
  <2> QED
    BY <1>3, <2>1, <2>2, ExactDrives DEF RcExact, OneConnection
<1>8. CASE RcAttempt(r)
  <2>1. UNCHANGED <<state, conn, open>> /\ rc'[r].pc = "dropConn"
    BY <1>1, <1>8, RcMoves DEF RcAttempt, RcPcs
  <2> QED
    BY <1>3, <1>4, <2>1 DEF RcExact, OneConnection
<1>9. CASE RcDropConn(r)
  <2>1. UNCHANGED state /\ open' = open \ {conn} /\ rc'[r].pc = "dial"
    BY <1>1, <1>9, RcMoves DEF RcDropConn, CloseConn, RcPcs
  <2>2. open' = {}
    BY <1>3, <2>1 DEF OneConnection
  <2> QED
    BY <1>3, <1>4, <2>1, <2>2 DEF RcExact, OneConnection
<1>10. CASE RcDialFails(r)
  <2>1. /\ UNCHANGED <<state, conn, open>> /\ rc[r].pc = "dial"
        /\ rc'[r].pc = "top"
    BY <1>1, <1>10, RetryMoves DEF RcDialFails
  <2> QED
    BY <1>3, <1>4, <2>1 DEF RcExact, OneConnection
<1>11. CASE RcDial(r)
  <2>1. /\ UNCHANGED state /\ open' = open \cup {conn'} /\ rc[r].pc = "dial"
        /\ rc'[r].pc = "register"
    BY <1>1, <1>11, RcMoves DEF RcDial, Dialled, RcPcs
  <2> QED
    BY <1>3, <1>4, <2>1 DEF RcExact, OneConnection
<1>12. CASE RcRegisterOk(r)
  <2>1. UNCHANGED <<state, conn, open>> /\ rc'[r].pc = "registered"
    BY <1>1, <1>12 DEF RcRegisterOk, RcRecs
  <2> QED
    BY <1>3, <1>4, <2>1 DEF RcExact, OneConnection
<1>13. CASE RcRegisterFails(r)
  <2>1. conn # None
    BY <1>3, <1>13 DEF RcRegisterFails, RcFine
  <2>2. UNCHANGED <<state, conn, open>> /\ rc'[r].pc = "registerFailed"
    BY <1>1, <1>13, <2>1, RcMoves DEF RcRegisterFails, NilClient, RcPcs
  <2> QED
    BY <1>3, <1>4, <2>2 DEF RcExact, OneConnection
<1>14. CASE RcCloseConn(r)
  <2>1. conn # None
    BY <1>3, <1>14 DEF RcCloseConn, RcFine
  <2>2. UNCHANGED <<state, conn>> /\ open' = open \ {conn}
        /\ rc'[r].pc = "forgetConn"
    BY <1>1, <1>14, <2>1, RcMoves DEF RcCloseConn, CloseConn, NilClient, RcPcs
  <2>3. open' = {}
    BY <1>3, <2>2 DEF OneConnection
  <2> QED
    BY <1>3, <1>4, <2>2, <2>3 DEF RcExact, OneConnection
<1>15. CASE RcForgetConn(r)
  <2>1. /\ UNCHANGED <<state, open>> /\ rc[r].pc = "forgetConn"
        /\ rc'[r].pc = "top"
    BY <1>1, <1>15, RetryMoves DEF RcForgetConn
  <2> QED
    BY <1>3, <1>4, <2>1 DEF RcExact, OneConnection
<1>16. CASE RcSetID(r)
  <2>1. UNCHANGED <<state, conn, open>> /\ rc'[r].pc = "resubscribe"
    BY <1>1, <1>16 DEF RcSetID, RcRecs
  <2> QED
    BY <1>3, <1>4, <2>1 DEF RcExact, OneConnection
<1>17. CASE RcResubscribe(r)
  <2>1. /\ UNCHANGED <<state, conn, open>>
        /\ rc'[r].pc \in {"resubscribe", "resubscribeCall"}
    BY <1>1, <1>17 DEF RcResubscribe, RcRecs
  <2> QED
    BY <1>3, <1>4, <2>1 DEF RcExact, OneConnection
<1>18. CASE RcResubscribed(r) \/ RcSetConnected(r)
  <2>1. /\ UNCHANGED <<conn, open>> /\ state' # "disconnected"
        /\ rc'[r].pc \in {"restored", "startHeartbeat"}
    BY <1>1, <1>3, <1>18, RcMoves
    DEF RcResubscribed, RcSetConnected, RcExact, RcPcs
  <2> QED
    BY <1>3, <1>4, <2>1 DEF RcExact, OneConnection
<1>19. CASE RcStartHeartbeat(r)
  <2>1. UNCHANGED <<state, conn, open>>
    BY <1>19 DEF RcStartHeartbeat
  <2>2. PICK h \in HbLoops : StartLoop(h)
    BY <1>19 DEF RcStartHeartbeat
  <2>3. hb'[h].pc = "select"
    BY <1>1, <2>2 DEF StartLoop
  <2>4. h \in LiveHb' /\ HbExact(h)'
    BY <1>3, <2>1, <2>3 DEF RcExact, LiveHb, HbExact
  <2> QED
    BY <1>3, <2>1, <2>4, ExactDrives DEF OneConnection
<1> QED
  BY <1>5, <1>6, <1>7, <1>8, <1>9, <1>10, <1>11, <1>12, <1>13, <1>14, <1>15,
     <1>16, <1>17, <1>18, <1>19 DEF RcStep

\* The methods that need a connection, the end of a stream, and rest.
LEMMA UseKeepsExact ==
  ASSUME TypeInv, ExactInv,
         \/ \E c \in Callers :
              \/ SubscribeCall(c) \/ SubscribeTrack(c) \/ CallCheck(c) \/ CallRpc(c)
              \/ \E s \in Subs : SubscribeCheck(c, s) \/ Unsubscribe(c, s)
         \/ StreamLost \/ UNCHANGED vars
  PROVE  ExactInv'
<1> USE DEF At, CanCall, shared, agentVars, netVars
<1>1. caller \in [Callers -> CallerRecs]
  BY DEF TypeInv, TypeOK
<1> DEFINE Outside == {"idle", "subscribe", "track", "call"}
<1>2. ASSUME NEW c \in Callers,
             \/ SubscribeCall(c) \/ SubscribeTrack(c) \/ CallCheck(c) \/ CallRpc(c)
             \/ \E s \in Subs : SubscribeCheck(c, s)
      PROVE  ExactInv'
  <2>1. UNCHANGED <<state, conn, open, hb, rc>> /\ caller[c].pc \in Outside
    BY <1>2 DEF SubscribeCall, SubscribeTrack, CallCheck, CallRpc,
                SubscribeCheck, NilClient, OpenStream
  <2>2. \/ caller' = caller
        \/ \E pc \in Outside : GoCaller(c, pc)
        \/ \E pc \in Outside, s \in Subs \cup {None} :
             caller' = [caller EXCEPT ![c].pc = pc, ![c].sub = s]
    BY <1>2 DEF SubscribeCall, SubscribeTrack, CallCheck, CallRpc,
                SubscribeCheck, NilClient
  <2>3. /\ caller'[c].pc \in Outside
        /\ \A d \in Callers : d # c => caller'[d].pc = caller[d].pc
    BY <1>1, <2>1, <2>2 DEF GoCaller, CallerRecs
  <2>4. \A d \in Callers :
          caller[d].pc \in ConnectPcs \/ caller'[d].pc \in ConnectPcs =>
            caller'[d].pc = caller[d].pc
    BY <2>1, <2>3 DEF ConnectPcs
  <2> QED
    BY <2>1, <2>4, ExactBystands
<1>3. CASE \/ \E c \in Callers, s \in Subs : Unsubscribe(c, s)
           \/ StreamLost \/ UNCHANGED vars
  <2>1. UNCHANGED <<state, conn, open, caller, hb, rc>>
    BY <1>3 DEF Unsubscribe, StreamLost, vars
  <2> QED
    BY <2>1, ExactBystands
<1> QED
  BY <1>2, <1>3

\* Every step.
LEMMA NextKeepsExact ==
  ASSUME TypeInv, OneSession, OneSession', SessionInv, NobodyMayClose,
         NobodyCloses, ExactInv, [Next]_vars
  PROVE  ExactInv'
<1>1. ASSUME NEW c \in Callers, CallerStart(c) \/ CallerStep(c)
      PROVE  ExactInv'
  <2>1. ~(CloseNothing(c) \/ CloseBegin(c) \/ CloseDisconnect(c)
          \/ CloseSetState(c) \/ CloseEnd(c))
    BY DEF NobodyMayClose, NobodyCloses, CloseNothing, CloseBegin, CanCall, At,
           CloseDisconnect, CloseSetState, CloseEnd, ClosePcs
  <2> QED
    BY <1>1, <2>1, ConnectKeepsExact, UseKeepsExact DEF CallerStart, CallerStep
<1>2. ASSUME NEW h \in HbLoops, HbStep(h) \/ HbTick(h)
      PROVE  ExactInv'
  BY <1>2, HbKeepsExact
<1>3. ASSUME NEW r \in RcLoops, RcStep(r)
      PROVE  ExactInv'
  BY <1>3, RcKeepsExact
<1>4. CASE StreamLost \/ Rest \/ UNCHANGED vars
  BY <1>4, UseKeepsExact DEF Rest
<1> QED
  BY <1>1, <1>2, <1>3, <1>4 DEF Next

-----------------------------------------------------------------------------
(* The theorems about a session that nobody closes *)

\* Everything the two invariants say, together.
UnclosedInv == TypeInv /\ OneSession /\ SessionInv /\ NobodyCloses /\ ExactInv

\* They hold at first.
LEMMA InitUnclosed == Init => NobodyCloses /\ ExactInv
BY DEF Init, NobodyCloses, ExactInv, OneConnection, ConnectingCallers, LiveHb,
       LiveRc, NoSession, ConnectPcs, ClosePcs

\* They hold throughout.
LEMMA UnclosedInvariant ==
  ASSUME MaxSessions <= 1, NobodyMayClose
  PROVE  Spec => []UnclosedInv
<1>1. /\ TypeInv /\ OneSession /\ SessionInv /\ NobodyCloses /\ ExactInv
      /\ OneSession' /\ [Next]_vars
      => NobodyCloses' /\ ExactInv'
  BY NextKeepsOpen, NextKeepsExact
<1>2. UnclosedInv <=>
        TypeInv /\ OneSession /\ SessionInv /\ NobodyCloses /\ ExactInv
  BY DEF UnclosedInv
<1> QED
  BY <1>1, <1>2, InitUnclosed, SessionInvariant, PTL DEF Spec

\* However often dialling, registering and the heartbeat fail, the agent never
\* loses sight of a connection it has opened: all but the current one are
\* closed.
THEOREM NoConnectionLeaks ==
  ASSUME MaxSessions <= 1, NobodyMayClose
  PROVE  Spec => []NoOrphanConnection
<1>1. UnclosedInv => NoOrphanConnection
  BY DEF UnclosedInv, ExactInv, OneConnection, NoOrphanConnection
<1> QED
  BY <1>1, UnclosedInvariant, PTL

\* When a Connect that failed, or a reconnection that gave up, leaves the agent
\* disconnected, no connection is open any more.
THEOREM GivingUpClosesTheConnection ==
  ASSUME MaxSessions <= 1, NobodyMayClose
  PROVE  Spec => []DisconnectedIsClosed
<1>1. UnclosedInv => DisconnectedIsClosed
  BY DEF UnclosedInv, ExactInv, DisconnectedIsClosed, Quiet, NoSession,
         ConnectingCallers, ConnectPcs
<1> QED
  BY <1>1, UnclosedInvariant, PTL

\* Every step is one of the lifecycle.
LEMMA UnclosedPhases ==
  ASSUME NobodyMayClose, UnclosedInv, [Next]_vars
  PROVE  [PhaseStep]_vars
<1> USE DEF At, HbAt, RcAt, SetState, shared, agentVars, PhaseStep
<1>1. /\ TypeOK
      /\ \A c \in ConnectingCallers : CallerFine(c) /\ CallerExact(c)
      /\ \A h \in LiveHb : HbFine(h) /\ HbExact(h)
      /\ \A r \in LiveRc : RcFine(r) /\ RcExact(r)
  BY DEF UnclosedInv, TypeInv, SessionInv, ExactInv
<1>2. ASSUME NEW c \in Callers, CallerStart(c) \/ CallerStep(c)
      PROVE  PhaseStep
  <2>1. ~(CloseNothing(c) \/ CloseBegin(c) \/ CloseDisconnect(c)
          \/ CloseSetState(c) \/ CloseEnd(c))
    BY DEF NobodyMayClose, UnclosedInv, NobodyCloses, CloseNothing, CloseBegin,
           CanCall, CloseDisconnect, CloseSetState, CloseEnd, ClosePcs
  <2>2. caller[c].pc \in ConnectPcs => CallerFine(c) /\ CallerExact(c)
    BY <1>1 DEF ConnectingCallers
  <2>3. CASE ConnectAnnounce(c)
    BY <2>2, <2>3 DEF ConnectAnnounce, ConnectPcs, CallerExact
  <2>4. CASE ConnectFail(c)
    BY <2>4 DEF ConnectFail
  <2>5. CASE ConnectSetID(c)
    BY <2>2, <2>5 DEF ConnectSetID, ConnectPcs, CallerFine
  <2>6. CASE ConnectSetConnected(c)
    <3>1. state = "connecting" /\ agentID = conn /\ conn # None
      BY <2>2, <2>6 DEF ConnectSetConnected, ConnectPcs, CallerExact, CallerFine
    <3> QED
      BY <1>1, <2>6, <3>1 DEF ConnectSetConnected, TypeOK
  <2>7. CASE ConnectDial(c)
    BY <2>7 DEF ConnectDial, Dialled
  <2>8. CASE ConnectRegister(c) \/ ConnectRegisterFailed(c)
    BY <2>8 DEF ConnectRegister, ConnectRegisterFailed, NilClient
  <2>9. CASE \/ ConnectCheck(c) \/ ConnectDialFails(c)
             \/ ConnectStartHeartbeat(c) \/ CallCheck(c) \/ CallRpc(c)
    BY <2>9 DEF ConnectCheck, ConnectDialFails, ConnectStartHeartbeat,
                CallCheck, CallRpc, NilClient
  <2>10. CASE \/ SubscribeCall(c) \/ SubscribeTrack(c)
              \/ \E s \in Subs : SubscribeCheck(c, s) \/ Unsubscribe(c, s)
    BY <2>10 DEF SubscribeCall, SubscribeTrack, SubscribeCheck, Unsubscribe,
                 NilClient
  <2> QED
    BY <1>2, <2>1, <2>3, <2>4, <2>5, <2>6, <2>7, <2>8, <2>9, <2>10
    DEF CallerStart, CallerStep
<1>3. ASSUME NEW h \in HbLoops, HbStep(h) \/ HbTick(h)
      PROVE  PhaseStep
  <2>1. CASE TriggerSetState(h)
    <3>1. HbFine(h) /\ HbExact(h) /\ hb[h].pc = "triggered"
      BY <1>1, <2>1 DEF TriggerSetState, LiveHb
    <3> QED
      BY <2>1, <3>1 DEF TriggerSetState, HbFine, HbExact
  <2>2. CASE (HbStep(h) \/ HbTick(h)) /\ ~TriggerSetState(h)
    BY <2>2 DEF HbStep, HbTick, HbExit, TriggerCheck, TriggerSpawn, HbOk,
                HbNil, HbErr, NilClient, vars
  <2> QED
    BY <1>3, <2>1, <2>2
<1>4. ASSUME NEW r \in RcLoops, RcStep(r)
      PROVE  PhaseStep
  <2>1. rc[r].pc # "idle" => RcFine(r) /\ RcExact(r)
    BY <1>1 DEF LiveRc
  <2>2. CASE RcGiveUp(r)
    BY <2>2 DEF RcGiveUp
  <2>3. CASE RcSetID(r)
    BY <2>1, <2>3 DEF RcSetID, RcFine, Connected
  <2>4. CASE RcSetConnected(r)
    <3>1. state = "reconnecting" /\ agentID = conn /\ conn # None
      BY <2>1, <2>4 DEF RcSetConnected, RcFine, RcExact
    <3> QED
      BY <1>1, <2>4, <3>1 DEF RcSetConnected, TypeOK
  <2>5. CASE \/ RcCancelled(r) \/ RcExhausted(r) \/ RcAttempt(r)
             \/ RcDropConn(r) \/ RcDialFails(r) \/ RcDial(r)
             \/ RcRegisterOk(r) \/ RcRegisterFails(r) \/ RcCloseConn(r)
             \/ RcForgetConn(r)
    BY <2>5 DEF RcCancelled, RcExhausted, RcAttempt, RcDropConn, RcDialFails,
                RcDial, Dialled, RcRegisterOk, RcRegisterFails, RcCloseConn,
                RcForgetConn, NilClient
  <2>6. CASE \/ RcResubscribe(r) \/ RcResubscribeCall(r)
             \/ RcResubscribeTrack(r) \/ RcResubscribed(r)
             \/ RcStartHeartbeat(r)
    BY <2>6 DEF RcResubscribe, RcResubscribeCall, RcResubscribeTrack,
                RcResubscribed, RcStartHeartbeat, NilClient
  <2> QED
    BY <1>4, <2>2, <2>3, <2>4, <2>5, <2>6 DEF RcStep
<1>5. CASE StreamLost \/ Rest
  BY <1>5 DEF StreamLost, Rest, vars
<1> QED
  BY <1>2, <1>3, <1>4, <1>5 DEF Next

\* The agent goes through the documented phases, registers anew for each
\* session and keeps the registration while it is connected.
THEOREM UnclosedAgentImplementsLifecycle ==
  ASSUME MaxSessions <= 1, NobodyMayClose
  PROVE  Spec => ImplementsLifecycle
<1>1. UnclosedInv /\ [Next]_vars => [PhaseStep]_vars
  BY UnclosedPhases
<1>2. Spec => [][PhaseStep]_vars
  BY <1>1, UnclosedInvariant, PTL DEF Spec
<1> QED
  BY <1>2, StepsRefine, PTL

-----------------------------------------------------------------------------
(* The subscriptions of a session that nobody closes *)

DistinctKeys == \A s, t \in Subs : Key[s] = Key[t] => s = t

\* Only a subscribe that returns and Unsubscribe change the list or what the
\* application holds of it: resubscribeAll is refused.
LEMMA NextKeepsTracked ==
  ASSUME NobodyMayClose, DistinctKeys, UnclosedInv, TrackedForRecovery,
         [Next]_vars
  PROVE  TrackedForRecovery'
<1> USE DEF At, HbAt, RcAt, SetState, shared, agentVars
<1>1. /\ subscriptions \subseteq Subs
      /\ handle \in [Subs -> {"none", "pending", "active", "unsubscribed"}]
      /\ \A c \in Callers :
           caller[c].pc \in {"subscribe", "track"} => caller[c].sub \in Subs
  BY DEF UnclosedInv, TypeInv, TypeOK, SubInFlight, CallerSubs
<1>2. ASSUME UNCHANGED <<subscriptions, handle>>
      PROVE  TrackedForRecovery'
  BY <1>2 DEF TrackedForRecovery
<1>3. ASSUME NEW c \in Callers, SubscribeTrack(c)
      PROVE  TrackedForRecovery'
  <2> DEFINE s == caller[c].sub
  <2>1. s \in Subs /\ handle' = [handle EXCEPT ![s] = "active"] /\ Track(s)
    BY <1>1, <1>3 DEF SubscribeTrack
  <2> HIDE DEF s
  <2>2. subscriptions' = subscriptions \cup {s}
    BY <1>1, <2>1 DEF Track, DistinctKeys
  <2> QED
    BY <1>1, <2>1, <2>2 DEF TrackedForRecovery
<1>4. ASSUME NEW c \in Callers, NEW s \in Subs, Unsubscribe(c, s)
      PROVE  TrackedForRecovery'
  <2>1. handle' = [handle EXCEPT ![s] = "unsubscribed"] /\ Untrack(s)
    BY <1>4 DEF Unsubscribe
  <2>2. subscriptions' = subscriptions \ {s}
    BY <1>1, <2>1 DEF Untrack, DistinctKeys
  <2> QED
    BY <1>1, <2>1, <2>2 DEF TrackedForRecovery
<1>5. ASSUME NEW c \in Callers, NEW s \in Subs, SubscribeCheck(c, s)
      PROVE  TrackedForRecovery'
  BY <1>1, <1>5 DEF SubscribeCheck, TrackedForRecovery
<1>6. ASSUME NEW c \in Callers, SubscribeCall(c)
      PROVE  TrackedForRecovery'
  <2>1. /\ subscriptions' = subscriptions
        /\ \/ handle' = handle
           \/ handle' = [handle EXCEPT ![caller[c].sub] = "none"]
    BY <1>6 DEF SubscribeCall, NilClient
  <2> QED
    BY <1>1, <2>1 DEF TrackedForRecovery
<1>7. ASSUME NEW c \in Callers, CallerStart(c) \/ CallerStep(c)
      PROVE  TrackedForRecovery'
  <2>1. ~(CloseNothing(c) \/ CloseBegin(c) \/ CloseDisconnect(c)
          \/ CloseSetState(c) \/ CloseEnd(c))
    BY DEF NobodyMayClose, UnclosedInv, NobodyCloses, CloseNothing, CloseBegin,
           CanCall, CloseDisconnect, CloseSetState, CloseEnd, ClosePcs
  <2>2. CASE \/ ConnectCheck(c) \/ ConnectAnnounce(c) \/ ConnectDialFails(c)
             \/ ConnectDial(c) \/ ConnectRegister(c) \/ ConnectRegisterFailed(c)
             \/ ConnectFail(c) \/ ConnectSetID(c) \/ ConnectSetConnected(c)
             \/ ConnectStartHeartbeat(c) \/ CallCheck(c) \/ CallRpc(c)
    BY <1>2, <2>2
    DEF ConnectCheck, ConnectAnnounce, ConnectDialFails, ConnectDial, Dialled,
        ConnectRegister, ConnectRegisterFailed, ConnectFail, ConnectSetID,
        ConnectSetConnected, ConnectStartHeartbeat, CallCheck, CallRpc,
        NilClient
  <2> QED
    BY <1>3, <1>4, <1>5, <1>6, <1>7, <2>1, <2>2 DEF CallerStart, CallerStep
<1>8. ASSUME NEW h \in HbLoops, HbStep(h) \/ HbTick(h)
      PROVE  TrackedForRecovery'
  BY <1>2, <1>8 DEF HbStep, HbTick, HbExit, TriggerCheck, TriggerSetState,
                    TriggerSpawn, HbOk, HbNil, HbErr, NilClient, vars
<1>9. ASSUME NEW r \in RcLoops, RcStep(r)
      PROVE  TrackedForRecovery'
  <2>1. ~(RcResubscribeCall(r) \/ RcResubscribeTrack(r))
    BY DEF UnclosedInv, SessionInv, LiveRc, RcFine, RcResubscribeCall,
           RcResubscribeTrack
  <2>2. UNCHANGED <<subscriptions, handle>>
    BY <1>9, <2>1
    DEF RcStep, RcCancelled, RcExhausted, RcGiveUp, RcAttempt, RcDropConn,
        RcDialFails, RcDial, Dialled, RcRegisterOk, RcRegisterFails,
        RcCloseConn, RcForgetConn, RcSetID, RcResubscribe, RcResubscribed,
        RcSetConnected, RcStartHeartbeat, NilClient
  <2> QED
    BY <1>2, <2>2
<1>10. CASE StreamLost \/ Rest \/ UNCHANGED vars
  BY <1>2, <1>10 DEF StreamLost, Rest, vars
<1> QED
  BY <1>7, <1>8, <1>9, <1>10 DEF Next

\* The list doReconnect restores from is, whatever reconnects meanwhile, that
\* of the subscriptions the application holds, if no two of them have the same
\* subject and queue.
THEOREM HeldSubscriptionsAreTracked ==
  ASSUME MaxSessions <= 1, NobodyMayClose, DistinctKeys
  PROVE  Spec => []TrackedForRecovery
<1>1. Init => TrackedForRecovery
  BY DEF Init, TrackedForRecovery
<1>2. UnclosedInv /\ TrackedForRecovery /\ [Next]_vars => TrackedForRecovery'
  BY NextKeepsTracked
<1> QED
  BY <1>1, <1>2, UnclosedInvariant, PTL DEF Spec

-----------------------------------------------------------------------------
(* One goroutine that connects and closes, without automatic reconnection *)

\* The only user goroutine, and an agent that does not reconnect.
OneUser(u) == Callers = {u} /\ ~AutoReconnect

\* Every heartbeat loop that still runs has been cancelled.
Cancelled == \A h \in LiveHb : hb[h].done

Ended == state = "disconnected" /\ Cancelled /\ open = {}
Connecting == state = "connecting" /\ Cancelled

\* What the user goroutine relies on, wherever it is.
UserExact(u) ==
  \/ caller[u].pc = "idle" /\ (Connected \/ Ended)
  \/ caller[u].pc = "connecting" /\ Ended
  \/ caller[u].pc \in {"dial", "connectFailed"} /\ Connecting /\ open = {}
  \/ caller[u].pc \in {"register", "registerFailed"} /\ Connecting /\ conn # None
  \/ /\ caller[u].pc = "registered" /\ Connecting /\ conn # None
     /\ caller[u].id = conn
  \/ /\ caller[u].pc = "announce" /\ Connecting /\ conn # None
     /\ agentID = conn
  \/ caller[u].pc = "startHeartbeat" /\ Connected /\ Cancelled
  \/ caller[u].pc \in {"subscribe", "track", "call"} /\ Connected
  \/ /\ caller[u].pc \in {"disconnect", "closeState"} /\ Connected /\ Cancelled
     /\ caller[u].conn = conn
  \/ /\ caller[u].pc = "closeConn" /\ state = "disconnected" /\ Cancelled
     /\ caller[u].conn = conn

\* A loop that Close has cancelled may outlive the next Connect, but it only
\* beats.
ManualInv(u) ==
  /\ UserExact(u)
  /\ \A h \in LiveHb : hb[h].pc = "select"
  /\ LiveRc = {}
  /\ OneConnection
  /\ ConnectedAsRegistered
  /\ HeartbeatOwned

\* It holds at first.
LEMMA InitManual ==
  ASSUME NEW u, OneUser(u), Init
  PROVE  ManualInv(u)
BY DEF OneUser, Init, ManualInv, UserExact, Ended, Cancelled, OneConnection,
       ConnectedAsRegistered, HeartbeatOwned, Connected, LiveHb, LiveRc

\* Connect keeps it,
LEMMA ConnectKeepsManual ==
  ASSUME NEW u, OneUser(u), TypeInv, ManualInv(u),
         \/ ConnectCheck(u) \/ ConnectAnnounce(u) \/ ConnectDialFails(u)
         \/ ConnectDial(u) \/ ConnectRegister(u) \/ ConnectRegisterFailed(u)
         \/ ConnectFail(u) \/ ConnectSetID(u) \/ ConnectSetConnected(u)
         \/ ConnectStartHeartbeat(u)
  PROVE  ManualInv(u)'
<1> USE DEF At, SetState, shared, agentVars, netVars
<1>1. /\ caller \in [Callers -> CallerRecs] /\ u \in Callers
      /\ hb \in [HbLoops -> HbRecs] /\ open \subseteq Conns
      /\ None \notin Conns
  BY ConstantsAssumption DEF OneUser, TypeInv, TypeOK
<1>2. ASSUME UNCHANGED <<hb, rc, heartbeatCancel>>, UserExact(u)',
             OneConnection', ConnectedAsRegistered'
      PROVE  ManualInv(u)'
  BY <1>2 DEF ManualInv, LiveHb, LiveRc, HeartbeatOwned
<1>3. CASE ConnectCheck(u)
  <2>1. /\ caller'[u].pc = "connecting" /\ Ended
        /\ UNCHANGED <<state, conn, agentID, open, hb, rc, heartbeatCancel>>
    BY <1>1, <1>3, CallerMoves
    DEF ConnectCheck, CanCall, ManualInv, UserExact, CallerPcs, ConnectPcs
  <2> QED
    BY <1>2, <2>1
    DEF ManualInv, UserExact, Ended, Cancelled, LiveHb, OneConnection,
        ConnectedAsRegistered, Connected
<1>4. CASE ConnectAnnounce(u)
  <2>1. /\ caller'[u].pc = "dial" /\ Ended /\ state' = "connecting"
        /\ UNCHANGED <<conn, agentID, open, hb, rc, heartbeatCancel>>
    BY <1>1, <1>4, CallerMoves
    DEF ConnectAnnounce, ManualInv, UserExact, CallerPcs, ConnectPcs
  <2> QED
    BY <1>2, <2>1
    DEF UserExact, Ended, Connecting, Cancelled, LiveHb, OneConnection,
        ConnectedAsRegistered, Connected
<1>5. CASE ConnectDialFails(u)
  <2>1. /\ caller'[u].pc = "connectFailed" /\ Connecting /\ open = {}
        /\ UNCHANGED <<state, conn, agentID, open, hb, rc, heartbeatCancel>>
    BY <1>1, <1>5, CallerMoves
    DEF ConnectDialFails, ManualInv, UserExact, CallerPcs, ConnectPcs
  <2> QED
    BY <1>2, <2>1
    DEF UserExact, Connecting, Cancelled, LiveHb, OneConnection,
        ConnectedAsRegistered, Connected
<1>6. CASE ConnectDial(u)
  <2>1. /\ caller'[u].pc = "register" /\ Connecting /\ open = {}
        /\ conn' \in Conns /\ open' = {conn'}
        /\ UNCHANGED <<state, hb, rc, heartbeatCancel>>
    BY <1>1, <1>6, CallerMoves
    DEF ConnectDial, Dialled, FreshConns, ManualInv, UserExact, CallerPcs,
        ConnectPcs
  <2> QED
    BY <1>1, <1>2, <2>1
    DEF UserExact, Connecting, Cancelled, LiveHb, OneConnection,
        ConnectedAsRegistered, Connected
<1>7. CASE ConnectRegister(u)
  <2>1. /\ Connecting /\ conn # None
        /\ UNCHANGED <<state, conn, agentID, open, hb, rc, heartbeatCancel>>
    BY <1>7 DEF ConnectRegister, NilClient, ManualInv, UserExact
  <2>2. \/ caller'[u].pc = "registered" /\ caller'[u].id = conn
        \/ caller'[u].pc = "registerFailed"
    <3>1. CASE GoCaller(u, "registerFailed")
      BY <1>1, <3>1, CallerMoves DEF CallerPcs, ConnectPcs
    <3>2. CASE caller' = [caller EXCEPT ![u].pc = "registered", ![u].id = conn]
      BY <1>1, <3>2 DEF CallerRecs
    <3> QED
      BY <1>7, <2>1, <3>1, <3>2 DEF ConnectRegister, NilClient
  <2> QED
    BY <1>2, <2>1, <2>2
    DEF ManualInv, UserExact, Connecting, Cancelled, LiveHb, OneConnection,
        ConnectedAsRegistered, Connected
<1>8. CASE ConnectRegisterFailed(u)
  <2>1. Connecting /\ conn # None /\ OneConnection
    BY <1>8 DEF ConnectRegisterFailed, ManualInv, UserExact
  <2>2. /\ caller'[u].pc = "connectFailed" /\ open' = open \ {conn}
        /\ UNCHANGED <<state, conn, agentID, hb, rc, heartbeatCancel>>
    BY <1>1, <1>8, <2>1, CallerMoves
    DEF ConnectRegisterFailed, NilClient, CloseConn, CallerPcs, ConnectPcs
  <2>3. open' = {}
    BY <2>1, <2>2 DEF OneConnection
  <2> QED
    BY <1>2, <2>1, <2>2, <2>3
    DEF UserExact, Connecting, Cancelled, LiveHb, OneConnection,
        ConnectedAsRegistered, Connected
<1>9. CASE ConnectFail(u)
  <2>1. /\ caller'[u].pc = "idle" /\ Connecting /\ open = {}
        /\ state' = "disconnected"
        /\ UNCHANGED <<conn, agentID, open, hb, rc, heartbeatCancel>>
    BY <1>1, <1>9, CallerMoves DEF ConnectFail, ManualInv, UserExact, CallerPcs
  <2> QED
    BY <1>2, <2>1
    DEF UserExact, Ended, Connecting, Cancelled, LiveHb, OneConnection,
        ConnectedAsRegistered, Connected
<1>10. CASE ConnectSetID(u)
  <2>1. /\ Connecting /\ conn # None /\ caller[u].id = conn
        /\ agentID' = caller[u].id
        /\ UNCHANGED <<state, conn, open, hb, rc, heartbeatCancel>>
    BY <1>10 DEF ConnectSetID, ManualInv, UserExact
  <2>2. caller'[u].pc = "announce"
    BY <1>1, <1>10 DEF ConnectSetID, CallerRecs
  <2> QED
    BY <1>2, <2>1, <2>2
    DEF ManualInv, UserExact, Connecting, Cancelled, LiveHb, OneConnection,
        ConnectedAsRegistered, Connected
<1>11. CASE ConnectSetConnected(u)
  <2>1. /\ caller'[u].pc = "startHeartbeat" /\ Connecting /\ conn # None
        /\ agentID = conn /\ state' = "connected"
        /\ UNCHANGED <<conn, agentID, open, hb, rc, heartbeatCancel>>
    BY <1>1, <1>11, CallerMoves
    DEF ConnectSetConnected, ManualInv, UserExact, CallerPcs, ConnectPcs
  <2> QED
    BY <1>2, <2>1
    DEF ManualInv, UserExact, Connecting, Cancelled, LiveHb, OneConnection,
        ConnectedAsRegistered, Connected
<1>12. CASE ConnectStartHeartbeat(u)
  <2>1. /\ caller'[u].pc = "idle" /\ Connected /\ Cancelled
        /\ UNCHANGED <<state, conn, agentID, open, rc>>
    BY <1>1, <1>12, CallerMoves
    DEF ConnectStartHeartbeat, ManualInv, UserExact, CallerPcs
  <2>2. PICK h \in HbLoops : StartLoop(h)
    BY <1>12 DEF ConnectStartHeartbeat
  <2>3. /\ heartbeatCancel' = h /\ hb'[h].pc = "select"
        /\ \A g \in HbLoops : g # h => hb'[g] = hb[g]
    BY <1>1, <2>2 DEF StartLoop
  <2>4. HeartbeatOwned' /\ \A g \in LiveHb' : hb'[g].pc = "select"
    BY <2>1, <2>3 DEF ManualInv, Cancelled, LiveHb, HeartbeatOwned
  <2> QED
    BY <2>1, <2>4
    DEF ManualInv, UserExact, LiveRc, OneConnection, ConnectedAsRegistered,
        Connected
<1> QED
  BY <1>3, <1>4, <1>5, <1>6, <1>7, <1>8, <1>9, <1>10, <1>11, <1>12

\* Close keeps it,
LEMMA CloseKeepsManual ==
  ASSUME NEW u, OneUser(u), TypeInv, ManualInv(u),
         \/ CloseNothing(u) \/ CloseBegin(u) \/ CloseDisconnect(u)
         \/ CloseSetState(u) \/ CloseEnd(u)
  PROVE  ManualInv(u)'
<1> USE DEF At, SetState, shared, agentVars, netVars
<1>1. /\ caller \in [Callers -> CallerRecs] /\ u \in Callers
      /\ hb \in [HbLoops -> HbRecs] /\ rc \in [RcLoops -> RcRecs]
  BY DEF OneUser, TypeInv, TypeOK
<1>2. CASE CloseNothing(u)
  <2>1. LiveRc' = LiveRc
    BY <1>1, <1>2, StopMoves DEF CloseNothing, LiveRc
  <2> QED
    BY <1>2, <2>1
    DEF CloseNothing, ManualInv, UserExact, Ended, Connecting, Cancelled,
        LiveHb, OneConnection, ConnectedAsRegistered, HeartbeatOwned, Connected
<1>3. CASE CloseBegin(u)
  <2>1. /\ UNCHANGED <<state, conn, agentID, open, heartbeatCancel>>
        /\ Connected
    BY <1>3 DEF CloseBegin, CanCall, ManualInv, UserExact, Ended
  <2>2. LiveRc' = {}
    BY <1>1, <1>3, StopMoves DEF CloseBegin, LiveRc, ManualInv
  <2>3. caller'[u].pc = "disconnect" /\ caller'[u].conn = conn
    BY <1>1, <1>3 DEF CloseBegin, CallerRecs
  <2>4. \A h \in HbLoops :
          /\ hb'[h].pc = hb[h].pc
          /\ hb'[h].done = (hb[h].done \/ h = heartbeatCancel)
    BY <1>1, <1>3 DEF CloseBegin, HbRecs
  <2>5. LiveHb' = LiveHb /\ Cancelled'
    BY <2>1, <2>4 DEF LiveHb, ManualInv, HeartbeatOwned, Cancelled
  <2> QED
    BY <2>1, <2>2, <2>3, <2>4, <2>5
    DEF ManualInv, UserExact, Cancelled, LiveHb, OneConnection,
        ConnectedAsRegistered, HeartbeatOwned, Connected
<1>4. ASSUME UNCHANGED <<hb, rc, heartbeatCancel>>, UserExact(u)',
             OneConnection', ConnectedAsRegistered'
      PROVE  ManualInv(u)'
  BY <1>4 DEF ManualInv, LiveHb, LiveRc, HeartbeatOwned
<1>5. CASE CloseDisconnect(u)
  <2>1. /\ UNCHANGED <<state, conn, agentID, open, hb, rc, heartbeatCancel>>
        /\ caller[u].pc = "disconnect"
        /\ caller'[u].pc = "closeState" /\ caller'[u].conn = caller[u].conn
    BY <1>1, <1>5, CallerMoves DEF CloseDisconnect, CallerPcs, ClosePcs
  <2> QED
    BY <1>4, <2>1
    DEF ManualInv, UserExact, Cancelled, LiveHb, OneConnection,
        ConnectedAsRegistered, Connected
<1>6. CASE CloseSetState(u)
  <2>1. /\ UNCHANGED <<conn, agentID, open, hb, rc, heartbeatCancel>>
        /\ state' = "disconnected" /\ caller[u].pc = "closeState"
        /\ caller'[u].pc = "closeConn" /\ caller'[u].conn = caller[u].conn
    BY <1>1, <1>6, CallerMoves DEF CloseSetState, CallerPcs, ClosePcs
  <2> QED
    BY <1>4, <2>1
    DEF ManualInv, UserExact, Cancelled, LiveHb, OneConnection,
        ConnectedAsRegistered, Connected
<1>7. CASE CloseEnd(u)
  <2>1. /\ UNCHANGED <<state, conn, agentID, hb, rc, heartbeatCancel>>
        /\ open' = open \ {caller[u].conn} /\ caller[u].pc = "closeConn"
    BY <1>7 DEF CloseEnd, CloseConn
  <2>2. caller'[u].pc = "idle"
    BY <1>1, <1>7 DEF CloseEnd, CallerRecs
  <2>3. open' = {}
    BY <2>1 DEF ManualInv, UserExact, OneConnection
  <2> QED
    BY <1>4, <2>1, <2>2, <2>3
    DEF ManualInv, UserExact, Ended, Cancelled, LiveHb, OneConnection,
        ConnectedAsRegistered, Connected
<1> QED
  BY <1>2, <1>3, <1>5, <1>6, <1>7

\* and so do the other methods,
LEMMA UseKeepsManual ==
  ASSUME NEW u, OneUser(u), TypeInv, ManualInv(u),
         \/ SubscribeCall(u) \/ SubscribeTrack(u) \/ CallCheck(u) \/ CallRpc(u)
         \/ \E s \in Subs : SubscribeCheck(u, s) \/ Unsubscribe(u, s)
  PROVE  ManualInv(u)'
<1> USE DEF At, CanCall, shared, agentVars, netVars
<1>1. caller \in [Callers -> CallerRecs] /\ u \in Callers
  BY DEF OneUser, TypeInv, TypeOK
<1> DEFINE Outside == {"idle", "subscribe", "track", "call"}
<1>2. UNCHANGED <<state, conn, agentID, open, hb, rc, heartbeatCancel>>
  BY DEF SubscribeCall, SubscribeTrack, CallCheck, CallRpc, SubscribeCheck,
         Unsubscribe, NilClient, OpenStream
<1>3. \/ UNCHANGED caller
      \/ Connected /\ caller'[u].pc \in Outside
  <2>1. \/ UNCHANGED caller
        \/ /\ Connected
           /\ \/ \E pc \in Outside : GoCaller(u, pc)
              \/ \E pc \in Outside, s \in Subs \cup {None} :
                   caller' = [caller EXCEPT ![u].pc = pc, ![u].sub = s]
    BY DEF SubscribeCall, SubscribeTrack, CallCheck, CallRpc, SubscribeCheck,
           Unsubscribe, NilClient, ManualInv, UserExact
  <2> QED
    BY <1>1, <2>1 DEF GoCaller, CallerRecs
<1>4. UserExact(u)'
  <2>1. CASE UNCHANGED caller
    BY <1>2, <2>1
    DEF ManualInv, UserExact, Ended, Connecting, Cancelled, LiveHb, Connected
  <2>2. CASE Connected /\ caller'[u].pc \in Outside
    BY <1>2, <2>2 DEF UserExact, Connected
  <2> QED
    BY <1>3, <2>1, <2>2
<1> QED
  BY <1>2, <1>4
  DEF ManualInv, LiveHb, LiveRc, OneConnection, ConnectedAsRegistered,
      HeartbeatOwned, Connected

\* the heartbeat loops, of which only those that are cancelled end, and the
\* network.
LEMMA HbKeepsManual ==
  ASSUME NEW u, OneUser(u), TypeInv, ManualInv(u),
         \/ \E h \in HbLoops : HbStep(h) \/ HbTick(h)
         \/ StreamLost \/ Rest \/ UNCHANGED vars
  PROVE  ManualInv(u)'
<1> USE DEF HbAt, SetState, shared, agentVars, netVars
<1>1. hb \in [HbLoops -> HbRecs]
  BY DEF TypeInv, TypeOK
<1>2. ASSUME NEW h \in HbLoops, HbExit(h)
      PROVE  ManualInv(u)'
  <2>1. /\ UNCHANGED <<state, conn, agentID, open, caller, rc, heartbeatCancel>>
        /\ hb[h].done
    BY <1>2 DEF HbExit
  <2>2. \A g \in HbLoops :
          /\ hb'[g].pc = IF g = h THEN "idle" ELSE hb[g].pc
          /\ hb'[g].done = hb[g].done
    BY <1>1, <1>2, HbMoves DEF HbExit, HbPcs
  <2>3. LiveHb' \subseteq LiveHb
    BY <2>2 DEF LiveHb
  <2>4. /\ \A g \in LiveHb' : hb'[g].pc = "select"
        /\ HeartbeatOwned' /\ (Cancelled => Cancelled')
    BY <2>1, <2>2, <2>3 DEF ManualInv, HeartbeatOwned, Cancelled, LiveHb
  <2> QED
    BY <2>1, <2>4
    DEF ManualInv, UserExact, Ended, Connecting, LiveRc, OneConnection,
        ConnectedAsRegistered, Connected
<1>3. CASE \A h \in HbLoops : ~HbExit(h)
  <2>1. ASSUME NEW h \in HbLoops
        PROVE  ~(TriggerCheck(h) \/ TriggerSetState(h) \/ TriggerSpawn(h))
    BY DEF ManualInv, LiveHb, TriggerCheck, TriggerSetState, TriggerSpawn
  <2>2. ASSUME NEW h \in HbLoops, HbErr(h)
        PROVE  UNCHANGED <<hb, caller, rc, shared>>
    <3>1. hb[h].pc = "select" /\ hb' = [hb EXCEPT ![h].pc = "select"]
      BY <2>2 DEF OneUser, HbErr, GoHb
    <3>2. hb' = hb
      BY <1>1, <3>1 DEF HbRecs
    <3> QED
      BY <2>2, <3>2 DEF HbErr
  <2>3. UNCHANGED <<state, conn, agentID, open, caller, hb, rc, heartbeatCancel>>
    BY <1>3, <2>1, <2>2
    DEF HbStep, HbTick, HbOk, HbNil, NilClient, StreamLost, Rest, vars
  <2> QED
    BY <2>3
    DEF ManualInv, UserExact, Ended, Connecting, Cancelled, LiveHb, LiveRc,
        OneConnection, ConnectedAsRegistered, HeartbeatOwned, Connected
<1> QED
  BY <1>2, <1>3

\* There is no reconnect loop.
LEMMA NextKeepsManual ==
  ASSUME NEW u, OneUser(u), TypeInv, ManualInv(u), [Next]_vars
  PROVE  ManualInv(u)'
<1>1. ASSUME NEW c \in Callers, CallerStart(c) \/ CallerStep(c)
      PROVE  ManualInv(u)'
  <2>1. c = u
    BY DEF OneUser
  <2> QED
    BY <1>1, <2>1, ConnectKeepsManual, CloseKeepsManual, UseKeepsManual
    DEF CallerStart, CallerStep
<1>2. ASSUME NEW r \in RcLoops
      PROVE  ~RcStep(r)
  BY DEF ManualInv, LiveRc, RcAt, RcStep, RcCancelled, RcExhausted, RcGiveUp,
         RcAttempt, RcDropConn, RcDialFails, RcDial, RcRegisterOk,
         RcRegisterFails, RcCloseConn, RcForgetConn, RcSetID, RcResubscribe,
         RcResubscribeCall, RcResubscribeTrack, RcResubscribed,
         RcSetConnected, RcStartHeartbeat
<1> QED
  BY <1>1, <1>2, HbKeepsManual DEF Next

\* It holds throughout.
LEMMA ManualInvariant ==
  ASSUME NEW u, OneUser(u)
  PROVE  Spec => [](TypeInv /\ ManualInv(u))
<1>1. Init => ManualInv(u)
  BY InitManual
<1>2. TypeInv /\ ManualInv(u) /\ [Next]_vars => ManualInv(u)'
  BY NextKeepsManual
<1> QED
  BY <1>1, <1>2, TypesAndSessions, PTL DEF Spec

\* Close cancels the loop of the session it ends, however many earlier loops
\* have not noticed yet that they are cancelled.
THEOREM ManualHeartbeatIsOwned ==
  ASSUME NEW u, OneUser(u)
  PROVE  Spec => []HeartbeatOwned
<1>1. ManualInv(u) => HeartbeatOwned
  BY DEF ManualInv
<1> QED
  BY <1>1, ManualInvariant, PTL

\* Whether Connect fails or Close ends the session, no connection stays open.
THEOREM ManualCloseIsComplete ==
  ASSUME NEW u, OneUser(u)
  PROVE  Spec => []DisconnectedIsClosed
<1>1. ManualInv(u) => DisconnectedIsClosed
  BY DEF OneUser, ManualInv, UserExact, Ended, Connected, DisconnectedIsClosed,
         Quiet
<1> QED
  BY <1>1, ManualInvariant, PTL

\* A step of the user goroutine is one of the lifecycle, and the loops take
\* none.
LEMMA ManualPhases ==
  ASSUME NEW u, OneUser(u), TypeInv, ManualInv(u), [Next]_vars
  PROVE  [PhaseStep]_vars
<1> USE DEF At, HbAt, RcAt, SetState, shared, agentVars, PhaseStep
<1>1. ASSUME CallerStart(u) \/ CallerStep(u)
      PROVE  PhaseStep
  <2>1. CASE ConnectAnnounce(u)
    BY <2>1 DEF ConnectAnnounce, ManualInv, UserExact, Ended
  <2>2. CASE ConnectFail(u) \/ CloseSetState(u)
    BY <2>2 DEF ConnectFail, CloseSetState
  <2>3. CASE ConnectSetID(u)
    BY <2>3 DEF ConnectSetID, ManualInv, UserExact, Connecting, Connected
  <2>4. CASE ConnectSetConnected(u)
    <3>1. state = "connecting" /\ agentID = conn /\ conn # None
      BY <2>4 DEF ConnectSetConnected, ManualInv, UserExact, Connecting
    <3> QED
      BY <2>4, <3>1 DEF ConnectSetConnected, TypeInv, TypeOK
  <2>5. CASE \/ ConnectCheck(u) \/ ConnectDialFails(u) \/ ConnectDial(u)
             \/ ConnectRegister(u) \/ ConnectRegisterFailed(u)
             \/ ConnectStartHeartbeat(u) \/ CloseNothing(u) \/ CloseBegin(u)
             \/ CloseDisconnect(u) \/ CloseEnd(u)
    BY <2>5
    DEF ConnectCheck, ConnectDialFails, ConnectDial, Dialled, ConnectRegister,
        ConnectRegisterFailed, ConnectStartHeartbeat, CloseNothing, CloseBegin,
        CloseDisconnect, CloseEnd, NilClient
  <2>6. CASE \/ SubscribeCall(u) \/ SubscribeTrack(u) \/ CallCheck(u)
             \/ CallRpc(u)
             \/ \E s \in Subs : SubscribeCheck(u, s) \/ Unsubscribe(u, s)
    BY <2>6 DEF SubscribeCall, SubscribeTrack, CallCheck, CallRpc,
                SubscribeCheck, Unsubscribe, NilClient
  <2> QED
    BY <1>1, <2>1, <2>2, <2>3, <2>4, <2>5, <2>6 DEF CallerStart, CallerStep
<1>2. ASSUME NEW h \in HbLoops, HbStep(h) \/ HbTick(h)
      PROVE  PhaseStep
  <2>1. ~TriggerSetState(h)
    BY DEF ManualInv, LiveHb, TriggerSetState
  <2> QED
    BY <1>2, <2>1 DEF HbStep, HbTick, HbExit, TriggerCheck, TriggerSpawn,
                      HbOk, HbNil, HbErr, NilClient, vars
<1>3. ASSUME NEW r \in RcLoops
      PROVE  ~RcStep(r)
  BY DEF ManualInv, LiveRc, RcStep, RcCancelled, RcExhausted, RcGiveUp,
         RcAttempt, RcDropConn, RcDialFails, RcDial, RcRegisterOk,
         RcRegisterFails, RcCloseConn, RcForgetConn, RcSetID, RcResubscribe,
         RcResubscribeCall, RcResubscribeTrack, RcResubscribed,
         RcSetConnected, RcStartHeartbeat
<1>4. CASE StreamLost \/ Rest
  BY <1>4 DEF StreamLost, Rest, vars
<1> QED
  BY <1>1, <1>2, <1>3, <1>4 DEF Next, OneUser

\* The agent goes through the documented phases as often as it is connected and
\* closed.
THEOREM ManualAgentImplementsLifecycle ==
  ASSUME NEW u, OneUser(u)
  PROVE  Spec => ImplementsLifecycle
<1>1. TypeInv /\ ManualInv(u) /\ [Next]_vars => [PhaseStep]_vars
  BY ManualPhases
<1>2. Spec => [][PhaseStep]_vars
  BY <1>1, ManualInvariant, PTL DEF Spec
<1> QED
  BY <1>2, StepsRefine, PTL
=============================================================================
