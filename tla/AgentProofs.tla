---------------------------- MODULE AgentProofs ----------------------------
(***************************************************************************)
(* Theorems about Agent for all values of its constants: first in any use  *)
(* of it, then when the application has one session at a time.             *)
(***************************************************************************)
EXTENDS Agent, FiniteSetTheorems, TLAPS

-----------------------------------------------------------------------------
(* Type correctness *)

\* Type correctness is inductive together with this: a goroutine that has a
\* subscription in hand knows which.
CallerSubs ==
  \A c \in Callers :
    caller[c].pc \in {"subscribe", "track"} => caller[c].sub \in Subs
RcSubs ==
  \A r \in RcLoops :
    rc[r].pc \in {"resubscribeCall", "resubscribeTrack"} => rc[r].sub \in Subs
SubInFlight == CallerSubs /\ RcSubs

TypeInv == TypeOK /\ SubInFlight

\* A goroutine that moves on keeps its other locals, and theirs the others.
LEMMA CallerMoves ==
  ASSUME caller \in [Callers -> CallerRecs], NEW c \in Callers,
         NEW pc \in CallerPcs, GoCaller(c, pc)
  PROVE  /\ caller' \in [Callers -> CallerRecs]
         /\ \A d \in Callers :
              /\ caller'[d].pc = IF d = c THEN pc ELSE caller[d].pc
              /\ caller'[d].sub = caller[d].sub
              /\ caller'[d].id = caller[d].id
              /\ caller'[d].conn = caller[d].conn
  BY DEF GoCaller, CallerRecs

\* The same for a heartbeat loop,
LEMMA HbMoves ==
  ASSUME hb \in [HbLoops -> HbRecs], NEW h \in HbLoops, NEW pc \in HbPcs,
         GoHb(h, pc)
  PROVE  /\ hb' \in [HbLoops -> HbRecs]
         /\ \A g \in HbLoops :
              /\ hb'[g].pc = IF g = h THEN pc ELSE hb[g].pc
              /\ hb'[g].done = hb[g].done
  BY DEF GoHb, HbRecs

\* for a reconnect loop,
LEMMA RcMoves ==
  ASSUME rc \in [RcLoops -> RcRecs], NEW r \in RcLoops, NEW pc \in RcPcs,
         GoRc(r, pc)
  PROVE  /\ rc' \in [RcLoops -> RcRecs]
         /\ \A q \in RcLoops :
              /\ rc'[q].pc = IF q = r THEN pc ELSE rc[q].pc
              /\ rc'[q].sub = rc[q].sub
              /\ rc'[q].id = rc[q].id
              /\ rc'[q].done = rc[q].done
              /\ rc'[q].attempt = rc[q].attempt
  BY DEF GoRc, RcRecs

\* and for a reconnect loop that counts an attempt that failed.
LEMMA RetryMoves ==
  ASSUME rc \in [RcLoops -> RcRecs], NEW r \in RcLoops, Retry(r)
  PROVE  /\ rc' \in [RcLoops -> RcRecs]
         /\ \A q \in RcLoops :
              /\ rc'[q].pc = IF q = r THEN "top" ELSE rc[q].pc
              /\ rc'[q].sub = rc[q].sub
              /\ rc'[q].done = rc[q].done
<1> DEFINE n == IF MaxRetries = 0 THEN 0 ELSE rc[r].attempt + 1
<1>1. n \in Nat
  BY DEF RcRecs
<1>2. rc' = [rc EXCEPT ![r].pc = "top", ![r].attempt = n]
  BY DEF Retry
<1> HIDE DEF n
<1> DEFINE rec == [rc[r] EXCEPT !.pc = "top", !.attempt = n]
<1>3. /\ rec \in RcRecs /\ rec.pc = "top" /\ rec.sub = rc[r].sub
      /\ rec.done = rc[r].done
  BY <1>1 DEF RcRecs, RcPcs
<1>4. rc' = [rc EXCEPT ![r] = rec]
  BY <1>2
<1> HIDE DEF rec
<1> QED
  BY <1>3, <1>4

\* Cancelling a reconnect loop moves nobody.
LEMMA StopMoves ==
  ASSUME rc \in [RcLoops -> RcRecs], StopReconnect
  PROVE  /\ rc' \in [RcLoops -> RcRecs]
         /\ \A q \in RcLoops :
              /\ rc'[q].pc = rc[q].pc
              /\ rc'[q].sub = rc[q].sub
              /\ rc'[q].id = rc[q].id
              /\ rc'[q].attempt = rc[q].attempt
  BY DEF StopReconnect, RcRecs

\* Every step of a user goroutine keeps the types.
LEMMA CallerKeepsType ==
  ASSUME TypeInv, NEW c \in Callers, CallerStart(c) \/ CallerStep(c)
  PROVE  TypeInv'
<1>1. /\ caller \in [Callers -> CallerRecs]
      /\ hb \in [HbLoops -> HbRecs]
      /\ rc \in [RcLoops -> RcRecs]
      /\ conn \in Conns \cup {None}
      /\ subscriptions \in SUBSET Subs
      /\ SubInFlight
  BY DEF TypeInv, TypeOK
<1>2. CASE ConnectCheck(c)
  <2>1. /\ caller' \in [Callers -> CallerRecs]
        /\ CallerSubs'
    BY <1>1, <1>2, CallerMoves
    DEF ConnectCheck, CallerPcs, ConnectPcs, ClosePcs, SubInFlight, CallerSubs
  <2> QED
    BY <1>1, <1>2, <2>1
    DEF ConnectCheck, CanCall, At, agentVars, netVars, TypeInv, TypeOK,
        SubInFlight, CallerSubs, RcSubs, shared
<1>3. CASE ConnectAnnounce(c)
  <2>1. /\ caller' \in [Callers -> CallerRecs]
        /\ CallerSubs'
    BY <1>1, <1>3, CallerMoves
    DEF ConnectAnnounce, CallerPcs, ConnectPcs, ClosePcs, SubInFlight,
        CallerSubs
  <2> QED
    BY <1>1, <1>3, <2>1
    DEF ConnectAnnounce, At, agentVars, netVars, TypeInv, TypeOK, SubInFlight,
        CallerSubs, RcSubs, SetState, States
<1>4. CASE ConnectDialFails(c)
  <2>1. /\ caller' \in [Callers -> CallerRecs]
        /\ CallerSubs'
    BY <1>1, <1>4, CallerMoves
    DEF ConnectDialFails, CallerPcs, ConnectPcs, ClosePcs, SubInFlight,
        CallerSubs
  <2> QED
    BY <1>1, <1>4, <2>1
    DEF ConnectDialFails, At, agentVars, netVars, TypeInv, TypeOK,
        SubInFlight, CallerSubs, RcSubs, shared
<1>5. CASE ConnectDial(c)
  <2>1. /\ caller' \in [Callers -> CallerRecs]
        /\ CallerSubs'
    BY <1>1, <1>5, CallerMoves
    DEF ConnectDial, CallerPcs, ConnectPcs, ClosePcs, SubInFlight, CallerSubs
  <2> QED
    BY <1>1, <1>5, <2>1
    DEF ConnectDial, At, agentVars, netVars, TypeInv, TypeOK, SubInFlight,
        CallerSubs, RcSubs, Dialled, FreshConns
<1>6. CASE ConnectRegister(c)
  <2>1. caller' \in [Callers -> CallerRecs] /\ CallerSubs'
    <3>1. CASE GoCaller(c, "registerFailed")
      BY <1>1, <3>1, CallerMoves
      DEF CallerPcs, ConnectPcs, SubInFlight, CallerSubs
    <3>2. CASE caller' = [caller EXCEPT ![c].pc = "registered", ![c].id = conn]
      <4> DEFINE rec == [caller[c] EXCEPT !.pc = "registered", !.id = conn]
      <4>3. rec \in CallerRecs
        BY <1>1 DEF CallerRecs, CallerPcs, ConnectPcs
      <4>4. caller' = [caller EXCEPT ![c] = rec]
        BY <1>1, <3>2
      <4>1. caller' \in [Callers -> CallerRecs]
        BY <1>1, <4>3, <4>4
      <4>2. CallerSubs'
        BY <1>1, <3>2 DEF CallerRecs, SubInFlight, CallerSubs
      <4> QED
        BY <4>1, <4>2
    <3>3. CASE NilClient
      BY <1>1, <3>3 DEF NilClient, SubInFlight, CallerSubs
    <3> QED
      BY <1>6, <3>1, <3>2, <3>3 DEF ConnectRegister
  <2> QED
    BY <1>1, <1>6, <2>1
    DEF ConnectRegister, NilClient, agentVars, netVars, TypeInv, TypeOK,
        SubInFlight, RcSubs, shared
<1>7. CASE ConnectRegisterFailed(c)
  <2>1. /\ caller' \in [Callers -> CallerRecs]
        /\ CallerSubs'
    BY <1>1, <1>7, CallerMoves
    DEF ConnectRegisterFailed, NilClient, CallerPcs, ConnectPcs, ClosePcs,
        SubInFlight, CallerSubs
  <2> QED
    BY <1>1, <1>7, <2>1
    DEF ConnectRegisterFailed, At, NilClient, CloseConn, agentVars, netVars,
        TypeInv, TypeOK, SubInFlight, CallerSubs, RcSubs
<1>8. CASE ConnectFail(c)
  <2>1. /\ caller' \in [Callers -> CallerRecs]
        /\ CallerSubs'
    BY <1>1, <1>8, CallerMoves
    DEF ConnectFail, CallerPcs, ConnectPcs, ClosePcs, SubInFlight, CallerSubs
  <2> QED
    BY <1>1, <1>8, <2>1
    DEF ConnectFail, At, agentVars, netVars, TypeInv, TypeOK, SubInFlight,
        CallerSubs, RcSubs, SetState, States
<1>9. CASE ConnectSetID(c)
  <2>1. caller' \in [Callers -> CallerRecs]
    <3> DEFINE rec == [caller[c] EXCEPT !.pc = "announce", !.id = None]
    <3>1. rec \in CallerRecs
      BY <1>1 DEF CallerRecs, CallerPcs, ConnectPcs
    <3>2. caller' = [caller EXCEPT ![c] = rec]
      BY <1>1, <1>9 DEF ConnectSetID
    <3> QED
      BY <1>1, <3>1, <3>2
  <2>2. CallerSubs'
    BY <1>1, <1>9 DEF ConnectSetID, CallerRecs, SubInFlight, CallerSubs
  <2> QED
    BY <1>1, <1>9, <2>1, <2>2
    DEF ConnectSetID, At, CallerRecs, agentVars, netVars, TypeInv, TypeOK,
        SubInFlight, CallerSubs, RcSubs
<1>10. CASE ConnectSetConnected(c)
  <2>1. /\ caller' \in [Callers -> CallerRecs]
        /\ CallerSubs'
    BY <1>1, <1>10, CallerMoves
    DEF ConnectSetConnected, CallerPcs, ConnectPcs, ClosePcs, SubInFlight,
        CallerSubs
  <2> QED
    BY <1>1, <1>10, <2>1
    DEF ConnectSetConnected, At, agentVars, netVars, TypeInv, TypeOK,
        SubInFlight, CallerSubs, RcSubs, SetState, States
<1>11. CASE ConnectStartHeartbeat(c)
  <2>1. /\ caller' \in [Callers -> CallerRecs]
        /\ CallerSubs'
    BY <1>1, <1>11, CallerMoves
    DEF ConnectStartHeartbeat, CallerPcs, ConnectPcs, ClosePcs, SubInFlight,
        CallerSubs
  <2>2. hb' \in [HbLoops -> HbRecs]
    BY <1>1, <1>11 DEF ConnectStartHeartbeat, StartLoop, HbRecs, HbPcs
  <2> QED
    BY <1>1, <1>11, <2>1, <2>2
    DEF ConnectStartHeartbeat, At, StartLoop, agentVars, netVars, TypeInv,
        TypeOK, SubInFlight, CallerSubs, RcSubs
<1>12. CASE CloseNothing(c)
  <2>1. /\ rc' \in [RcLoops -> RcRecs]
        /\ RcSubs'
    BY <1>1, <1>12, StopMoves DEF CloseNothing, RcPcs, SubInFlight, RcSubs
  <2> QED
    BY <1>1, <1>12, <2>1
    DEF CloseNothing, CanCall, At, StopReconnect, agentVars, netVars, TypeInv,
        TypeOK, SubInFlight, CallerSubs, RcSubs
<1>13. CASE CloseBegin(c)
  <2>1. caller' \in [Callers -> CallerRecs]
    <3> DEFINE rec == [caller[c] EXCEPT !.pc = "disconnect", !.conn = conn]
    <3>1. rec \in CallerRecs
      BY <1>1 DEF CallerRecs, CallerPcs, ClosePcs
    <3>2. caller' = [caller EXCEPT ![c] = rec]
      BY <1>1, <1>13 DEF CloseBegin
    <3> QED
      BY <1>1, <3>1, <3>2
  <2>2. CallerSubs'
    BY <1>1, <1>13 DEF CloseBegin, CallerRecs, SubInFlight, CallerSubs
  <2>3. /\ rc' \in [RcLoops -> RcRecs]
        /\ RcSubs'
    BY <1>1, <1>13, StopMoves DEF CloseBegin, RcPcs, SubInFlight, RcSubs
  <2>4. hb' \in [HbLoops -> HbRecs]
    BY <1>1, <1>13 DEF CloseBegin, HbRecs, HbPcs
  <2> QED
    BY <1>1, <1>13, <2>1, <2>2, <2>3, <2>4
    DEF CloseBegin, CanCall, At, StopReconnect, agentVars, netVars, TypeInv,
        TypeOK, SubInFlight, CallerSubs, RcSubs
<1>14. CASE CloseDisconnect(c)
  <2>1. /\ caller' \in [Callers -> CallerRecs]
        /\ CallerSubs'
    BY <1>1, <1>14, CallerMoves
    DEF CloseDisconnect, CallerPcs, ConnectPcs, ClosePcs, SubInFlight,
        CallerSubs
  <2> QED
    BY <1>1, <1>14, <2>1
    DEF CloseDisconnect, At, agentVars, netVars, TypeInv, TypeOK, SubInFlight,
        CallerSubs, RcSubs, shared
<1>15. CASE CloseSetState(c)
  <2>1. /\ caller' \in [Callers -> CallerRecs]
        /\ CallerSubs'
    BY <1>1, <1>15, CallerMoves
    DEF CloseSetState, CallerPcs, ConnectPcs, ClosePcs, SubInFlight,
        CallerSubs
  <2> QED
    BY <1>1, <1>15, <2>1
    DEF CloseSetState, At, agentVars, netVars, TypeInv, TypeOK, SubInFlight,
        CallerSubs, RcSubs, SetState, States
<1>16. CASE CloseEnd(c)
  <2>1. caller' \in [Callers -> CallerRecs]
    <3> DEFINE rec == [caller[c] EXCEPT !.pc = "idle", !.conn = None]
    <3>1. rec \in CallerRecs
      BY <1>1 DEF CallerRecs, CallerPcs
    <3>2. caller' = [caller EXCEPT ![c] = rec]
      BY <1>1, <1>16 DEF CloseEnd
    <3> QED
      BY <1>1, <3>1, <3>2
  <2>2. CallerSubs'
    BY <1>1, <1>16 DEF CloseEnd, CallerRecs, SubInFlight, CallerSubs
  <2> QED
    BY <1>1, <1>16, <2>1, <2>2
    DEF CloseEnd, At, CloseConn, CallerRecs, agentVars, netVars, TypeInv,
        TypeOK, SubInFlight, CallerSubs, RcSubs
<1>17. CASE SubscribeCall(c)
  <2>1. /\ caller' \in [Callers -> CallerRecs]
        /\ CallerSubs'
    <3>1. CASE GoCaller(c, "track")
      BY <1>1, <1>17, <3>1, CallerMoves
      DEF SubscribeCall, CallerPcs, SubInFlight, At, CallerSubs
    <3>2. CASE caller' = [caller EXCEPT ![c].pc = "idle", ![c].sub = None]
      <4> DEFINE rec == [caller[c] EXCEPT !.pc = "idle", !.sub = None]
      <4>3. rec \in CallerRecs
        BY <1>1 DEF CallerRecs, CallerPcs
      <4>4. caller' = [caller EXCEPT ![c] = rec]
        BY <1>1, <3>2
      <4>1. caller' \in [Callers -> CallerRecs]
        BY <1>1, <4>3, <4>4
      <4>2. CallerSubs'
        BY <1>1, <3>2 DEF CallerRecs, SubInFlight, CallerSubs
      <4> QED
        BY <4>1, <4>2
    <3>3. CASE NilClient
      BY <1>1, <3>3 DEF NilClient, SubInFlight, CallerSubs
    <3> QED
      BY <1>17, <3>1, <3>2, <3>3 DEF SubscribeCall
  <2>2. caller[c].sub \in Subs
    BY <1>1, <1>17 DEF SubscribeCall, At, SubInFlight, CallerSubs
  <2>3. streams' \in SUBSET (Subs \X Conns) /\ open' \in SUBSET Conns
    BY <2>2, <1>17
    DEF SubscribeCall, OpenStream, NilClient, netVars, TypeInv, TypeOK
  <2>4. handle' \in [Subs -> {"none", "pending", "active", "unsubscribed"}]
    BY <1>17 DEF SubscribeCall, NilClient, TypeInv, TypeOK
  <2> QED
    BY <1>1, <1>17, <2>1, <2>3, <2>4
    DEF SubscribeCall, NilClient, agentVars, TypeInv, TypeOK, SubInFlight,
        RcSubs
<1>18. CASE SubscribeTrack(c)
  <2>1. caller' \in [Callers -> CallerRecs]
    <3> DEFINE rec == [caller[c] EXCEPT !.pc = "idle", !.sub = None]
    <3>1. rec \in CallerRecs
      BY <1>1 DEF CallerRecs, CallerPcs
    <3>2. caller' = [caller EXCEPT ![c] = rec]
      BY <1>1, <1>18 DEF SubscribeTrack
    <3> QED
      BY <1>1, <3>1, <3>2
  <2>5. CallerSubs'
    BY <1>1, <1>18 DEF SubscribeTrack, CallerRecs, SubInFlight, CallerSubs
  <2>2. caller[c].sub \in Subs
    BY <1>1, <1>18 DEF SubscribeTrack, At, SubInFlight, CallerSubs
  <2>3. subscriptions' \in SUBSET Subs
    BY <1>1, <2>2, <1>18 DEF SubscribeTrack, Track
  <2>4. handle' \in [Subs -> {"none", "pending", "active", "unsubscribed"}]
    BY <1>18 DEF SubscribeTrack, TypeInv, TypeOK
  <2> QED
    BY <1>1, <1>18, <2>1, <2>3, <2>4, <2>5
    DEF SubscribeTrack, netVars, TypeInv, TypeOK, SubInFlight, RcSubs
<1>19. CASE CallCheck(c)
  <2>1. /\ caller' \in [Callers -> CallerRecs]
        /\ CallerSubs'
    BY <1>1, <1>19, CallerMoves
    DEF CallCheck, CallerPcs, ConnectPcs, ClosePcs, SubInFlight, CallerSubs
  <2> QED
    BY <1>1, <1>19, <2>1
    DEF CallCheck, CanCall, At, agentVars, netVars, TypeInv, TypeOK,
        SubInFlight, CallerSubs, RcSubs, shared
<1>20. CASE CallRpc(c)
  <2>1. /\ caller' \in [Callers -> CallerRecs]
        /\ CallerSubs'
    BY <1>1, <1>20, CallerMoves
    DEF CallRpc, NilClient, CallerPcs, ConnectPcs, ClosePcs, SubInFlight,
        CallerSubs, shared
  <2> QED
    BY <1>1, <1>20, <2>1
    DEF CallRpc, At, NilClient, agentVars, netVars, TypeInv, TypeOK,
        SubInFlight, CallerSubs, RcSubs, shared
<1>21. ASSUME NEW s \in Subs, SubscribeCheck(c, s) PROVE TypeInv'
  <2>1. caller' \in [Callers -> CallerRecs] /\ CallerSubs'
    <3> DEFINE rec == [caller[c] EXCEPT !.pc = "subscribe", !.sub = s]
    <3>1. rec \in CallerRecs /\ rec.sub = s
      BY <1>1 DEF CallerRecs, CallerPcs
    <3>2. caller' = [caller EXCEPT ![c] = rec]
      BY <1>1, <1>21 DEF SubscribeCheck
    <3> HIDE DEF rec
    <3> QED
      BY <1>1, <3>1, <3>2 DEF SubInFlight, CallerSubs
  <2> QED
    BY <1>1, <1>21, <2>1
    DEF SubscribeCheck, agentVars, netVars, TypeInv, TypeOK, SubInFlight,
        RcSubs
<1>22. ASSUME NEW s \in Subs, Unsubscribe(c, s) PROVE TypeInv'
  BY <1>22
  DEF Unsubscribe, Untrack, netVars, TypeInv, TypeOK, SubInFlight,
      CallerSubs, RcSubs
<1> QED
  BY <1>2, <1>3, <1>4, <1>5, <1>6, <1>7, <1>8, <1>9, <1>10, <1>11, <1>12,
     <1>13, <1>14, <1>15, <1>16, <1>17, <1>18, <1>19, <1>20, <1>21, <1>22
  DEF CallerStart, CallerStep

\* So does every step of a heartbeat loop.
LEMMA HbKeepsType ==
  ASSUME TypeInv, NEW h \in HbLoops, HbStep(h) \/ HbTick(h)
  PROVE  TypeInv'
<1>1. /\ caller \in [Callers -> CallerRecs]
      /\ hb \in [HbLoops -> HbRecs]
      /\ rc \in [RcLoops -> RcRecs]
      /\ conn \in Conns \cup {None}
      /\ subscriptions \in SUBSET Subs
      /\ SubInFlight
  BY DEF TypeInv, TypeOK
<1>2. CASE HbExit(h)
  <2>1. hb' \in [HbLoops -> HbRecs]
    BY <1>1, <1>2, HbMoves DEF HbExit, HbPcs
  <2> QED
    BY <1>1, <1>2, <2>1
    DEF HbExit, HbAt, agentVars, netVars, TypeInv, TypeOK, SubInFlight,
        CallerSubs, RcSubs, shared
<1>3. CASE TriggerCheck(h)
  <2>1. hb' \in [HbLoops -> HbRecs]
    BY <1>1, <1>3, HbMoves DEF TriggerCheck, HbPcs
  <2> QED
    BY <1>1, <1>3, <2>1
    DEF TriggerCheck, HbAt, agentVars, netVars, TypeInv, TypeOK, SubInFlight,
        CallerSubs, RcSubs
<1>4. CASE TriggerSetState(h)
  <2>1. hb' \in [HbLoops -> HbRecs]
    BY <1>1, <1>4, HbMoves DEF TriggerSetState, HbPcs
  <2> QED
    BY <1>1, <1>4, <2>1
    DEF TriggerSetState, HbAt, agentVars, netVars, TypeInv, TypeOK,
        SubInFlight, CallerSubs, RcSubs, SetState, States
<1>5. CASE TriggerSpawn(h)
  <2>1. rc' \in [RcLoops -> RcRecs]
    BY <1>1, <1>5 DEF TriggerSpawn, RcRecs, RcPcs
  <2>2. RcSubs'
    BY <1>1, <1>5 DEF TriggerSpawn, RcRecs, SubInFlight, RcSubs
  <2>3. hb' \in [HbLoops -> HbRecs]
    BY <1>1, <1>5, HbMoves DEF TriggerSpawn, HbPcs
  <2> QED
    BY <1>1, <1>5, <2>1, <2>2, <2>3
    DEF TriggerSpawn, HbAt, agentVars, netVars, TypeInv, TypeOK, SubInFlight,
        CallerSubs, RcSubs
<1>6. CASE HbOk(h)
  BY <1>1, <1>6
  DEF HbOk, HbAt, vars, agentVars, netVars, TypeInv, TypeOK, SubInFlight,
      CallerSubs, RcSubs, shared
<1>7. CASE HbNil(h)
  BY <1>1, <1>7
  DEF HbNil, HbAt, NilClient, agentVars, netVars, TypeInv, TypeOK,
      SubInFlight, CallerSubs, RcSubs
<1>8. CASE HbErr(h)
  <2>1. hb' \in [HbLoops -> HbRecs]
    BY <1>1, <1>8, HbMoves DEF HbErr, HbPcs
  <2> QED
    BY <1>1, <1>8, <2>1
    DEF HbErr, HbAt, agentVars, netVars, TypeInv, TypeOK, SubInFlight,
        CallerSubs, RcSubs, shared
<1> QED
  BY <1>2, <1>3, <1>4, <1>5, <1>6, <1>7, <1>8 DEF HbStep, HbTick

\* And every step of a reconnect loop.
LEMMA RcKeepsType ==
  ASSUME TypeInv, NEW r \in RcLoops, RcStep(r)
  PROVE  TypeInv'
<1>1. /\ caller \in [Callers -> CallerRecs]
      /\ hb \in [HbLoops -> HbRecs]
      /\ rc \in [RcLoops -> RcRecs]
      /\ conn \in Conns \cup {None}
      /\ subscriptions \in SUBSET Subs
      /\ SubInFlight
  BY DEF TypeInv, TypeOK
<1>2. CASE RcCancelled(r)
  <2>1. /\ rc' \in [RcLoops -> RcRecs]
        /\ RcSubs'
    BY <1>1, <1>2, RcMoves DEF RcCancelled, RcPcs, SubInFlight, RcSubs
  <2> QED
    BY <1>1, <1>2, <2>1
    DEF RcCancelled, RcAt, agentVars, netVars, TypeInv, TypeOK, SubInFlight,
        CallerSubs, RcSubs, shared
<1>3. CASE RcExhausted(r)
  <2>1. /\ rc' \in [RcLoops -> RcRecs]
        /\ RcSubs'
    BY <1>1, <1>3, RcMoves DEF RcExhausted, RcPcs, SubInFlight, RcSubs
  <2> QED
    BY <1>1, <1>3, <2>1
    DEF RcExhausted, RcAt, agentVars, netVars, TypeInv, TypeOK, SubInFlight,
        CallerSubs, RcSubs, shared
<1>4. CASE RcGiveUp(r)
  <2>1. /\ rc' \in [RcLoops -> RcRecs]
        /\ RcSubs'
    BY <1>1, <1>4, RcMoves DEF RcGiveUp, RcPcs, SubInFlight, RcSubs
  <2> QED
    BY <1>1, <1>4, <2>1
    DEF RcGiveUp, RcAt, agentVars, netVars, TypeInv, TypeOK, SubInFlight,
        CallerSubs, RcSubs, SetState, States
<1>5. CASE RcAttempt(r)
  <2>1. /\ rc' \in [RcLoops -> RcRecs]
        /\ RcSubs'
    BY <1>1, <1>5, RcMoves DEF RcAttempt, RcPcs, SubInFlight, RcSubs
  <2> QED
    BY <1>1, <1>5, <2>1
    DEF RcAttempt, RcAt, agentVars, netVars, TypeInv, TypeOK, SubInFlight,
        CallerSubs, RcSubs, shared
<1>6. CASE RcDropConn(r)
  <2>1. /\ rc' \in [RcLoops -> RcRecs]
        /\ RcSubs'
    BY <1>1, <1>6, RcMoves DEF RcDropConn, RcPcs, SubInFlight, RcSubs
  <2> QED
    BY <1>1, <1>6, <2>1
    DEF RcDropConn, RcAt, CloseConn, agentVars, netVars, TypeInv, TypeOK,
        SubInFlight, CallerSubs, RcSubs
<1>7. CASE RcDialFails(r)
  <2>1. /\ rc' \in [RcLoops -> RcRecs]
        /\ RcSubs'
    BY <1>1, <1>7, RetryMoves DEF RcDialFails, RcPcs, SubInFlight, RcSubs
  <2> QED
    BY <1>1, <1>7, <2>1
    DEF RcDialFails, RcAt, agentVars, netVars, TypeInv, TypeOK, SubInFlight,
        CallerSubs, RcSubs, shared
<1>8. CASE RcDial(r)
  <2>1. /\ rc' \in [RcLoops -> RcRecs]
        /\ RcSubs'
    BY <1>1, <1>8, RcMoves DEF RcDial, RcPcs, SubInFlight, RcSubs
  <2> QED
    BY <1>1, <1>8, <2>1
    DEF RcDial, RcAt, agentVars, netVars, TypeInv, TypeOK, SubInFlight,
        CallerSubs, RcSubs, Dialled, FreshConns
<1>9. CASE RcRegisterOk(r)
  <2>1. rc' \in [RcLoops -> RcRecs]
    <3> DEFINE rec == [rc[r] EXCEPT !.pc = "registered", !.id = conn]
    <3>1. rec \in RcRecs
      BY <1>1 DEF RcRecs, RcPcs
    <3>2. rc' = [rc EXCEPT ![r] = rec]
      BY <1>1, <1>9 DEF RcRegisterOk
    <3> QED
      BY <1>1, <3>1, <3>2
  <2>2. RcSubs'
    BY <1>1, <1>9 DEF RcRegisterOk, RcRecs, SubInFlight, RcSubs
  <2> QED
    BY <1>1, <1>9, <2>1, <2>2
    DEF RcRegisterOk, RcAt, agentVars, netVars, TypeInv, TypeOK, SubInFlight,
        CallerSubs, RcSubs, shared
<1>10. CASE RcRegisterFails(r)
  <2>1. /\ rc' \in [RcLoops -> RcRecs]
        /\ RcSubs'
    BY <1>1, <1>10, RcMoves
    DEF RcRegisterFails, NilClient, RcPcs, SubInFlight, RcSubs, shared
  <2> QED
    BY <1>1, <1>10, <2>1
    DEF RcRegisterFails, RcAt, NilClient, agentVars, netVars, TypeInv, TypeOK,
        SubInFlight, CallerSubs, RcSubs, shared
<1>11. CASE RcCloseConn(r)
  <2>1. /\ rc' \in [RcLoops -> RcRecs]
        /\ RcSubs'
    BY <1>1, <1>11, RcMoves
    DEF RcCloseConn, NilClient, RcPcs, SubInFlight, RcSubs
  <2> QED
    BY <1>1, <1>11, <2>1
    DEF RcCloseConn, RcAt, NilClient, CloseConn, agentVars, netVars, TypeInv,
        TypeOK, SubInFlight, CallerSubs, RcSubs
<1>12. CASE RcForgetConn(r)
  <2>1. /\ rc' \in [RcLoops -> RcRecs]
        /\ RcSubs'
    BY <1>1, <1>12, RetryMoves DEF RcForgetConn, RcPcs, SubInFlight, RcSubs
  <2> QED
    BY <1>1, <1>12, <2>1
    DEF RcForgetConn, RcAt, agentVars, netVars, TypeInv, TypeOK, SubInFlight,
        CallerSubs, RcSubs
<1>13. CASE RcSetID(r)
  <2>1. rc' \in [RcLoops -> RcRecs]
    <3> DEFINE rec == [rc[r] EXCEPT !.pc = "resubscribe", !.id = None,
                                    !.todo = subscriptions]
    <3>1. rec \in RcRecs
      BY <1>1 DEF RcRecs, RcPcs
    <3>2. rc' = [rc EXCEPT ![r] = rec]
      BY <1>1, <1>13 DEF RcSetID
    <3> QED
      BY <1>1, <3>1, <3>2
  <2>4. RcSubs'
    BY <1>1, <1>13 DEF RcSetID, RcRecs, SubInFlight, RcSubs
  <2>2. agentID' \in Conns \cup {None}
    BY <1>1, <1>13 DEF RcSetID, RcRecs
  <2> QED
    BY <1>1, <1>13, <2>1, <2>2, <2>4
    DEF RcSetID, netVars, TypeInv, TypeOK, SubInFlight, CallerSubs
<1>14. CASE RcResubscribe(r)
  <2>1. PICK s \in rc[r].todo :
          rc' = [rc EXCEPT ![r].todo = @ \ {s},
                           ![r].pc = IF Connected THEN "resubscribeCall"
                                                  ELSE @,
                           ![r].sub = IF Connected THEN s ELSE @]
    BY <1>14 DEF RcResubscribe
  <2> DEFINE pc == IF Connected THEN "resubscribeCall" ELSE rc[r].pc
             sub == IF Connected THEN s ELSE rc[r].sub
             rec == [rc[r] EXCEPT !.todo = @ \ {s}, !.pc = pc, !.sub = sub]
  <2>2. s \in Subs
    BY <1>1, <2>1 DEF RcRecs
  <2>3. pc \in RcPcs /\ sub \in Subs \cup {None}
    BY <1>1, <2>2 DEF RcRecs, RcPcs
  <2>4. pc \in {"resubscribeCall", "resubscribeTrack"} => sub \in Subs
    BY <1>1, <2>2 DEF SubInFlight, RcSubs
  <2>5. rc' = [rc EXCEPT ![r] = rec]
    BY <1>1, <2>1
  <2> HIDE DEF pc, sub
  <2>6. /\ rec \in RcRecs
        /\ rec.pc = pc /\ rec.sub = sub
    BY <1>1, <2>3 DEF RcRecs
  <2> HIDE DEF rec
  <2>7. rc' \in [RcLoops -> RcRecs]
    BY <1>1, <2>5, <2>6
  <2>8. RcSubs'
    BY <1>1, <2>4, <2>5, <2>6 DEF SubInFlight, RcSubs
  <2> QED
    BY <1>1, <1>14, <2>7, <2>8
    DEF RcResubscribe, agentVars, netVars, TypeInv, TypeOK, SubInFlight,
        CallerSubs, shared
<1>15. CASE RcResubscribeCall(r)
  <2>1. rc' \in [RcLoops -> RcRecs] /\ RcSubs'
    <3>1. CASE GoRc(r, "resubscribeTrack")
      BY <1>1, <1>15, <3>1, RcMoves
      DEF RcResubscribeCall, RcPcs, SubInFlight, RcAt, RcSubs
    <3>2. CASE rc' = [rc EXCEPT ![r].pc = "resubscribe", ![r].sub = None]
      <4> DEFINE rec == [rc[r] EXCEPT !.pc = "resubscribe", !.sub = None]
      <4>3. rec \in RcRecs
        BY <1>1 DEF RcRecs, RcPcs
      <4>4. rc' = [rc EXCEPT ![r] = rec]
        BY <1>1, <3>2
      <4>1. rc' \in [RcLoops -> RcRecs]
        BY <1>1, <4>3, <4>4
      <4>2. RcSubs'
        BY <1>1, <3>2 DEF RcRecs, SubInFlight, RcSubs
      <4> QED
        BY <4>1, <4>2
    <3>3. CASE NilClient
      BY <1>1, <3>3 DEF NilClient, SubInFlight, RcSubs
    <3> QED
      BY <1>15, <3>1, <3>2, <3>3 DEF RcResubscribeCall
  <2>2. rc[r].sub \in Subs
    BY <1>1, <1>15 DEF RcResubscribeCall, RcAt, SubInFlight, RcSubs
  <2>3. streams' \in SUBSET (Subs \X Conns) /\ open' \in SUBSET Conns
    BY <2>2, <1>15
    DEF RcResubscribeCall, OpenStream, NilClient, netVars, TypeInv, TypeOK,
        shared
  <2> QED
    BY <1>1, <1>15, <2>1, <2>3
    DEF RcResubscribeCall, NilClient, agentVars, TypeInv, TypeOK, SubInFlight,
        CallerSubs, shared
<1>16. CASE RcResubscribeTrack(r)
  <2>1. rc' \in [RcLoops -> RcRecs]
    <3> DEFINE rec == [rc[r] EXCEPT !.pc = "resubscribe", !.sub = None]
    <3>1. rec \in RcRecs
      BY <1>1 DEF RcRecs, RcPcs
    <3>2. rc' = [rc EXCEPT ![r] = rec]
      BY <1>1, <1>16 DEF RcResubscribeTrack
    <3> QED
      BY <1>1, <3>1, <3>2
  <2>4. RcSubs'
    BY <1>1, <1>16 DEF RcResubscribeTrack, RcRecs, SubInFlight, RcSubs
  <2>2. rc[r].sub \in Subs
    BY <1>1, <1>16 DEF RcResubscribeTrack, RcAt, SubInFlight, RcSubs
  <2>3. subscriptions' \in SUBSET Subs
    BY <1>1, <2>2, <1>16 DEF RcResubscribeTrack, Track
  <2> QED
    BY <1>1, <1>16, <2>1, <2>3, <2>4
    DEF RcResubscribeTrack, netVars, TypeInv, TypeOK, SubInFlight, CallerSubs
<1>17. CASE RcResubscribed(r)
  <2>1. /\ rc' \in [RcLoops -> RcRecs]
        /\ RcSubs'
    BY <1>1, <1>17, RcMoves DEF RcResubscribed, RcPcs, SubInFlight, RcSubs
  <2> QED
    BY <1>1, <1>17, <2>1
    DEF RcResubscribed, RcAt, agentVars, netVars, TypeInv, TypeOK,
        SubInFlight, CallerSubs, RcSubs, shared
<1>18. CASE RcSetConnected(r)
  <2>1. /\ rc' \in [RcLoops -> RcRecs]
        /\ RcSubs'
    BY <1>1, <1>18, RcMoves DEF RcSetConnected, RcPcs, SubInFlight, RcSubs
  <2> QED
    BY <1>1, <1>18, <2>1
    DEF RcSetConnected, RcAt, agentVars, netVars, TypeInv, TypeOK,
        SubInFlight, CallerSubs, RcSubs, SetState, States
<1>19. CASE RcStartHeartbeat(r)
  <2>1. /\ rc' \in [RcLoops -> RcRecs]
        /\ RcSubs'
    BY <1>1, <1>19, RcMoves DEF RcStartHeartbeat, RcPcs, SubInFlight, RcSubs
  <2>2. hb' \in [HbLoops -> HbRecs]
    BY <1>1, <1>19 DEF RcStartHeartbeat, StartLoop, HbRecs, HbPcs
  <2> QED
    BY <1>1, <1>19, <2>1, <2>2
    DEF RcStartHeartbeat, RcAt, StartLoop, agentVars, netVars, TypeInv,
        TypeOK, SubInFlight, CallerSubs, RcSubs
<1> QED
  BY <1>2, <1>3, <1>4, <1>5, <1>6, <1>7, <1>8, <1>9, <1>10, <1>11, <1>12,
     <1>13, <1>14, <1>15, <1>16, <1>17, <1>18, <1>19
  DEF RcStep

\* The initial state has the types, and every step keeps them.
LEMMA InitType == Init => TypeInv
<1> SUFFICES ASSUME Init PROVE TypeInv
  OBVIOUS
<1>1. caller \in [Callers -> CallerRecs] /\ CallerSubs
  BY DEF Init, CallerRecs, CallerPcs, CallerSubs
<1>2. hb \in [HbLoops -> HbRecs]
  BY DEF Init, HbRecs, HbPcs
<1>3. rc \in [RcLoops -> RcRecs] /\ RcSubs
  BY DEF Init, RcRecs, RcPcs, RcSubs
<1> QED
  BY <1>1, <1>2, <1>3 DEF Init, TypeInv, TypeOK, SubInFlight, States

\* Every step of Agent keeps the types.
LEMMA NextKeepsType == TypeInv /\ [Next]_vars => TypeInv'
<1> SUFFICES ASSUME TypeInv, [Next]_vars PROVE TypeInv'
  OBVIOUS
<1>1. CASE \E c \in Callers : CallerStart(c) \/ CallerStep(c)
  BY <1>1, CallerKeepsType
<1>2. CASE \E h \in HbLoops : HbStep(h) \/ HbTick(h)
  BY <1>2, HbKeepsType
<1>3. CASE \E r \in RcLoops : RcStep(r)
  BY <1>3, RcKeepsType
<1>4. CASE StreamLost
  BY <1>4
  DEF StreamLost, TypeInv, TypeOK, SubInFlight, CallerSubs, RcSubs, agentVars
<1>5. CASE Rest \/ UNCHANGED vars
  BY <1>5
  DEF Rest, TypeInv, TypeOK, SubInFlight, CallerSubs, RcSubs, vars, agentVars,
      netVars, shared
<1> QED
  BY <1>1, <1>2, <1>3, <1>4, <1>5 DEF Next

\* Type correctness of the model of agent.go and messaging.go.
THEOREM TypeCorrect == Spec => []TypeOK
<1>1. TypeInv => TypeOK
  BY DEF TypeInv
<1> QED
  BY <1>1, InitType, NextKeepsType, PTL DEF Spec

-----------------------------------------------------------------------------
(* Sessions: what a step does to the goroutines that drive the agent *)

SessionsKept ==
  ConnectingCallers' = ConnectingCallers /\ LiveHb' = LiveHb /\ LiveRc' = LiveRc

SessionBegins(c) ==
  /\ Sessions < MaxSessions
  /\ c \notin ConnectingCallers
  /\ ConnectingCallers' = ConnectingCallers \cup {c}
  /\ LiveHb' = LiveHb /\ LiveRc' = LiveRc

ConnectEnds(c) ==
  /\ c \in ConnectingCallers
  /\ ConnectingCallers' = ConnectingCallers \ {c}
  /\ LiveHb' = LiveHb /\ LiveRc' = LiveRc

ConnectBecomesHeartbeat(c) ==
  /\ c \in ConnectingCallers
  /\ ConnectingCallers' = ConnectingCallers \ {c}
  /\ \E h \in HbLoops : h \notin LiveHb /\ LiveHb' = LiveHb \cup {h}
  /\ LiveRc' = LiveRc

HeartbeatEnds(h) ==
  /\ h \in LiveHb
  /\ LiveHb' = LiveHb \ {h}
  /\ ConnectingCallers' = ConnectingCallers /\ LiveRc' = LiveRc

HeartbeatBecomesReconnect(h) ==
  /\ h \in LiveHb
  /\ LiveHb' = LiveHb \ {h}
  /\ \E r \in RcLoops : r \notin LiveRc /\ LiveRc' = LiveRc \cup {r}
  /\ ConnectingCallers' = ConnectingCallers

ReconnectEnds(r) ==
  /\ r \in LiveRc
  /\ LiveRc' = LiveRc \ {r}
  /\ ConnectingCallers' = ConnectingCallers /\ LiveHb' = LiveHb

ReconnectBecomesHeartbeat(r) ==
  /\ r \in LiveRc
  /\ LiveRc' = LiveRc \ {r}
  /\ \E h \in HbLoops : h \notin LiveHb /\ LiveHb' = LiveHb \cup {h}
  /\ ConnectingCallers' = ConnectingCallers

\* A user goroutine begins a session, ends one that failed, or hands it over.
LEMMA CallerSessions ==
  ASSUME TypeInv, NEW c \in Callers, CallerStart(c) \/ CallerStep(c)
  PROVE  \/ SessionsKept \/ SessionBegins(c)
         \/ ConnectEnds(c) \/ ConnectBecomesHeartbeat(c)
<1>1. /\ caller \in [Callers -> CallerRecs]
      /\ hb \in [HbLoops -> HbRecs]
      /\ rc \in [RcLoops -> RcRecs]
  BY DEF TypeInv, TypeOK
<1>2. CASE ConnectCheck(c)
  BY <1>1, <1>2, CallerMoves
  DEF ConnectCheck, CanCall, At, CallerPcs, ConnectPcs, ClosePcs,
      ConnectingCallers, LiveHb, LiveRc, SessionBegins
<1>3. CASE ConnectAnnounce(c)
  BY <1>1, <1>3, CallerMoves
  DEF ConnectAnnounce, CallerPcs, ConnectPcs, ClosePcs, At, ConnectingCallers,
      LiveHb, LiveRc, SessionsKept
<1>4. CASE ConnectDialFails(c)
  BY <1>1, <1>4, CallerMoves
  DEF ConnectDialFails, CallerPcs, ConnectPcs, ClosePcs, At,
      ConnectingCallers, LiveHb, LiveRc, SessionsKept
<1>5. CASE ConnectDial(c)
  BY <1>1, <1>5, CallerMoves
  DEF ConnectDial, CallerPcs, ConnectPcs, ClosePcs, At, ConnectingCallers,
      LiveHb, LiveRc, SessionsKept
<1>6. CASE ConnectRegister(c)
  <2>1. CASE NilClient
    BY <2>1 DEF NilClient, ConnectingCallers, LiveHb, LiveRc, SessionsKept
  <2>2. CASE GoCaller(c, "registerFailed")
    BY <1>1, <1>6, <2>2, CallerMoves
    DEF ConnectRegister, CallerPcs, ConnectPcs, At, ConnectingCallers, LiveHb,
        LiveRc, SessionsKept, NilClient, shared
  <2>3. CASE caller' = [caller EXCEPT ![c].pc = "registered", ![c].id = conn]
    BY <1>1, <1>6, <2>3
    DEF ConnectRegister, ConnectPcs, At, ConnectingCallers, LiveHb, LiveRc,
        SessionsKept, NilClient, shared
  <2> QED
    BY <1>6, <2>1, <2>2, <2>3 DEF ConnectRegister
<1>7. CASE ConnectRegisterFailed(c)
  BY <1>1, <1>7, CallerMoves
  DEF ConnectRegisterFailed, CallerPcs, ConnectPcs, ClosePcs, At, NilClient,
      ConnectingCallers, LiveHb, LiveRc, SessionsKept
<1>8. CASE ConnectFail(c)
  BY <1>1, <1>8, CallerMoves
  DEF ConnectFail, At, CallerPcs, ConnectPcs, ConnectingCallers, LiveHb,
      LiveRc, ConnectEnds
<1>9. CASE ConnectSetID(c)
  BY <1>1, <1>9
  DEF ConnectSetID, ConnectPcs, At, ConnectingCallers, LiveHb, LiveRc,
      SessionsKept
<1>10. CASE ConnectSetConnected(c)
  BY <1>1, <1>10, CallerMoves
  DEF ConnectSetConnected, CallerPcs, ConnectPcs, ClosePcs, At,
      ConnectingCallers, LiveHb, LiveRc, SessionsKept
<1>11. CASE ConnectStartHeartbeat(c)
  <2>1. PICK h \in HbLoops : StartLoop(h)
    BY <1>11 DEF ConnectStartHeartbeat
  <2>2. h \notin LiveHb /\ LiveHb' = LiveHb \cup {h}
    BY <1>1, <2>1 DEF StartLoop, LiveHb
  <2>3. /\ c \in ConnectingCallers
        /\ ConnectingCallers' = ConnectingCallers \ {c}
    BY <1>1, <1>11, CallerMoves
    DEF ConnectStartHeartbeat, At, CallerPcs, ConnectPcs, ConnectingCallers
  <2> QED
    BY <1>11, <2>2, <2>3
    DEF ConnectStartHeartbeat, LiveRc, ConnectBecomesHeartbeat
<1>12. CASE CloseNothing(c)
  BY <1>1, <1>12, StopMoves
  DEF CloseNothing, CanCall, At, ConnectingCallers, LiveHb, LiveRc,
      SessionsKept
<1>13. CASE CloseBegin(c)
  BY <1>1, <1>13, StopMoves
  DEF CloseBegin, ConnectPcs, CanCall, At, ConnectingCallers, LiveHb, LiveRc,
      SessionsKept
<1>14. CASE CloseDisconnect(c)
  BY <1>1, <1>14, CallerMoves
  DEF CloseDisconnect, CallerPcs, ConnectPcs, ClosePcs, At, ConnectingCallers,
      LiveHb, LiveRc, SessionsKept
<1>15. CASE CloseSetState(c)
  BY <1>1, <1>15, CallerMoves
  DEF CloseSetState, CallerPcs, ConnectPcs, ClosePcs, At, ConnectingCallers,
      LiveHb, LiveRc, SessionsKept
<1>16. CASE CloseEnd(c)
  BY <1>1, <1>16
  DEF CloseEnd, ConnectPcs, At, ConnectingCallers, LiveHb, LiveRc,
      SessionsKept
<1>17. CASE SubscribeCall(c)
  <2>1. CASE NilClient
    BY <2>1 DEF NilClient, ConnectingCallers, LiveHb, LiveRc, SessionsKept
  <2>2. CASE GoCaller(c, "track")
    BY <1>1, <1>17, <2>2, CallerMoves
    DEF SubscribeCall, CallerPcs, ConnectPcs, At, ConnectingCallers, LiveHb,
        LiveRc, SessionsKept, NilClient
  <2>3. CASE caller' = [caller EXCEPT ![c].pc = "idle", ![c].sub = None]
    BY <1>1, <1>17, <2>3
    DEF SubscribeCall, ConnectPcs, At, ConnectingCallers, LiveHb, LiveRc,
        SessionsKept, NilClient
  <2> QED
    BY <1>17, <2>1, <2>2, <2>3 DEF SubscribeCall
<1>18. CASE SubscribeTrack(c)
  BY <1>1, <1>18
  DEF SubscribeTrack, ConnectPcs, At, ConnectingCallers, LiveHb, LiveRc,
      SessionsKept
<1>19. CASE CallCheck(c)
  BY <1>1, <1>19, CallerMoves
  DEF CallCheck, CallerPcs, ConnectPcs, ClosePcs, CanCall, At,
      ConnectingCallers, LiveHb, LiveRc, SessionsKept
<1>20. CASE CallRpc(c)
  BY <1>1, <1>20, CallerMoves
  DEF CallRpc, CallerPcs, ConnectPcs, ClosePcs, At, NilClient,
      ConnectingCallers, LiveHb, LiveRc, SessionsKept, shared
<1>21. CASE \E s \in Subs : SubscribeCheck(c, s) \/ Unsubscribe(c, s)
  <2>1. ASSUME NEW s \in Subs, SubscribeCheck(c, s) PROVE SessionsKept
    BY <1>1, <2>1
    DEF SubscribeCheck, CanCall, At, ConnectPcs, ConnectingCallers, LiveHb,
        LiveRc, SessionsKept
  <2>2. ASSUME NEW s \in Subs, Unsubscribe(c, s) PROVE SessionsKept
    BY <2>2 DEF Unsubscribe, ConnectingCallers, LiveHb, LiveRc, SessionsKept
  <2> QED
    BY <1>21, <2>1, <2>2
<1> QED
  BY <1>2, <1>3, <1>4, <1>5, <1>6, <1>7, <1>8, <1>9, <1>10, <1>11, <1>12,
     <1>13, <1>14, <1>15, <1>16, <1>17, <1>18, <1>19, <1>20, <1>21
  DEF CallerStart, CallerStep

\* A heartbeat loop ends a session or hands it over.
LEMMA HbSessions ==
  ASSUME TypeInv, NEW h \in HbLoops, HbStep(h) \/ HbTick(h)
  PROVE  SessionsKept \/ HeartbeatEnds(h) \/ HeartbeatBecomesReconnect(h)
<1>1. /\ caller \in [Callers -> CallerRecs]
      /\ hb \in [HbLoops -> HbRecs]
      /\ rc \in [RcLoops -> RcRecs]
  BY DEF TypeInv, TypeOK
<1>2. CASE HbExit(h)
  BY <1>1, <1>2, HbMoves
  DEF HbExit, HbAt, HbPcs, ConnectingCallers, LiveHb, LiveRc, HeartbeatEnds
<1>3. CASE TriggerCheck(h)
  BY <1>1, <1>3, HbMoves
  DEF TriggerCheck, HbAt, HbPcs, ConnectingCallers, LiveHb, LiveRc,
      HeartbeatEnds, SessionsKept
<1>4. CASE TriggerSetState(h)
  BY <1>1, <1>4, HbMoves
  DEF TriggerSetState, HbPcs, HbAt, ConnectingCallers, LiveHb, LiveRc,
      SessionsKept
<1>5. CASE TriggerSpawn(h)
  <2>1. h \in LiveHb /\ LiveHb' = LiveHb \ {h}
    BY <1>1, <1>5, HbMoves DEF TriggerSpawn, HbAt, HbPcs, LiveHb
  <2>2. \E r \in RcLoops : r \notin LiveRc /\ LiveRc' = LiveRc \cup {r}
    BY <1>1, <1>5 DEF TriggerSpawn, LiveRc
  <2> QED
    BY <1>5, <2>1, <2>2
    DEF TriggerSpawn, ConnectingCallers, HeartbeatBecomesReconnect
<1>6. CASE HbOk(h)
  BY <1>1, <1>6
  DEF HbOk, HbAt, vars, ConnectingCallers, LiveHb, LiveRc, SessionsKept
<1>7. CASE HbNil(h)
  BY <1>1, <1>7
  DEF HbNil, HbAt, NilClient, ConnectingCallers, LiveHb, LiveRc, SessionsKept
<1>8. CASE HbErr(h)
  BY <1>1, <1>8, HbMoves
  DEF HbErr, HbPcs, HbAt, ConnectingCallers, LiveHb, LiveRc, SessionsKept
<1> QED
  BY <1>2, <1>3, <1>4, <1>5, <1>6, <1>7, <1>8 DEF HbStep, HbTick

\* A reconnect loop ends a session or hands it over.
LEMMA RcSessions ==
  ASSUME TypeInv, NEW r \in RcLoops, RcStep(r)
  PROVE  SessionsKept \/ ReconnectEnds(r) \/ ReconnectBecomesHeartbeat(r)
<1>1. /\ caller \in [Callers -> CallerRecs]
      /\ hb \in [HbLoops -> HbRecs]
      /\ rc \in [RcLoops -> RcRecs]
  BY DEF TypeInv, TypeOK
<1>2. CASE RcCancelled(r)
  BY <1>1, <1>2, RcMoves
  DEF RcCancelled, RcAt, RcPcs, ConnectingCallers, LiveHb, LiveRc,
      ReconnectEnds
<1>3. CASE RcExhausted(r)
  BY <1>1, <1>3, RcMoves
  DEF RcExhausted, RcPcs, RcAt, ConnectingCallers, LiveHb, LiveRc,
      SessionsKept
<1>4. CASE RcGiveUp(r)
  BY <1>1, <1>4, RcMoves
  DEF RcGiveUp, RcAt, RcPcs, ConnectingCallers, LiveHb, LiveRc,
      ReconnectEnds
<1>5. CASE RcAttempt(r)
  BY <1>1, <1>5, RcMoves
  DEF RcAttempt, RcPcs, RcAt, ConnectingCallers, LiveHb, LiveRc, SessionsKept
<1>6. CASE RcDropConn(r)
  BY <1>1, <1>6, RcMoves
  DEF RcDropConn, RcPcs, RcAt, ConnectingCallers, LiveHb, LiveRc, SessionsKept
<1>7. CASE RcDialFails(r)
  BY <1>1, <1>7, RetryMoves
  DEF RcDialFails, RcAt, ConnectingCallers, LiveHb, LiveRc, SessionsKept
<1>8. CASE RcDial(r)
  BY <1>1, <1>8, RcMoves
  DEF RcDial, RcPcs, RcAt, ConnectingCallers, LiveHb, LiveRc, SessionsKept
<1>9. CASE RcRegisterOk(r)
  BY <1>1, <1>9
  DEF RcRegisterOk, RcAt, ConnectingCallers, LiveHb, LiveRc, SessionsKept
<1>10. CASE RcRegisterFails(r)
  BY <1>1, <1>10, RcMoves
  DEF RcRegisterFails, RcPcs, RcAt, NilClient, ConnectingCallers, LiveHb,
      LiveRc, SessionsKept, shared
<1>11. CASE RcCloseConn(r)
  BY <1>1, <1>11, RcMoves
  DEF RcCloseConn, RcPcs, RcAt, NilClient, ConnectingCallers, LiveHb, LiveRc,
      SessionsKept
<1>12. CASE RcForgetConn(r)
  BY <1>1, <1>12, RetryMoves
  DEF RcForgetConn, RcAt, ConnectingCallers, LiveHb, LiveRc, SessionsKept
<1>13. CASE RcSetID(r)
  BY <1>1, <1>13
  DEF RcSetID, RcAt, ConnectingCallers, LiveHb, LiveRc, SessionsKept
<1>14. CASE RcResubscribe(r)
  BY <1>1, <1>14
  DEF RcResubscribe, RcAt, ConnectingCallers, LiveHb, LiveRc, SessionsKept
<1>15. CASE RcResubscribeCall(r)
  <2>1. CASE NilClient
    BY <2>1 DEF NilClient, ConnectingCallers, LiveHb, LiveRc, SessionsKept
  <2>2. CASE GoRc(r, "resubscribeTrack")
    BY <1>1, <1>15, <2>2, RcMoves
    DEF RcResubscribeCall, RcPcs, RcAt, ConnectingCallers, LiveHb, LiveRc,
        SessionsKept, NilClient, shared
  <2>3. CASE rc' = [rc EXCEPT ![r].pc = "resubscribe", ![r].sub = None]
    BY <1>1, <1>15, <2>3
    DEF RcResubscribeCall, RcAt, ConnectingCallers, LiveHb, LiveRc,
        SessionsKept, NilClient, shared
  <2> QED
    BY <1>15, <2>1, <2>2, <2>3 DEF RcResubscribeCall
<1>16. CASE RcResubscribeTrack(r)
  BY <1>1, <1>16
  DEF RcResubscribeTrack, RcAt, ConnectingCallers, LiveHb, LiveRc,
      SessionsKept
<1>17. CASE RcResubscribed(r)
  BY <1>1, <1>17, RcMoves
  DEF RcResubscribed, RcPcs, RcAt, ConnectingCallers, LiveHb, LiveRc,
      SessionsKept
<1>18. CASE RcSetConnected(r)
  BY <1>1, <1>18, RcMoves
  DEF RcSetConnected, RcPcs, RcAt, ConnectingCallers, LiveHb, LiveRc,
      SessionsKept
<1>19. CASE RcStartHeartbeat(r)
  <2>1. PICK h \in HbLoops : StartLoop(h)
    BY <1>19 DEF RcStartHeartbeat
  <2>2. h \notin LiveHb /\ LiveHb' = LiveHb \cup {h}
    BY <1>1, <2>1 DEF StartLoop, LiveHb
  <2>3. r \in LiveRc /\ LiveRc' = LiveRc \ {r}
    BY <1>1, <1>19, RcMoves DEF RcStartHeartbeat, RcAt, RcPcs, LiveRc
  <2> QED
    BY <1>19, <2>2, <2>3
    DEF RcStartHeartbeat, ConnectingCallers, ReconnectBecomesHeartbeat
<1> QED
  BY <1>2, <1>3, <1>4, <1>5, <1>6, <1>7, <1>8, <1>9, <1>10, <1>11, <1>12,
     <1>13, <1>14, <1>15, <1>16, <1>17, <1>18, <1>19
  DEF RcStep

\* The three sets are finite, before a step and after it.
LEMMA SessionsFinite ==
  /\ IsFiniteSet(ConnectingCallers) /\ IsFiniteSet(ConnectingCallers')
  /\ IsFiniteSet(LiveHb) /\ IsFiniteSet(LiveHb')
  /\ IsFiniteSet(LiveRc) /\ IsFiniteSet(LiveRc')
<1>1. /\ ConnectingCallers \subseteq Callers /\ ConnectingCallers' \subseteq Callers
      /\ LiveHb \subseteq HbLoops /\ LiveHb' \subseteq HbLoops
      /\ LiveRc \subseteq RcLoops /\ LiveRc' \subseteq RcLoops
  BY DEF ConnectingCallers, LiveHb, LiveRc
<1> QED
  BY <1>1, FS_Subset, ConstantsAssumption

\* One goroutine more.
LEMMA OneMore ==
  ASSUME NEW S, IsFiniteSet(S), NEW x, x \notin S
  PROVE  Cardinality(S \cup {x}) = Cardinality(S) + 1
  BY FS_AddElement

\* One goroutine less.
LEMMA OneLess ==
  ASSUME NEW S, IsFiniteSet(S), NEW x, x \in S
  PROVE  Cardinality(S \ {x}) = Cardinality(S) - 1
  BY FS_RemoveElement

\* No step but the beginning of a session adds to the sessions.
LEMMA SessionsStep ==
  ASSUME TypeInv, BoundedSessions, [Next]_vars
  PROVE  BoundedSessions'
<1> DEFINE A == Cardinality(ConnectingCallers)
           B == Cardinality(LiveHb)
           C == Cardinality(LiveRc)
<1>1. /\ A \in Nat /\ A' \in Nat /\ B \in Nat /\ B' \in Nat
      /\ C \in Nat /\ C' \in Nat
  BY SessionsFinite, FS_CardinalityType
<1>2. /\ A + B + C <= MaxSessions
      /\ MaxSessions \in Nat
  BY ConstantsAssumption DEF BoundedSessions, Sessions
<1>3. SUFFICES A' + B' + C' <= MaxSessions
  BY DEF BoundedSessions, Sessions
<1>4. CASE SessionsKept
  BY <1>1, <1>2, <1>4 DEF SessionsKept
<1>5. ASSUME NEW c \in Callers, CallerStart(c) \/ CallerStep(c)
      PROVE  A' + B' + C' <= MaxSessions
  <2>1. CASE SessionBegins(c)
    <3>1. A' = A + 1 /\ B' = B /\ C' = C
      BY <2>1, SessionsFinite, OneMore DEF SessionBegins
    <3>2. A + B + C < MaxSessions
      BY <2>1 DEF SessionBegins, Sessions
    <3> QED
      BY <1>1, <1>2, <3>1, <3>2
  <2>2. CASE ConnectEnds(c)
    <3>1. A' = A - 1 /\ B' = B /\ C' = C
      BY <2>2, SessionsFinite, OneLess DEF ConnectEnds
    <3> QED
      BY <1>1, <1>2, <3>1
  <2>3. CASE ConnectBecomesHeartbeat(c)
    <3>1. A' = A - 1 /\ B' = B + 1 /\ C' = C
      BY <2>3, SessionsFinite, OneLess, OneMore DEF ConnectBecomesHeartbeat
    <3> QED
      BY <1>1, <1>2, <3>1
  <2> QED
    BY <1>4, <1>5, <2>1, <2>2, <2>3, CallerSessions
<1>6. ASSUME NEW h \in HbLoops, HbStep(h) \/ HbTick(h)
      PROVE  A' + B' + C' <= MaxSessions
  <2>1. CASE HeartbeatEnds(h)
    <3>1. A' = A /\ B' = B - 1 /\ C' = C
      BY <2>1, SessionsFinite, OneLess DEF HeartbeatEnds
    <3> QED
      BY <1>1, <1>2, <3>1
  <2>2. CASE HeartbeatBecomesReconnect(h)
    <3>1. A' = A /\ B' = B - 1 /\ C' = C + 1
      BY <2>2, SessionsFinite, OneLess, OneMore DEF HeartbeatBecomesReconnect
    <3> QED
      BY <1>1, <1>2, <3>1
  <2> QED
    BY <1>4, <1>6, <2>1, <2>2, HbSessions
<1>7. ASSUME NEW r \in RcLoops, RcStep(r)
      PROVE  A' + B' + C' <= MaxSessions
  <2>1. CASE ReconnectEnds(r)
    <3>1. A' = A /\ B' = B /\ C' = C - 1
      BY <2>1, SessionsFinite, OneLess DEF ReconnectEnds
    <3> QED
      BY <1>1, <1>2, <3>1
  <2>2. CASE ReconnectBecomesHeartbeat(r)
    <3>1. A' = A /\ B' = B + 1 /\ C' = C - 1
      BY <2>2, SessionsFinite, OneLess, OneMore DEF ReconnectBecomesHeartbeat
    <3> QED
      BY <1>1, <1>2, <3>1
  <2> QED
    BY <1>4, <1>7, <2>1, <2>2, RcSessions
<1>8. CASE StreamLost \/ Rest \/ UNCHANGED vars
  <2>1. SessionsKept
    BY <1>8
    DEF StreamLost, Rest, vars, agentVars, ConnectingCallers, LiveHb, LiveRc,
        SessionsKept, shared
  <2> QED
    BY <1>4, <2>1
<1> QED
  BY <1>5, <1>6, <1>7, <1>8 DEF Next

\* There is no session yet.
LEMMA InitSessions == Init => BoundedSessions
<1> SUFFICES ASSUME Init PROVE BoundedSessions
  OBVIOUS
<1>1. ConnectingCallers = {} /\ LiveHb = {} /\ LiveRc = {}
  BY DEF Init, ConnectingCallers, LiveHb, LiveRc, ConnectPcs
<1> QED
  BY <1>1, FS_EmptySet, ConstantsAssumption DEF BoundedSessions, Sessions

\* Heartbeat and reconnect loops never outnumber the sessions the application
\* has begun by calling Connect, whatever the platform does and whoever calls
\* Close: agent.go's loops replace each other and do not multiply.
THEOREM SessionsBounded == Spec => []BoundedSessions
<1>1. TypeInv /\ BoundedSessions /\ [Next]_vars => (TypeInv /\ BoundedSessions)'
  BY NextKeepsType, SessionsStep
<1> QED
  BY <1>1, InitType, InitSessions, PTL DEF Spec

-----------------------------------------------------------------------------
(* Starting a reconnect loop is a critical section *)

\* What a step may do to the goroutines in the section: nothing (it leaves
\* reconnectMu alone), one enters while nobody holds it, one moves, one leaves.
Triggering == {h \in HbLoops : hb[h].pc \in {"triggered", "spawn"}}

NobodyEnters == Triggering' = Triggering /\ reconnectMu' = reconnectMu

\* Whoever touches neither hb nor reconnectMu does not.
LEMMA KeepingHbKeepsSection ==
  ASSUME hb' = hb, reconnectMu' = reconnectMu
  PROVE  NobodyEnters
  BY DEF NobodyEnters, Triggering

\* A loop that starts is not in the section, and one that is told to stop
\* stays where it is.
LEMMA StartingKeepsSection ==
  ASSUME hb \in [HbLoops -> HbRecs], NEW h \in HbLoops, StartLoop(h),
         reconnectMu' = reconnectMu
  PROVE  NobodyEnters
<1>1. \A g \in HbLoops : hb'[g].pc \in {"triggered", "spawn"}
                           <=> hb[g].pc \in {"triggered", "spawn"}
  BY DEF StartLoop, HbRecs
<1> QED
  BY <1>1 DEF NobodyEnters, Triggering

\* User goroutines stay out of the section.
LEMMA CallerKeepsSection ==
  ASSUME TypeInv, NEW c \in Callers, CallerStart(c) \/ CallerStep(c)
  PROVE  NobodyEnters
<1>1. hb \in [HbLoops -> HbRecs]
  BY DEF TypeInv, TypeOK
<1>2. CASE ConnectStartHeartbeat(c)
  BY <1>1, <1>2, StartingKeepsSection DEF ConnectStartHeartbeat
<1>3. CASE CloseBegin(c)
  <2>1. \A g \in HbLoops : hb'[g].pc = hb[g].pc
    BY <1>1, <1>3 DEF CloseBegin, HbRecs
  <2> QED
    BY <1>3, <2>1 DEF CloseBegin, NobodyEnters, Triggering
<1>4. CASE ~ConnectStartHeartbeat(c) /\ ~CloseBegin(c)
  <2>1. hb' = hb /\ reconnectMu' = reconnectMu
    BY <1>4
    DEF CallerStart, CallerStep, ConnectCheck, CloseNothing, CallCheck,
        SubscribeCheck, Unsubscribe, ConnectAnnounce, ConnectDialFails,
        ConnectDial, Dialled, ConnectRegister, NilClient,
        ConnectRegisterFailed, ConnectFail, ConnectSetID,
        ConnectSetConnected, CloseDisconnect, CloseSetState, CloseEnd,
        SubscribeCall, SubscribeTrack, CallRpc, SetState, shared, agentVars
  <2> QED
    BY <2>1, KeepingHbKeepsSection
<1> QED
  BY <1>2, <1>3, <1>4

\* So do reconnect loops.
LEMMA RcKeepsSection ==
  ASSUME TypeInv, NEW r \in RcLoops, RcStep(r)
  PROVE  NobodyEnters
<1>1. hb \in [HbLoops -> HbRecs]
  BY DEF TypeInv, TypeOK
<1>2. CASE RcStartHeartbeat(r)
  BY <1>1, <1>2, StartingKeepsSection DEF RcStartHeartbeat
<1>3. CASE ~RcStartHeartbeat(r)
  <2>1. hb' = hb /\ reconnectMu' = reconnectMu
    BY <1>3
    DEF RcStep, RcCancelled, RcExhausted, RcGiveUp, RcAttempt, RcDropConn,
        RcDialFails, RcDial, Dialled, RcRegisterOk, RcRegisterFails,
        NilClient, RcCloseConn, RcForgetConn, RcSetID, RcResubscribe,
        RcResubscribeCall, RcResubscribeTrack, RcResubscribed,
        RcSetConnected, SetState, shared, agentVars
  <2> QED
    BY <2>1, KeepingHbKeepsSection
<1> QED
  BY <1>2, <1>3

\* A heartbeat loop enters the section when nobody holds reconnectMu, and
\* gives it up as it leaves.
LEMMA HbKeepsExclusion ==
  ASSUME TypeInv, TriggerExclusive, NEW h \in HbLoops, HbStep(h) \/ HbTick(h)
  PROVE  TriggerExclusive'
<1>1. hb \in [HbLoops -> HbRecs]
  BY DEF TypeInv, TypeOK
<1>2. CASE TriggerCheck(h)
  <2>1. \A g \in HbLoops : hb[g].pc \notin {"triggered", "spawn"}
    BY <1>2, ConstantsAssumption DEF TriggerCheck, TriggerExclusive
  <2>2. \A g \in HbLoops : hb'[g].pc \in {"triggered", "spawn"} =>
                             g = h /\ reconnectMu' = h
    BY <1>1, <1>2, <2>1, HbMoves DEF TriggerCheck, HbPcs
  <2> QED
    BY <2>2 DEF TriggerExclusive
<1>3. CASE TriggerSetState(h)
  BY <1>1, <1>3, HbMoves
  DEF TriggerSetState, HbAt, HbPcs, SetState, TriggerExclusive
<1>4. CASE TriggerSpawn(h)
  <2>1. \A g \in HbLoops : hb[g].pc \in {"triggered", "spawn"} => g = h
    BY <1>4 DEF TriggerSpawn, HbAt, TriggerExclusive
  <2>2. \A g \in HbLoops : hb'[g].pc \notin {"triggered", "spawn"}
    BY <1>1, <1>4, <2>1, HbMoves DEF TriggerSpawn, HbPcs
  <2> QED
    BY <2>2 DEF TriggerExclusive
<1>5. CASE HbExit(h) \/ HbErr(h)
  BY <1>1, <1>5, HbMoves
  DEF HbExit, HbErr, HbPcs, TriggerExclusive, shared, agentVars
<1>6. CASE HbOk(h) \/ HbNil(h)
  BY <1>6 DEF HbOk, HbNil, NilClient, TriggerExclusive, vars, shared, agentVars
<1> QED
  BY <1>2, <1>3, <1>4, <1>5, <1>6 DEF HbStep, HbTick

\* reconnectMu does what it is for: of any number of heartbeat loops whose
\* heartbeats fail together, one at a time is between the test of the state in
\* triggerReconnect and the start of the reconnect loop.
THEOREM TriggerIsExclusive == Spec => []TriggerExclusive
<1>1. Init => TriggerExclusive
  BY DEF Init, TriggerExclusive
<1>2. TypeInv /\ TriggerExclusive /\ [Next]_vars => (TypeInv /\ TriggerExclusive)'
  <2> SUFFICES ASSUME TypeInv, TriggerExclusive, [Next]_vars
               PROVE  TriggerExclusive'
    BY NextKeepsType
  <2>1. NobodyEnters => TriggerExclusive'
    BY DEF NobodyEnters, Triggering, TriggerExclusive
  <2>2. CASE \E c \in Callers : CallerStart(c) \/ CallerStep(c)
    BY <2>1, <2>2, CallerKeepsSection
  <2>3. CASE \E h \in HbLoops : HbStep(h) \/ HbTick(h)
    BY <2>3, HbKeepsExclusion
  <2>4. CASE \E r \in RcLoops : RcStep(r)
    BY <2>1, <2>4, RcKeepsSection
  <2>5. CASE StreamLost \/ Rest \/ UNCHANGED vars
    BY <2>1, <2>5, KeepingHbKeepsSection
    DEF StreamLost, Rest, vars, shared, agentVars
  <2> QED
    BY <2>2, <2>3, <2>4, <2>5 DEF Next
<1> QED
  BY <1>1, <1>2, InitType, PTL DEF Spec

-----------------------------------------------------------------------------
(* One session at a time: the application calls Connect again only when the *)
(* loops of the last session have ended.  Any number of goroutines may call *)
(* the other methods, Close among them, at any time.                        *)

NoSession == ConnectingCallers = {} /\ LiveHb = {} /\ LiveRc = {}

\* One goroutine at most is running the session.
OneSession ==
  /\ \A c, d \in ConnectingCallers : c = d
  /\ \A g, h \in LiveHb : g = h
  /\ \A q, r \in LiveRc : q = r
  /\ ConnectingCallers # {} => LiveHb = {} /\ LiveRc = {}
  /\ LiveHb # {} => LiveRc = {}

\* The elements of a set of at most one are the same.
LEMMA AtMostOne ==
  ASSUME NEW S, IsFiniteSet(S), Cardinality(S) <= 1
  PROVE  \A x, y \in S : x = y
<1>1. Cardinality(S) = 0 \/ Cardinality(S) = 1
  BY FS_CardinalityType
<1>2. CASE Cardinality(S) = 0
  BY <1>2, FS_EmptySet
<1>3. CASE Cardinality(S) = 1
  <2>1. PICK x : S = {x}
    BY <1>3, FS_Singleton
  <2> QED
    BY <2>1
<1> QED
  BY <1>1, <1>2, <1>3

\* The bound on the sessions is a bound on the goroutines that run them.
LEMMA SessionIsOne ==
  ASSUME MaxSessions <= 1, BoundedSessions
  PROVE  OneSession
<1> DEFINE A == Cardinality(ConnectingCallers)
           B == Cardinality(LiveHb)
           C == Cardinality(LiveRc)
<1>1. A \in Nat /\ B \in Nat /\ C \in Nat
  BY SessionsFinite, FS_CardinalityType
<1>2. /\ (A = 0) = (ConnectingCallers = {})
      /\ (B = 0) = (LiveHb = {}) /\ (C = 0) = (LiveRc = {})
  BY SessionsFinite, FS_EmptySet
<1>3. A + B + C <= 1
  BY <1>1, ConstantsAssumption DEF BoundedSessions, Sessions
<1>4. A <= 1 /\ B <= 1 /\ C <= 1
  BY <1>1, <1>3
<1>5. /\ \A c, d \in ConnectingCallers : c = d
      /\ \A g, h \in LiveHb : g = h
      /\ \A q, r \in LiveRc : q = r
  BY <1>4, SessionsFinite, AtMostOne
<1>6. (A # 0 => B = 0 /\ C = 0) /\ (B # 0 => C = 0)
  BY <1>1, <1>3
<1> HIDE DEF A, B, C
<1> QED
  BY <1>2, <1>5, <1>6 DEF OneSession

-----------------------------------------------------------------------------
(* The inductive invariant *)

\* The agent is disconnected, or a Close is on its way to saying so.
BeingClosed ==
  \/ state = "disconnected"
  \/ \E c \in Callers : caller[c].pc \in {"disconnect", "closeState"}

\* What the goroutine that runs the session relies on: the connection it uses
\* without the lock is the one it dialled or was handed, and it is registered
\* from the RPC on.  A Close changes the state at any time, and nothing else of
\* this; a session that has been told to stop is being closed.
CallerFine(c) ==
  /\ caller[c].pc = "startHeartbeat" => state \in {"connected", "disconnected"}
  /\ caller[c].pc # "startHeartbeat" => ~Connected
  /\ caller[c].pc \in {"register", "registerFailed", "registered", "announce",
                       "startHeartbeat"} => conn # None
  /\ caller[c].pc = "registered" => caller[c].id = conn
  /\ caller[c].pc \in {"announce", "startHeartbeat"} => agentID = conn

HbFine(h) ==
  /\ heartbeatCancel = h
  /\ conn # None /\ agentID = conn
  /\ hb[h].pc = "spawn" => state \in {"reconnecting", "disconnected"}
  /\ hb[h].pc # "spawn" => state \in {"connected", "disconnected"}
  /\ hb[h].pc = "select" /\ hb[h].done => BeingClosed

RcFine(r) ==
  /\ rc[r].pc = "startHeartbeat" => state \in {"connected", "disconnected"}
  /\ rc[r].pc # "startHeartbeat" =>
       state \in {"reconnecting", "disconnected"} /\ (rc[r].done => BeingClosed)
  /\ rc[r].pc \notin {"resubscribeCall", "resubscribeTrack"}
  /\ rc[r].pc \in {"register", "registerFailed", "registered", "resubscribe",
                   "restored", "startHeartbeat"} => conn # None
  /\ rc[r].pc = "registered" => rc[r].id = conn
  /\ rc[r].pc \in {"resubscribe", "restored", "startHeartbeat"} => agentID = conn

SessionInv ==
  /\ \A c \in ConnectingCallers : CallerFine(c)
  /\ \A h \in LiveHb : HbFine(h)
  /\ \A r \in LiveRc : RcFine(r)
  /\ NoSession => BeingClosed
  /\ ConnectedAsRegistered

-----------------------------------------------------------------------------
(* The kinds of step *)

\* The session is run, after the step, by a user goroutine inside Connect,
LEMMA CallerDrives ==
  ASSUME OneSession', NEW c \in ConnectingCallers', CallerFine(c)',
         ConnectedAsRegistered'
  PROVE  SessionInv'
BY DEF OneSession, SessionInv, NoSession

\* by a heartbeat loop,
LEMMA HbDrives ==
  ASSUME OneSession', NEW h \in LiveHb', HbFine(h)', ConnectedAsRegistered'
  PROVE  SessionInv'
BY DEF OneSession, SessionInv, NoSession

\* by a reconnect loop,
LEMMA RcDrives ==
  ASSUME OneSession', NEW r \in LiveRc', RcFine(r)', ConnectedAsRegistered'
  PROVE  SessionInv'
BY DEF OneSession, SessionInv, NoSession

\* or by nobody.
LEMMA NobodyDrives ==
  ASSUME NoSession', BeingClosed', ConnectedAsRegistered'
  PROVE  SessionInv'
BY DEF NoSession, SessionInv

\* A step of a goroutine that does not run the session: it may make the agent
\* disconnected, and it stops loops only when it does or is about to.
LEMMA Bystands ==
  ASSUME SessionInv,
         conn' = conn, agentID' = agentID, heartbeatCancel' = heartbeatCancel,
         state' = state \/ state' = "disconnected",
         BeingClosed => BeingClosed',
         \A c \in Callers :
           caller[c].pc \in ConnectPcs \/ caller'[c].pc \in ConnectPcs =>
             caller'[c].pc = caller[c].pc /\ caller'[c].id = caller[c].id,
         \A h \in HbLoops :
           /\ hb'[h].pc = hb[h].pc
           /\ hb'[h].done => hb[h].done \/ BeingClosed',
         \A r \in RcLoops :
           /\ rc'[r].pc = rc[r].pc /\ rc'[r].id = rc[r].id
           /\ rc'[r].done => \/ rc[r].done \/ BeingClosed'
                             \/ rc[r].pc \in {"idle", "startHeartbeat"}
  PROVE  SessionInv'
<1>1. /\ ConnectingCallers' = ConnectingCallers
      /\ LiveHb' = LiveHb /\ LiveRc' = LiveRc
  BY DEF ConnectingCallers, LiveHb, LiveRc
<1>2. ASSUME NEW c \in ConnectingCallers PROVE CallerFine(c)'
  <2>1. CallerFine(c) /\ c \in Callers /\ caller[c].pc \in ConnectPcs
    BY DEF SessionInv, ConnectingCallers
  <2>2. caller'[c].pc = caller[c].pc /\ caller'[c].id = caller[c].id
    BY <2>1
  <2> QED
    BY <2>1, <2>2 DEF CallerFine, Connected
<1>3. ASSUME NEW h \in LiveHb PROVE HbFine(h)'
  <2>1. HbFine(h) /\ h \in HbLoops
    BY DEF SessionInv, LiveHb
  <2> QED
    BY <2>1 DEF HbFine
<1>4. ASSUME NEW r \in LiveRc PROVE RcFine(r)'
  <2>1. RcFine(r) /\ r \in RcLoops /\ rc[r].pc # "idle"
    BY DEF SessionInv, LiveRc
  <2> QED
    BY <2>1 DEF RcFine
<1>5. NoSession' => BeingClosed'
  BY <1>1 DEF NoSession, SessionInv
<1>6. ConnectedAsRegistered'
  BY DEF SessionInv, ConnectedAsRegistered, Connected
<1> QED
  BY <1>1, <1>2, <1>3, <1>4, <1>5, <1>6 DEF SessionInv

\* A user goroutine that runs the session is alone in it.
LEMMA CallerAlone ==
  ASSUME OneSession, NEW c \in Callers, caller[c].pc \in ConnectPcs
  PROVE  /\ c \in ConnectingCallers /\ LiveHb = {} /\ LiveRc = {}
         /\ \A d \in Callers : d # c => caller[d].pc \notin ConnectPcs
BY DEF OneSession, ConnectingCallers

\* So is a loop.
LEMMA HbAlone ==
  ASSUME OneSession, NEW h \in HbLoops, hb[h].pc # "idle"
  PROVE  /\ h \in LiveHb /\ ConnectingCallers = {} /\ LiveRc = {}
         /\ \A g \in HbLoops : g # h => hb[g].pc = "idle"
BY DEF OneSession, LiveHb

\* So is a reconnect loop.
LEMMA RcAlone ==
  ASSUME OneSession, NEW r \in RcLoops, rc[r].pc # "idle"
  PROVE  /\ r \in LiveRc /\ ConnectingCallers = {} /\ LiveHb = {}
         /\ \A q \in RcLoops : q # r => rc[q].pc = "idle"
BY DEF OneSession, LiveRc

-----------------------------------------------------------------------------
(* Connect *)

\* The steps of Connect up to the registration.
LEMMA DiallingKeeps ==
  ASSUME TypeInv, OneSession, OneSession', SessionInv, NEW c \in Callers,
         \/ ConnectCheck(c) \/ ConnectAnnounce(c) \/ ConnectDialFails(c)
         \/ ConnectDial(c) \/ ConnectRegister(c) \/ ConnectRegisterFailed(c)
         \/ ConnectFail(c)
  PROVE  SessionInv'
<1> USE DEF At, SetState, shared, agentVars, netVars
<1>1. /\ caller \in [Callers -> CallerRecs]
      /\ conn \in Conns \cup {None} /\ open \subseteq Conns
      /\ None \notin Conns
  BY ConstantsAssumption DEF TypeInv, TypeOK
<1>2. \A pc \in ConnectPcs \cup {"idle"} : pc \in CallerPcs
  BY DEF CallerPcs
<1>3. caller[c].pc \in ConnectPcs => c \in ConnectingCallers /\ CallerFine(c)
  BY CallerAlone DEF SessionInv
<1>4. ASSUME caller'[c].pc \in ConnectPcs, CallerFine(c)', ConnectedAsRegistered'
      PROVE  SessionInv'
  BY <1>4, CallerDrives DEF ConnectingCallers
<1>5. CASE ConnectCheck(c)
  <2>1. caller'[c].pc = "connecting" /\ ~Connected /\ state' = state
    BY <1>1, <1>5, CallerMoves DEF ConnectCheck, CanCall, CallerPcs, ConnectPcs
  <2> QED
    BY <1>4, <2>1 DEF CallerFine, ConnectedAsRegistered, Connected, ConnectPcs
<1>6. CASE ConnectAnnounce(c)
  <2>1. caller'[c].pc = "dial" /\ state' = "connecting"
    BY <1>1, <1>6, CallerMoves DEF ConnectAnnounce, CallerPcs, ConnectPcs
  <2> QED
    BY <1>4, <2>1 DEF CallerFine, ConnectedAsRegistered, Connected, ConnectPcs
<1>7. CASE ConnectDialFails(c)
  <2>1. /\ caller'[c].pc = "connectFailed" /\ state' = state
        /\ caller[c].pc = "dial"
    BY <1>1, <1>7, CallerMoves DEF ConnectDialFails, CallerPcs, ConnectPcs
  <2> QED
    BY <1>3, <1>4, <2>1
    DEF CallerFine, ConnectedAsRegistered, Connected, ConnectPcs
<1>8. CASE ConnectDial(c)
  <2>1. /\ caller'[c].pc = "register" /\ state' = state
        /\ caller[c].pc = "dial" /\ conn' \in Conns
    BY <1>1, <1>8, CallerMoves
    DEF ConnectDial, Dialled, FreshConns, CallerPcs, ConnectPcs
  <2> QED
    BY <1>1, <1>3, <1>4, <2>1
    DEF CallerFine, ConnectedAsRegistered, Connected, ConnectPcs
<1>9. CASE ConnectRegister(c)
  <2>1. caller[c].pc = "register" /\ conn # None /\ ~Connected
    BY <1>3, <1>9 DEF ConnectRegister, CallerFine, ConnectPcs
  <2>2. state' = state /\ conn' = conn
    BY <1>9 DEF ConnectRegister, NilClient
  <2>3. \/ caller'[c].pc = "registered" /\ caller'[c].id = conn
        \/ caller'[c].pc = "registerFailed"
    <3>1. CASE GoCaller(c, "registerFailed")
      BY <1>1, <3>1, CallerMoves DEF CallerPcs, ConnectPcs
    <3>2. CASE caller' = [caller EXCEPT ![c].pc = "registered", ![c].id = conn]
      BY <1>1, <3>2 DEF CallerRecs
    <3> QED
      BY <1>9, <2>1, <3>1, <3>2 DEF ConnectRegister, NilClient
  <2> QED
    BY <1>4, <2>1, <2>2, <2>3
    DEF CallerFine, ConnectedAsRegistered, Connected, ConnectPcs
<1>10. CASE ConnectRegisterFailed(c)
  <2>1. caller[c].pc = "registerFailed" /\ conn # None /\ ~Connected
    BY <1>3, <1>10 DEF ConnectRegisterFailed, CallerFine, ConnectPcs
  <2>2. /\ state' = state /\ caller'[c].pc = "connectFailed"
    BY <1>1, <1>10, <2>1, CallerMoves
    DEF ConnectRegisterFailed, NilClient, CallerPcs, ConnectPcs
  <2> QED
    BY <1>4, <2>1, <2>2
    DEF CallerFine, ConnectedAsRegistered, Connected, ConnectPcs
<1>11. CASE ConnectFail(c)
  <2>1. /\ caller[c].pc = "connectFailed" /\ state' = "disconnected"
        /\ \A d \in Callers :
             caller'[d].pc = IF d = c THEN "idle" ELSE caller[d].pc
        /\ hb' = hb /\ rc' = rc
    BY <1>1, <1>11, CallerMoves DEF ConnectFail, CallerPcs
  <2>2. NoSession'
    <3>1. /\ LiveHb = {} /\ LiveRc = {}
          /\ \A d \in Callers : d # c => caller[d].pc \notin ConnectPcs
      BY <2>1, CallerAlone DEF ConnectPcs
    <3> QED
      BY <2>1, <3>1
      DEF NoSession, ConnectingCallers, LiveHb, LiveRc, ConnectPcs
  <2> QED
    BY <2>1, <2>2, NobodyDrives DEF BeingClosed, ConnectedAsRegistered, Connected
<1> QED
  BY <1>5, <1>6, <1>7, <1>8, <1>9, <1>10, <1>11

\* The steps of Connect after the registration.
LEMMA RegisteredKeeps ==
  ASSUME TypeInv, OneSession, OneSession', SessionInv, NEW c \in Callers,
         ConnectSetID(c) \/ ConnectSetConnected(c) \/ ConnectStartHeartbeat(c)
  PROVE  SessionInv'
<1> USE DEF At, SetState, netVars
<1>1. caller \in [Callers -> CallerRecs]
  BY DEF TypeInv, TypeOK
<1>2. caller[c].pc \in ConnectPcs => CallerFine(c)
  BY CallerAlone DEF SessionInv
<1>3. ASSUME caller'[c].pc \in ConnectPcs, CallerFine(c)', ConnectedAsRegistered'
      PROVE  SessionInv'
  BY <1>3, CallerDrives DEF ConnectingCallers
<1>4. CASE ConnectSetID(c)
  <2>1. /\ caller[c].pc = "registered" /\ conn # None /\ ~Connected
        /\ caller[c].id = conn
    BY <1>2, <1>4 DEF ConnectSetID, CallerFine, ConnectPcs
  <2>2. /\ caller'[c].pc = "announce" /\ agentID' = conn
        /\ state' = state /\ conn' = conn
    BY <1>1, <1>4, <2>1 DEF ConnectSetID, CallerRecs
  <2> QED
    BY <1>3, <2>1, <2>2
    DEF CallerFine, ConnectedAsRegistered, Connected, ConnectPcs
<1>5. CASE ConnectSetConnected(c)
  <2>1. caller[c].pc = "announce" /\ conn # None /\ agentID = conn
    BY <1>2, <1>5 DEF ConnectSetConnected, CallerFine, ConnectPcs
  <2>2. /\ caller'[c].pc = "startHeartbeat" /\ state' = "connected"
        /\ conn' = conn /\ agentID' = agentID
    BY <1>1, <1>5, CallerMoves DEF ConnectSetConnected, CallerPcs, ConnectPcs
  <2> QED
    BY <1>3, <2>1, <2>2
    DEF CallerFine, ConnectedAsRegistered, Connected, ConnectPcs
<1>6. CASE ConnectStartHeartbeat(c)
  <2>1. /\ caller[c].pc = "startHeartbeat" /\ conn # None /\ agentID = conn
        /\ state \in {"connected", "disconnected"}
    BY <1>2, <1>6 DEF ConnectStartHeartbeat, CallerFine, ConnectPcs
  <2>2. PICK h \in HbLoops : StartLoop(h)
    BY <1>6 DEF ConnectStartHeartbeat
  <2>3. /\ hb'[h].pc = "select" /\ ~hb'[h].done /\ heartbeatCancel' = h
        /\ state' = state /\ conn' = conn /\ agentID' = agentID
    BY <1>6, <2>2 DEF ConnectStartHeartbeat, StartLoop, TypeInv, TypeOK
  <2>4. h \in LiveHb' /\ HbFine(h)' /\ ConnectedAsRegistered'
    BY <2>1, <2>3 DEF LiveHb, HbFine, ConnectedAsRegistered
  <2> QED
    BY <2>4, HbDrives
<1> QED
  BY <1>4, <1>5, <1>6

-----------------------------------------------------------------------------
(* Close and the methods that need a connection *)

\* Close, from any goroutine.
LEMMA CloseKeeps ==
  ASSUME TypeInv, OneSession, SessionInv, NEW c \in Callers,
         \/ CloseNothing(c) \/ CloseBegin(c)
         \/ CloseDisconnect(c) \/ CloseSetState(c) \/ CloseEnd(c)
  PROVE  SessionInv'
<1> USE DEF At, SetState, shared, agentVars, netVars
<1>1. /\ caller \in [Callers -> CallerRecs]
      /\ hb \in [HbLoops -> HbRecs] /\ rc \in [RcLoops -> RcRecs]
  BY DEF TypeInv, TypeOK
<1>2. CASE CloseNothing(c)
  <2>1. /\ conn' = conn /\ agentID' = agentID /\ state' = state
        /\ heartbeatCancel' = heartbeatCancel /\ caller' = caller /\ hb' = hb
        /\ state \notin {"connected", "reconnecting"} /\ StopReconnect
    BY <1>2 DEF CloseNothing
  <2>2. \A r \in RcLoops : rc'[r].pc = rc[r].pc /\ rc'[r].id = rc[r].id
    BY <1>1, <2>1, StopMoves
  <2>3. \A r \in RcLoops :
          rc[r].pc \notin {"idle", "startHeartbeat"} => state = "disconnected"
    BY <2>1 DEF SessionInv, LiveRc, RcFine
  <2> QED
    BY <2>1, <2>2, <2>3, Bystands DEF BeingClosed
<1>3. CASE CloseBegin(c)
  <2>1. /\ conn' = conn /\ agentID' = agentID /\ state' = state
        /\ heartbeatCancel' = heartbeatCancel /\ StopReconnect
        /\ caller[c].pc = "idle"
    BY <1>3 DEF CloseBegin, CanCall
  <2>2. \A r \in RcLoops : rc'[r].pc = rc[r].pc /\ rc'[r].id = rc[r].id
    BY <1>1, <2>1, StopMoves
  <2>3. \A h \in HbLoops : hb'[h].pc = hb[h].pc
    BY <1>1, <1>3 DEF CloseBegin, HbRecs
  <2>4. /\ caller'[c].pc = "disconnect"
        /\ \A d \in Callers : d # c => caller'[d] = caller[d]
    BY <1>1, <1>3 DEF CloseBegin, CallerRecs
  <2>5. BeingClosed'
    BY <2>4 DEF BeingClosed
  <2>6. \A d \in Callers :
          caller[d].pc \in ConnectPcs \/ caller'[d].pc \in ConnectPcs =>
            caller'[d].pc = caller[d].pc /\ caller'[d].id = caller[d].id
    BY <2>1, <2>4 DEF ConnectPcs
  <2> QED
    BY <2>1, <2>2, <2>3, <2>5, <2>6, Bystands
<1>4. CASE CloseDisconnect(c)
  <2>1. /\ UNCHANGED <<conn, agentID, state, heartbeatCancel, hb, rc>>
        /\ caller[c].pc = "disconnect" /\ caller'[c].pc = "closeState"
        /\ \A d \in Callers : d # c => caller'[d].pc = caller[d].pc
                                     /\ caller'[d].id = caller[d].id
    BY <1>1, <1>4, CallerMoves DEF CloseDisconnect, CallerPcs, ClosePcs
  <2>2. BeingClosed'
    BY <2>1 DEF BeingClosed
  <2>3. \A d \in Callers :
          caller[d].pc \in ConnectPcs \/ caller'[d].pc \in ConnectPcs =>
            caller'[d].pc = caller[d].pc /\ caller'[d].id = caller[d].id
    BY <2>1 DEF ConnectPcs
  <2> QED
    BY <2>1, <2>2, <2>3, Bystands
<1>5. CASE CloseSetState(c)
  <2>1. /\ UNCHANGED <<conn, agentID, heartbeatCancel, hb, rc>>
        /\ state' = "disconnected"
        /\ caller[c].pc = "closeState" /\ caller'[c].pc = "closeConn"
        /\ \A d \in Callers : d # c => caller'[d].pc = caller[d].pc
                                     /\ caller'[d].id = caller[d].id
    BY <1>1, <1>5, CallerMoves DEF CloseSetState, CallerPcs, ClosePcs
  <2>2. BeingClosed'
    BY <2>1 DEF BeingClosed
  <2>3. \A d \in Callers :
          caller[d].pc \in ConnectPcs \/ caller'[d].pc \in ConnectPcs =>
            caller'[d].pc = caller[d].pc /\ caller'[d].id = caller[d].id
    BY <2>1 DEF ConnectPcs
  <2> QED
    BY <2>1, <2>2, <2>3, Bystands
<1>6. CASE CloseEnd(c)
  <2>1. /\ UNCHANGED <<conn, agentID, heartbeatCancel, state, hb, rc>>
        /\ caller[c].pc = "closeConn"
    BY <1>6 DEF CloseEnd
  <2>2. /\ caller'[c].pc = "idle"
        /\ \A d \in Callers : d # c => caller'[d] = caller[d]
    BY <1>1, <1>6 DEF CloseEnd, CallerRecs
  <2>3. BeingClosed => BeingClosed'
    BY <2>1, <2>2 DEF BeingClosed
  <2>4. \A d \in Callers :
          caller[d].pc \in ConnectPcs \/ caller'[d].pc \in ConnectPcs =>
            caller'[d].pc = caller[d].pc /\ caller'[d].id = caller[d].id
    BY <2>1, <2>2 DEF ConnectPcs
  <2> QED
    BY <2>1, <2>3, <2>4, Bystands
<1> QED
  BY <1>2, <1>3, <1>4, <1>5, <1>6

\* subscribe, Unsubscribe and the calls, the end of a stream, and rest.
LEMMA UseKeeps ==
  ASSUME TypeInv, SessionInv,
         \/ \E c \in Callers :
              \/ SubscribeCall(c) \/ SubscribeTrack(c) \/ CallCheck(c) \/ CallRpc(c)
              \/ \E s \in Subs : SubscribeCheck(c, s) \/ Unsubscribe(c, s)
         \/ StreamLost \/ UNCHANGED vars
  PROVE  SessionInv'
<1> USE DEF At, CanCall, shared, agentVars, netVars
<1>1. caller \in [Callers -> CallerRecs]
  BY DEF TypeInv, TypeOK
<1> DEFINE Outside == {"idle", "subscribe", "track", "call"}
<1>2. ASSUME UNCHANGED <<state, conn, agentID, heartbeatCancel, hb, rc>>,
             NEW c \in Callers,
             caller[c].pc \in Outside, caller'[c].pc \in Outside,
             \A d \in Callers : d # c => caller'[d].pc = caller[d].pc
                                      /\ caller'[d].id = caller[d].id
      PROVE  SessionInv'
  <2>1. BeingClosed => BeingClosed'
    BY <1>2 DEF BeingClosed
  <2>2. \A d \in Callers :
          caller[d].pc \in ConnectPcs \/ caller'[d].pc \in ConnectPcs =>
            caller'[d].pc = caller[d].pc /\ caller'[d].id = caller[d].id
    BY <1>2 DEF ConnectPcs
  <2> QED
    BY <1>2, <2>1, <2>2, Bystands
<1>3. ASSUME NEW c \in Callers,
             \/ SubscribeCall(c) \/ SubscribeTrack(c) \/ CallCheck(c) \/ CallRpc(c)
             \/ \E s \in Subs : SubscribeCheck(c, s)
      PROVE  SessionInv'
  <2>1. /\ UNCHANGED <<state, conn, agentID, heartbeatCancel, hb, rc>>
        /\ caller[c].pc \in Outside
    BY <1>3 DEF SubscribeCall, SubscribeTrack, CallCheck, CallRpc,
                SubscribeCheck, NilClient
  <2>2. \/ caller' = caller
        \/ \E pc \in Outside : GoCaller(c, pc)
        \/ \E pc \in Outside, s \in Subs \cup {None} :
             caller' = [caller EXCEPT ![c].pc = pc, ![c].sub = s]
    BY <1>3 DEF SubscribeCall, SubscribeTrack, CallCheck, CallRpc,
                SubscribeCheck, NilClient
  <2>3. /\ caller'[c].pc \in Outside
        /\ \A d \in Callers : d # c => caller'[d].pc = caller[d].pc
                                     /\ caller'[d].id = caller[d].id
    BY <1>1, <2>1, <2>2 DEF GoCaller, CallerRecs
  <2> QED
    BY <1>2, <2>1, <2>3
<1>4. CASE \/ \E c \in Callers, s \in Subs : Unsubscribe(c, s)
           \/ StreamLost \/ UNCHANGED vars
  <2>1. UNCHANGED <<state, conn, agentID, heartbeatCancel, caller, hb, rc>>
    BY <1>4 DEF Unsubscribe, StreamLost, vars
  <2> QED
    BY <2>1, Bystands DEF BeingClosed
<1> QED
  BY <1>3, <1>4

-----------------------------------------------------------------------------
(* The loops *)

\* The heartbeat loop, up to the start of a reconnect loop.
LEMMA HbKeeps ==
  ASSUME TypeInv, OneSession, OneSession', SessionInv, NEW h \in HbLoops,
         HbStep(h) \/ HbTick(h)
  PROVE  SessionInv'
<1> USE DEF HbAt, SetState, shared, agentVars, netVars
<1>1. hb \in [HbLoops -> HbRecs] /\ rc \in [RcLoops -> RcRecs]
  BY DEF TypeInv, TypeOK
<1>2. hb[h].pc # "idle"
  BY DEF HbStep, HbTick, HbExit, TriggerCheck, TriggerSetState, TriggerSpawn,
         HbOk, HbNil, HbErr
<1>3. /\ HbFine(h) /\ ConnectingCallers = {} /\ LiveRc = {}
      /\ \A g \in HbLoops : g # h => hb[g].pc = "idle"
  BY <1>2, HbAlone DEF SessionInv
<1>4. ASSUME hb'[h].pc # "idle", HbFine(h)', ConnectedAsRegistered'
      PROVE  SessionInv'
  BY <1>4, HbDrives DEF LiveHb
<1>5. CASE HbExit(h)
  <2>1. /\ UNCHANGED <<state, conn, agentID, caller, rc>>
        /\ \A g \in HbLoops : hb'[g].pc = "idle"
        /\ BeingClosed
    BY <1>1, <1>3, <1>5, HbMoves DEF HbExit, HbPcs, HbFine
  <2>2. NoSession' /\ BeingClosed'
    BY <1>3, <2>1
    DEF NoSession, BeingClosed, ConnectingCallers, LiveHb, LiveRc
  <2>3. ConnectedAsRegistered'
    BY <2>1 DEF SessionInv, ConnectedAsRegistered, Connected
  <2> QED
    BY <2>2, <2>3, NobodyDrives
<1>6. CASE HbOk(h)
  BY <1>6, UseKeeps DEF HbOk
<1>7. CASE HbNil(h)
  BY <1>3, <1>7 DEF HbNil, NilClient, HbFine
<1>8. CASE HbErr(h)
  <2>1. /\ UNCHANGED <<state, conn, agentID, heartbeatCancel, caller, rc>>
        /\ hb[h].pc = "select" /\ hb'[h].pc \in {"trigger", "select"}
        /\ hb'[h].done = hb[h].done
    BY <1>1, <1>8, HbMoves DEF HbErr, HbPcs
  <2>2. HbFine(h)' /\ ConnectedAsRegistered'
    BY <1>3, <2>1
    DEF HbFine, BeingClosed, SessionInv, ConnectedAsRegistered, Connected
  <2> QED
    BY <1>4, <2>1, <2>2
<1>9. CASE TriggerCheck(h)
  <2>1. hb[h].pc = "trigger" /\ state # "reconnecting"
    BY <1>3, <1>9 DEF TriggerCheck, HbFine
  <2>2. /\ UNCHANGED <<state, conn, agentID, heartbeatCancel, caller, rc>>
        /\ hb'[h].pc = "triggered"
    BY <1>1, <1>9, <2>1, HbMoves DEF TriggerCheck, HbPcs
  <2>3. HbFine(h)' /\ ConnectedAsRegistered'
    BY <1>3, <2>1, <2>2
    DEF HbFine, BeingClosed, SessionInv, ConnectedAsRegistered, Connected
  <2> QED
    BY <1>4, <2>2, <2>3
<1>10. CASE TriggerSetState(h)
  <2>1. /\ UNCHANGED <<conn, agentID, heartbeatCancel>>
        /\ state' = "reconnecting" /\ hb'[h].pc = "spawn"
    BY <1>1, <1>10, HbMoves DEF TriggerSetState, HbPcs
  <2>2. HbFine(h)' /\ ConnectedAsRegistered'
    BY <1>3, <2>1 DEF HbFine, ConnectedAsRegistered, Connected
  <2> QED
    BY <1>4, <2>1, <2>2
<1>11. CASE TriggerSpawn(h)
  <2>1. /\ UNCHANGED <<state, conn, agentID>>
        /\ state \in {"reconnecting", "disconnected"}
    BY <1>3, <1>11 DEF TriggerSpawn, HbFine
  <2>2. PICK r \in RcLoops :
          rc' = [rc EXCEPT ![r] = [pc |-> "top", done |-> FALSE, attempt |-> 0,
                                   id |-> None, todo |-> {}, sub |-> None]]
    BY <1>11 DEF TriggerSpawn
  <2>3. rc'[r].pc = "top" /\ ~rc'[r].done
    BY <1>1, <2>2
  <2>4. r \in LiveRc' /\ RcFine(r)' /\ ConnectedAsRegistered'
    BY <2>1, <2>3 DEF LiveRc, RcFine, ConnectedAsRegistered, Connected
  <2> QED
    BY <2>4, RcDrives
<1> QED
  BY <1>5, <1>6, <1>7, <1>8, <1>9, <1>10, <1>11 DEF HbStep, HbTick

\* The steps of a reconnect loop that end the session, or leave the state and
\* the connection alone.
LEMMA RcLoopKeeps ==
  ASSUME TypeInv, OneSession, OneSession', SessionInv, NEW r \in RcLoops,
         \/ RcCancelled(r) \/ RcExhausted(r) \/ RcGiveUp(r) \/ RcAttempt(r)
         \/ RcDialFails(r) \/ RcRegisterFails(r) \/ RcResubscribe(r)
         \/ RcResubscribed(r)
  PROVE  SessionInv'
<1> USE DEF RcAt, SetState, shared, agentVars, netVars
<1>1. rc \in [RcLoops -> RcRecs]
  BY DEF TypeInv, TypeOK
<1>2. rc[r].pc \notin {"idle", "startHeartbeat"}
  BY DEF RcCancelled, RcExhausted, RcGiveUp, RcAttempt, RcDialFails,
         RcRegisterFails, RcResubscribe, RcResubscribed
<1>3. /\ RcFine(r) /\ ~Connected /\ ConnectingCallers = {} /\ LiveHb = {}
      /\ \A q \in RcLoops : q # r => rc[q].pc = "idle"
  BY <1>2, RcAlone DEF SessionInv, RcFine, Connected
<1>4. ASSUME UNCHANGED <<state, conn, agentID, caller>>,
             rc'[r].pc \notin {"idle", "startHeartbeat"}, RcFine(r)'
      PROVE  SessionInv'
  BY <1>3, <1>4, RcDrives DEF LiveRc, ConnectedAsRegistered, Connected
<1>5. CASE RcCancelled(r)
  <2>1. /\ UNCHANGED <<state, conn, agentID, caller, hb>>
        /\ \A q \in RcLoops : rc'[q].pc = "idle"
        /\ BeingClosed
    BY <1>1, <1>3, <1>5, RcMoves DEF RcCancelled, RcPcs, RcFine
  <2>2. NoSession' /\ BeingClosed'
    BY <1>3, <2>1
    DEF NoSession, BeingClosed, ConnectingCallers, LiveHb, LiveRc
  <2> QED
    BY <1>3, <2>1, <2>2, NobodyDrives DEF ConnectedAsRegistered, Connected
<1>6. CASE RcGiveUp(r)
  <2>1. /\ UNCHANGED <<caller, hb>> /\ state' = "disconnected"
        /\ \A q \in RcLoops : rc'[q].pc = "idle"
    BY <1>1, <1>3, <1>6, RcMoves DEF RcGiveUp, RcPcs
  <2>2. NoSession' /\ BeingClosed'
    BY <1>3, <2>1
    DEF NoSession, BeingClosed, ConnectingCallers, LiveHb, LiveRc
  <2> QED
    BY <2>1, <2>2, NobodyDrives DEF ConnectedAsRegistered, Connected
<1>7. CASE RcExhausted(r) \/ RcAttempt(r)
  <2>1. /\ UNCHANGED <<state, conn, agentID, caller>>
        /\ rc'[r].pc \in {"giveUp", "dropConn"} /\ rc'[r].done = rc[r].done
    BY <1>1, <1>7, RcMoves DEF RcExhausted, RcAttempt, RcPcs
  <2> QED
    BY <1>2, <1>3, <1>4, <2>1 DEF RcFine, BeingClosed
<1>8. CASE RcDialFails(r)
  <2>1. /\ UNCHANGED <<state, conn, agentID, caller>>
        /\ rc'[r].pc = "top" /\ rc'[r].done = rc[r].done
    BY <1>1, <1>8, RetryMoves DEF RcDialFails
  <2> QED
    BY <1>2, <1>3, <1>4, <2>1 DEF RcFine, BeingClosed
<1>9. CASE RcRegisterFails(r)
  <2>1. rc[r].pc = "register" /\ conn # None
    BY <1>3, <1>9 DEF RcRegisterFails, RcFine
  <2>2. /\ UNCHANGED <<state, conn, agentID, caller>>
        /\ rc'[r].pc = "registerFailed" /\ rc'[r].done = rc[r].done
    BY <1>1, <1>9, <2>1, RcMoves DEF RcRegisterFails, NilClient, RcPcs
  <2> QED
    BY <1>2, <1>3, <1>4, <2>1, <2>2 DEF RcFine, BeingClosed
<1>10. CASE RcResubscribe(r)
  <2>1. /\ UNCHANGED <<state, conn, agentID, caller>>
        /\ rc[r].pc = "resubscribe"
    BY <1>10 DEF RcResubscribe
  <2>2. PICK s \in rc[r].todo :
          rc' = [rc EXCEPT ![r].todo = @ \ {s},
                           ![r].pc = IF Connected THEN "resubscribeCall" ELSE @,
                           ![r].sub = IF Connected THEN s ELSE @]
    BY <1>10 DEF RcResubscribe
  <2>3. rc'[r].pc = "resubscribe" /\ rc'[r].done = rc[r].done
    BY <1>1, <1>3, <2>1, <2>2 DEF RcRecs
  <2> QED
    BY <1>2, <1>3, <1>4, <2>1, <2>3 DEF RcFine, BeingClosed
<1>11. CASE RcResubscribed(r)
  <2>1. /\ UNCHANGED <<state, conn, agentID, caller>>
        /\ rc[r].pc = "resubscribe"
        /\ rc'[r].pc = "restored" /\ rc'[r].done = rc[r].done
    BY <1>1, <1>11, RcMoves DEF RcResubscribed, RcPcs
  <2> QED
    BY <1>2, <1>3, <1>4, <2>1 DEF RcFine, BeingClosed
<1> QED
  BY <1>5, <1>6, <1>7, <1>8, <1>9, <1>10, <1>11

\* The steps of a reconnect loop that replace the connection or use it.
LEMMA RcConnKeeps ==
  ASSUME TypeInv, OneSession, OneSession', SessionInv, NEW r \in RcLoops,
         \/ RcDropConn(r) \/ RcDial(r) \/ RcRegisterOk(r) \/ RcCloseConn(r)
         \/ RcForgetConn(r) \/ RcSetID(r) \/ RcSetConnected(r)
         \/ RcStartHeartbeat(r)
         \/ RcResubscribeCall(r) \/ RcResubscribeTrack(r)
  PROVE  SessionInv'
<1> USE DEF RcAt, SetState, shared, agentVars, netVars
<1>1. /\ rc \in [RcLoops -> RcRecs] /\ hb \in [HbLoops -> HbRecs]
      /\ conn \in Conns \cup {None} /\ open \subseteq Conns /\ None \notin Conns
  BY ConstantsAssumption DEF TypeInv, TypeOK
<1>2. rc[r].pc # "idle"
  BY DEF RcDropConn, RcDial, RcRegisterOk, RcCloseConn, RcForgetConn, RcSetID,
         RcSetConnected, RcStartHeartbeat, RcResubscribeCall, RcResubscribeTrack
<1>3. RcFine(r) /\ (rc[r].pc # "startHeartbeat" => ~Connected)
  BY <1>2, RcAlone DEF SessionInv, RcFine, Connected
<1>4. ASSUME rc'[r].pc # "idle", RcFine(r)', ConnectedAsRegistered'
      PROVE  SessionInv'
  BY <1>4, RcDrives DEF LiveRc
<1>5. CASE RcDropConn(r)
  <2>1. /\ UNCHANGED <<state, caller>> /\ rc[r].pc = "dropConn"
        /\ rc'[r].pc = "dial" /\ rc'[r].done = rc[r].done
    BY <1>1, <1>5, RcMoves DEF RcDropConn, RcPcs
  <2> QED
    BY <1>3, <1>4, <2>1 DEF RcFine, BeingClosed, ConnectedAsRegistered, Connected
<1>6. CASE RcDial(r)
  <2>1. /\ UNCHANGED <<state, caller>> /\ rc[r].pc = "dial" /\ conn' \in Conns
        /\ rc'[r].pc = "register" /\ rc'[r].done = rc[r].done
    BY <1>1, <1>6, RcMoves DEF RcDial, Dialled, FreshConns, RcPcs
  <2> QED
    BY <1>1, <1>3, <1>4, <2>1
    DEF RcFine, BeingClosed, ConnectedAsRegistered, Connected
<1>7. CASE RcRegisterOk(r)
  <2>1. /\ UNCHANGED <<state, conn, caller>> /\ rc[r].pc = "register"
        /\ rc'[r].pc = "registered" /\ rc'[r].done = rc[r].done
        /\ rc'[r].id = conn
    BY <1>1, <1>7 DEF RcRegisterOk, RcRecs
  <2> QED
    BY <1>3, <1>4, <2>1 DEF RcFine, BeingClosed, ConnectedAsRegistered, Connected
<1>8. CASE RcCloseConn(r)
  <2>1. rc[r].pc = "registerFailed" /\ conn # None
    BY <1>3, <1>8 DEF RcCloseConn, RcFine
  <2>2. /\ UNCHANGED <<state, caller>>
        /\ rc'[r].pc = "forgetConn" /\ rc'[r].done = rc[r].done
    BY <1>1, <1>8, <2>1, RcMoves DEF RcCloseConn, NilClient, RcPcs
  <2> QED
    BY <1>3, <1>4, <2>1, <2>2
    DEF RcFine, BeingClosed, ConnectedAsRegistered, Connected
<1>9. CASE RcForgetConn(r)
  <2>1. /\ UNCHANGED <<state, caller>> /\ rc[r].pc = "forgetConn"
        /\ rc'[r].pc = "top" /\ rc'[r].done = rc[r].done
    BY <1>1, <1>9, RetryMoves DEF RcForgetConn
  <2> QED
    BY <1>3, <1>4, <2>1 DEF RcFine, BeingClosed, ConnectedAsRegistered, Connected
<1>10. CASE RcSetID(r)
  <2>1. /\ UNCHANGED <<state, conn, caller>> /\ rc[r].pc = "registered"
        /\ agentID' = rc[r].id
        /\ rc'[r].pc = "resubscribe" /\ rc'[r].done = rc[r].done
    BY <1>1, <1>10 DEF RcSetID, RcRecs
  <2> QED
    BY <1>3, <1>4, <2>1 DEF RcFine, BeingClosed, ConnectedAsRegistered, Connected
<1>11. CASE RcSetConnected(r)
  <2>1. /\ UNCHANGED <<agentID, conn>> /\ rc[r].pc = "restored"
        /\ state' = "connected" /\ rc'[r].pc = "startHeartbeat"
    BY <1>1, <1>11, RcMoves DEF RcSetConnected, RcPcs
  <2> QED
    BY <1>3, <1>4, <2>1 DEF RcFine, ConnectedAsRegistered, Connected
<1>12. CASE RcStartHeartbeat(r)
  <2>1. PICK h \in HbLoops : StartLoop(h)
    BY <1>12 DEF RcStartHeartbeat
  <2>2. /\ hb'[h].pc = "select" /\ ~hb'[h].done /\ heartbeatCancel' = h
        /\ UNCHANGED <<state, conn, agentID>> /\ rc[r].pc = "startHeartbeat"
    BY <1>1, <1>12, <2>1 DEF RcStartHeartbeat, StartLoop
  <2>3. h \in LiveHb' /\ HbFine(h)' /\ ConnectedAsRegistered'
    BY <1>3, <2>2 DEF RcFine, LiveHb, HbFine, ConnectedAsRegistered
  <2> QED
    BY <2>3, HbDrives
<1>13. CASE RcResubscribeCall(r) \/ RcResubscribeTrack(r)
  BY <1>3, <1>13 DEF RcResubscribeCall, RcResubscribeTrack, RcFine
<1> QED
  BY <1>5, <1>6, <1>7, <1>8, <1>9, <1>10, <1>11, <1>12, <1>13

-----------------------------------------------------------------------------
(* The theorems *)

\* The invariant holds at first.
LEMMA InitSession == Init => SessionInv
BY DEF Init, SessionInv, ConnectingCallers, LiveHb, LiveRc, NoSession,
       BeingClosed, ConnectedAsRegistered, Connected, ConnectPcs

\* Every step keeps it, as long as there is one session before and after.
LEMMA NextKeepsSession ==
  ASSUME TypeInv, OneSession, OneSession', SessionInv, [Next]_vars
  PROVE  SessionInv'
<1>1. ASSUME NEW c \in Callers, CallerStart(c) \/ CallerStep(c)
      PROVE  SessionInv'
  BY <1>1, DiallingKeeps, RegisteredKeeps, CloseKeeps, UseKeeps
  DEF CallerStart, CallerStep
<1>2. ASSUME NEW h \in HbLoops, HbStep(h) \/ HbTick(h)
      PROVE  SessionInv'
  BY <1>2, HbKeeps
<1>3. ASSUME NEW r \in RcLoops, RcStep(r)
      PROVE  SessionInv'
  BY <1>3, RcLoopKeeps, RcConnKeeps DEF RcStep
<1>4. CASE StreamLost \/ Rest \/ UNCHANGED vars
  BY <1>4, UseKeeps DEF Rest
<1> QED
  BY <1>1, <1>2, <1>3, <1>4 DEF Next

\* The types and the bound on the sessions hold throughout.
LEMMA TypesAndSessions == Spec => [](TypeInv /\ BoundedSessions)
<1>1. TypeInv => TypeOK
  BY DEF TypeInv
<1>2. Spec => []TypeInv
  BY InitType, NextKeepsType, PTL DEF Spec
<1> QED
  BY <1>2, SessionsBounded, PTL

\* The invariant holds throughout when there is one session at a time.
LEMMA SessionInvariant ==
  ASSUME MaxSessions <= 1
  PROVE  Spec => [](TypeInv /\ OneSession /\ SessionInv)
<1>1. BoundedSessions => OneSession
  BY SessionIsOne
<1>2. /\ TypeInv /\ OneSession /\ OneSession' /\ SessionInv /\ [Next]_vars
      => SessionInv'
  BY NextKeepsSession
<1> QED
  BY <1>1, <1>2, InitSession, TypesAndSessions, PTL DEF Spec

\* Whoever calls Close and whatever fails, the calls of a connected agent go
\* through the connection its id was granted on.
THEOREM CallsAreRegistered ==
  ASSUME MaxSessions <= 1
  PROVE  Spec => []ConnectedAsRegistered
<1>1. SessionInv => ConnectedAsRegistered
  BY DEF SessionInv
<1> QED
  BY <1>1, SessionInvariant, PTL

\* Connect, heartbeatLoop and doReconnect never find c.conn or c.athyr nil
\* where they use it without the lock: Close leaves it, and nobody else is
\* between their assignment and their use.
THEOREM SessionHasClient ==
  ASSUME MaxSessions <= 1
  PROVE  Spec => []DriverHasClient
<1>1. SessionInv => DriverHasClient
  BY DEF SessionInv, DriverHasClient, CallerFine, HbFine, RcFine,
         ConnectingCallers, LiveHb, LiveRc, ConnectPcs
<1> QED
  BY <1>1, SessionInvariant, PTL

\* The running heartbeat loop is the one Close would cancel.
THEOREM CloseFindsTheHeartbeat ==
  ASSUME MaxSessions <= 1
  PROVE  Spec => []HeartbeatOwned
<1>1. SessionInv => HeartbeatOwned
  BY DEF SessionInv, HeartbeatOwned, HbFine
<1> QED
  BY <1>1, SessionInvariant, PTL

\* An agent that is not disconnected has somebody working on it: a loop that
\* is told to stop leaves a Close behind that will say so.
THEOREM NoStateIsAbandoned ==
  ASSUME MaxSessions <= 1
  PROVE  Spec => []StateHasOwner
<1>1. SessionInv => StateHasOwner
  <2> SUFFICES ASSUME SessionInv, state # "disconnected", ~(Sessions > 0)
               PROVE  \E c \in Callers : caller[c].pc \in ClosePcs
    BY DEF StateHasOwner
  <2>1. NoSession
    <3> DEFINE A == Cardinality(ConnectingCallers)
               B == Cardinality(LiveHb)
               C == Cardinality(LiveRc)
    <3>1. A \in Nat /\ B \in Nat /\ C \in Nat
      BY SessionsFinite, FS_CardinalityType
    <3>2. A + B + C = 0
      BY <3>1 DEF Sessions
    <3>3. A = 0 /\ B = 0 /\ C = 0
      BY <3>1, <3>2
    <3> QED
      BY <3>3, SessionsFinite, FS_EmptySet DEF NoSession
  <2> QED
    BY <2>1 DEF SessionInv, BeingClosed, ClosePcs
<1> QED
  BY <1>1, SessionInvariant, PTL
=============================================================================
