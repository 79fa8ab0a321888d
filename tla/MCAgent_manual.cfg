SPECIFICATION FairSpec
CONSTANTS
  a = a
  b = b
  s1 = s1
  s2 = s2
  None = None
  Callers = {a}
  Menu <- OneCaller
  HbLoops = {h1, h2, h3}
  RcLoops = {r1}
  Conns = {k1, k2, k3}
  Subs = {s1}
  Key <- DistinctKeys
  AutoReconnect = FALSE
  MaxRetries = 0
  MaxSessions = 3
  StreamsFail = TRUE
INVARIANTS TypeOK HeartbeatOwned DisconnectedIsClosed
PROPERTIES ImplementsLifecycle ClosedComesToRest
