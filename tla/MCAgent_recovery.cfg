SPECIFICATION PersistentSpec
CONSTANTS
  a = a
  b = b
  s1 = s1
  s2 = s2
  None = None
  Callers = {a, b}
  Menu <- Subscribers
  HbLoops = {h1}
  RcLoops = {r1}
  Conns = {k1, k2}
  Subs = {s1, s2}
  Key <- DistinctKeys
  AutoReconnect = TRUE
  MaxRetries = 0
  MaxSessions = 1
  StreamsFail = TRUE
INVARIANTS TrackedForRecovery NoOrphanConnection
PROPERTIES ImplementsFairLifecycle ReconnectSucceeds
