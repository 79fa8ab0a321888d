SPECIFICATION Spec
CONSTANTS
  a = a
  b = b
  s1 = s1
  s2 = s2
  None = None
  Callers = {a}
  Menu <- Reconnector
  HbLoops = {h1, h2}
  RcLoops = {r1, r2}
  Conns = {k1, k2, k3}
  Subs = {s1}
  Key <- DistinctKeys
  AutoReconnect = TRUE
  MaxRetries = 0
  MaxSessions = 2
  StreamsFail = TRUE
SYMMETRY Symmetries
INVARIANTS BoundedSessions TriggerExclusive
