SPECIFICATION Spec
CONSTANTS
  a = a
  b = b
  s1 = s1
  s2 = s2
  None = None
  Callers = {a, b}
  Menu <- WithCloser
  HbLoops = {h1, h2}
  RcLoops = {r1, r2}
  Conns = {k1, k2, k3}
  Subs = {}
  Key <- DistinctKeys
  AutoReconnect = TRUE
  MaxRetries = 2
  MaxSessions = 1
  StreamsFail = FALSE
SYMMETRY Symmetries
PROPERTIES CancelledReconnectionEnds
