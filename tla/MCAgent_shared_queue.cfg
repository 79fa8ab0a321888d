SPECIFICATION Spec
CONSTANTS
  a = a
  b = b
  s1 = s1
  s2 = s2
  None = None
  Callers = {a}
  Menu <- Reconnector
  HbLoops = {h1, h2}
  RcLoops = {r1}
  Conns = {k1, k2, k3}
  Subs = {s1, s2}
  Key <- SharedKey
  AutoReconnect = FALSE
  MaxRetries = 0
  MaxSessions = 1
  StreamsFail = FALSE
SYMMETRY Symmetries
INVARIANTS TrackedForRecovery
