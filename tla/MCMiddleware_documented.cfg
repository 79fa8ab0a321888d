SPECIFICATION Spec
CONSTANTS
  Receivers = {r1, r2}
  Workers = {1, 2}
  Chains <- DocumentedChain
  Limit = 1
  MaxAttempts = 2
  MaxRequests <- DocumentedLoad
  None = None
INVARIANTS LimitHolds RecoverHolds
