SPECIFICATION FairSpec
CONSTANTS
  Receivers = {r1, r2}
  Workers = {1, 2}
  Chains <- TellingChains
  Limit = 1
  MaxAttempts = 2
  MaxRequests <- Loads
  None = None
INVARIANTS SlotsAccounted InnermostLimitHolds GuardedPanicsCaught
PROPERTIES RequestsAnswered AbandonedEnd
