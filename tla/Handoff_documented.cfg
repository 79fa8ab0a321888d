SPECIFICATION Spec
CONSTANTS
  Routes = {"billing", "technical"}
  Strangers = {"sales"}
  MaxHandoffs = 2
INVARIANTS HandoffsWithinLimit ContextReachesNext OnlyConfiguredSubjects
