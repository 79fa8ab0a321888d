SPECIFICATION FairSpec
CONSTANTS
  None = None
  Models = {"small", "large"}
  Default = "default"
  MaxHints = 2
  MaxRuns = 2
  MaxSteps = 4
INVARIANTS PrintedIsTrue HintsAreStored
PROPERTIES EndsAfterSignal
