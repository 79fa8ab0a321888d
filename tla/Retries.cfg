SPECIFICATION FairSpec
CONSTANTS
  MaxChunks = 4
  FailureEnds = {"error"}
  MaxResumes = 2
  maxRetries = 2
  Notice = Notice
  Whole = Whole
  Width = 7
  Bases = {1, 3, 11}
  Caps = {5, 20}
  MaxAttempts = 9
  None = None
INVARIANTS WholeOrAllTried WaitsAsMeant
PROPERTIES ImplementsDelivery
CHECK_DEADLOCK FALSE
