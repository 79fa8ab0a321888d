SPECIFICATION FairSpec
CONSTANTS
  MaxChunks = 4
  FailureEnds = {"error", "eof"}
  MaxResumes = 2
  maxRetries = 2
  Notice = Notice
  Whole = Whole
  Width = 7
  Bases = {1, 3, 11}
  Caps = {5, 20}
  MaxAttempts = 9
  None = None
INVARIANTS NilMeansComplete InterruptionsAreTold CappedAtMaxBackoff AlwaysWaits
CHECK_DEADLOCK FALSE
