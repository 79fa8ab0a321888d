SPECIFICATION FairSpec
CONSTANTS
  Servers = {s1, s2}
  Services = {1, 2}
  Queued = {1}
  Requests = {"first", "second"}
  Deployments <- BothDeployments
  HandlerErrors <- CodedErrors
  MaxRuns = 2
  Response = Response
  None = None
INVARIANTS NothingLeftOpen HandledOnce
PROPERTIES AnsweredUnlessLost ShutdownReturns
CHECK_DEADLOCK FALSE
