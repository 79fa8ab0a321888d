SPECIFICATION FairSpec
CONSTANTS
  Servers = {s1, s2}
  Services = {1, 2}
  Queued = {1}
  Requests = {"first", "second"}
  Deployments <- BothDeployments
  HandlerErrors <- RetriedErrors
  MaxRuns = 2
  Response = Response
  None = None
PROPERTIES AnsweredUnlessLost
CHECK_DEADLOCK FALSE
