SPECIFICATION Spec
CONSTANTS
  a1 = a1
  a2 = a2
  a3 = a3
  None = None
  Agents = {a1, a2, a3}
  Name <- SharedName
  Quorum = 2
INVARIANTS AllSucceeded
