CONSTANTS
  c1 = c1
  c2 = c2
  Controller = {c1, c2}
  NTasks = 2
  Requires <- Chain
  AgentOf <- OneAgent
  MaxGlobal = 1
  MaxPerAgent = 1
  NSteps = 1
  RequestKind = {"submit"}
  MaxRequests = 2
  MaxAttempts = 2
  FaultKind = {"crash", "defer", "workflow"}
  MaxFaults = 1
  MaxClaims = 4
SPECIFICATION FairSpec
CHECK_DEADLOCK FALSE
INVARIANTS
  NoBlindRerun
PROPERTIES
  TasksServed
  DependentsReleased
