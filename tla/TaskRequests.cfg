CONSTANTS
  c1 = c1
  c2 = c2
  Controller = {c1, c2}
  NTasks = 1
  Requires <- Alone
  AgentOf <- OneAgent
  MaxGlobal = 1
  MaxPerAgent = 1
  NSteps = 1
  RequestKind = {"submit", "pause", "resume", "cancel", "retry", "revise", "ask"}
  MaxRequests = 3
  MaxAttempts = 2
  FaultKind = {"crash", "stop", "fail", "timeout"}
  MaxFaults = 1
  MaxClaims = 2
SPECIFICATION Spec
CHECK_DEADLOCK FALSE
SYMMETRY Incarnations
INVARIANTS
  TypeOK
PROPERTIES
  SettledForGood
