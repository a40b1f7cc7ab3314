CONSTANTS
  c1 = c1
  c2 = c2
  Controller = {c1, c2}
  NTasks = 2
  Requires <- Alone
  AgentOf <- OneAgent
  MaxGlobal = 1
  MaxPerAgent = 1
  NSteps = 1
  RequestKind = {"submit", "ask", "retry"}
  MaxRequests = 3
  MaxAttempts = 2
  FaultKind = {"crash", "expire"}
  MaxFaults = 1
  MaxClaims = 3
SPECIFICATION Spec
CHECK_DEADLOCK FALSE
SYMMETRY Incarnations
INVARIANTS
  ActiveWithinCapacity
