CONSTANTS
  c1 = c1
  c2 = c2
  k1 = k1
  k2 = k2
  Controller = {c1, c2}
  NTurns = 1
  Call = {k1, k2}
  SystemTurn = {}
  Peers = FALSE
  ControllerMaxAttempts = 3
  TransientMaxAttempts = 2
  FaultKind = {"crash", "expire", "reconcile", "recovery", "drop"}
  MaxFaults = 2
  MaxToken = 4
SPECIFICATION Spec
CHECK_DEADLOCK FALSE
SYMMETRY Incarnations
INVARIANTS
  ToolCallsSettled
