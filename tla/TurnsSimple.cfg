CONSTANTS
  c1 = c1
  c2 = c2
  Controller = {c1, c2}
  NTurns = 2
  Call = {}
  SystemTurn = {}
  Peers = FALSE
  ControllerMaxAttempts = 3
  TransientMaxAttempts = 2
  FaultKind = {"crash", "expire", "transient", "reconcile", "drop"}
  MaxFaults = 2
  MaxToken = 3
SPECIFICATION Spec
CHECK_DEADLOCK FALSE
SYMMETRY Incarnations
INVARIANTS
  MessageOnce
  
  CancelledWasRequested
