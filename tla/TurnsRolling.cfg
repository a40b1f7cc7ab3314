CONSTANTS
  c1 = c1
  c2 = c2
  c3 = c3
  k1 = k1
  Controller = {c1, c2, c3}
  NTurns = 1
  Call = {k1}
  SystemTurn = {}
  Peers = TRUE
  ControllerMaxAttempts = 3
  TransientMaxAttempts = 2
  FaultKind = {"drain", "transient"}
  MaxFaults = 2
  MaxToken = 4
SPECIFICATION Spec
CHECK_DEADLOCK FALSE
SYMMETRY Incarnations
INVARIANTS
  NoBlindRerun
