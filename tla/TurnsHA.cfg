CONSTANTS
  c1 = c1
  c2 = c2
  Controller = {c1, c2}
  NTurns = 2
  Call = {}
  SystemTurn = {}
  Peers = TRUE
  ControllerMaxAttempts = 3
  TransientMaxAttempts = 2
  FaultKind = {"crash", "expire", "controller", "renewal", "busy", "stop"}
  MaxFaults = 1
  MaxToken = 3
SPECIFICATION Spec
CHECK_DEADLOCK FALSE
SYMMETRY Incarnations
INVARIANTS
  TypeOK
  HeadOnly
  FenceHolds
PROPERTIES
  SettledForGood
  ImplementsFifo
