CONSTANTS
  c1 = c1
  c2 = c2
  c3 = c3
  k1 = k1
  Controller = {c1, c2, c3}
  NTurns = 1
  Call = {k1}
  SystemTurn = {}
  Peers = FALSE
  ControllerMaxAttempts = 3
  TransientMaxAttempts = 2
  FaultKind = {"crash", "recovery"}
  MaxFaults = 2
  MaxToken = 5
SPECIFICATION FairSpec
CHECK_DEADLOCK FALSE
PROPERTIES
  EventuallySettled
