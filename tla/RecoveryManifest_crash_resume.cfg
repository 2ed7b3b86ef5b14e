CONSTANTS
  k1 = k1
  k2 = k2
  N = 2
  Coordinators <- OneCoordinator
  Rerunnable = {}
  MaxFaults = 1
  MaxDrifts = 0
  MaxAlone = 0
SPECIFICATION Spec
INVARIANTS OutstandingIsResumable
CHECK_DEADLOCK FALSE
