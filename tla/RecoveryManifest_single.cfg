CONSTANTS
  k1 = k1
  k2 = k2
  N = 3
  Coordinators <- OneCoordinator
  Rerunnable = {3}
  MaxFaults = 2
  MaxDrifts = 1
  MaxAlone = 0
SPECIFICATION Spec
INVARIANTS TypeOK SpentChildIsVisible OutstandingIsExact ReverseOrder
PROPERTIES ImplementsSaga
CHECK_DEADLOCK FALSE
