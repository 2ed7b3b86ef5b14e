CONSTANTS
  k1 = k1
  k2 = k2
  N = 2
  Coordinators <- TwoCoordinators
  Rerunnable = {2}
  MaxFaults = 1
  MaxDrifts = 0
  MaxAlone = 1
SPECIFICATION FairSpec
INVARIANTS OneCommitLoop
PROPERTIES SagaConcludes
CHECK_DEADLOCK FALSE
