CONSTANTS
  p1 = p1
  p2 = p2
  p3 = p3
  None = none
  Procs <- ThreeProcs
  Beginners <- TwoBeginners
  MaxFaults = 2
SPECIFICATION FairSpec
INVARIANTS TypeOK MutualExclusion
PROPERTIES ImplementsAtomicLedger EveryCallEnds AbandonedLockIsFreed
CHECK_DEADLOCK FALSE
