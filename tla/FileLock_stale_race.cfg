CONSTANTS
  p1 = p1
  p2 = p2
  p3 = p3
  None = none
  Procs <- ThreeProcs
  Beginners <- TwoBeginners
  MaxFaults = 1
SPECIFICATION Spec
INVARIANTS OneBegin
CHECK_DEADLOCK FALSE
