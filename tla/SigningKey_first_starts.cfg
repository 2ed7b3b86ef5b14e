CONSTANTS
  p1 = p1
  p2 = p2
  p3 = p3
  Processes <- ThreeProcesses
  Legacy = legacy
  NoKey = nokey
SPECIFICATION Spec
INVARIANTS TypeOK SignersAgree SignaturesVerify
PROPERTIES LegacyKeyKept
SYMMETRY Symmetric
CHECK_DEADLOCK FALSE
