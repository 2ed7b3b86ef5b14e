CONSTANTS
  t1 = t1
  t2 = t2
  a = a
  b = b
  m1 = m1
  m2 = m2
  Terminals <- TwoTerminals
  Ops <- TwoOps
  Manifests <- TwoManifests
  Children <- Shared
  None = none
SPECIFICATION Spec
INVARIANTS TypeOK ConsentBeforeEffect AllOrNothing OnePath
SYMMETRY Symmetric
CHECK_DEADLOCK FALSE
