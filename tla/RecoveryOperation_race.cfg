CONSTANTS
  c1 = c1
  c2 = c2
  orig = orig
  post = post
  other = other
  torn = torn
  foreign = foreign
  none = none
  Calls <- TwoCalls
  States <- AtomicStates
  Orig = orig
  Effect <- AtomicEffect
  Torn = {}
  VerifiesArtifact = TRUE
  None = none
  MaxDrifts = 0
  MaxInterrupts = 0
SPECIFICATION Spec
INVARIANTS RecoveredMeansRestored
CHECK_DEADLOCK FALSE
