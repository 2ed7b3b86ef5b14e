CONSTANTS
  c1 = c1
  c2 = c2
  orig = orig
  post = post
  other = other
  torn = torn
  foreign = foreign
  none = none
  Calls <- OneCall
  States <- TearingStates
  Orig = orig
  Effect <- TearingEffect
  Torn = {torn}
  VerifiesArtifact = FALSE
  None = none
  MaxDrifts = 0
  MaxInterrupts = 2
SPECIFICATION FairSpec
INVARIANTS   ChangeIsRecoverable
PROPERTIES ImplementsReversibleEffect InterruptedCommitResolves
CHECK_DEADLOCK FALSE
