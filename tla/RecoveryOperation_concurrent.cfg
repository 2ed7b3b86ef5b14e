CONSTANTS
  c1 = c1
  c2 = c2
  orig = orig
  post = post
  other = other
  torn = torn
  foreign = foreign
  none = none
  Calls <- TwoCalls
  States <- LooseStates
  Orig = orig
  Effect <- LooseEffect
  Torn = {torn}
  VerifiesArtifact = FALSE
  None = none
  MaxDrifts = 1
  MaxInterrupts = 1
SPECIFICATION Spec
INVARIANTS TypeOK EffectAtMostOnce JournalBeforeEffect
PROPERTIES ForeignContentsKept
CHECK_DEADLOCK FALSE
