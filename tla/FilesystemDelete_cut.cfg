CONSTANTS
  c1 = c1
  c2 = c2
  Calls <- TwoCalls
  Sorted <- ThreePaths
  LongestFirst <- ByLength
  MaxDrifts = 1
  MaxInterrupts = 2
SPECIFICATION FairSpec
INVARIANTS TypeOK ProvenMeansRestorable RemovedOnce ForeignContentsKept
PROPERTIES InterruptedDeleteResolves ImplementsReversibleEffect
CHECK_DEADLOCK FALSE
