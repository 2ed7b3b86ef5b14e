CONSTANTS
  a1 = a1
  a2 = a2
  o1 = o1
  o2 = o2
  o3 = o3
  m1 = m1
  m2 = m2
  Ops <- ThreeOps
  Manifests <- TwoManifests
  Children <- Binding
  Kind <- Kinds
  Paths <- Resources
  Exact <- ExactKinds
  None = none
  Agents <- TwoAgents
  Uses <- OneUses
  Starts <- Situations
  MaxFaults = 1
  MaxOpen = 2
SPECIFICATION FairSpec
PROPERTIES EveryHookAnswers
INVARIANTS TypeOK DeniedNeverRuns GraphShowsSession GuidanceMatchesTools ReadinessMatchesCut SliceIsNeighbourhood
CHECK_DEADLOCK FALSE
