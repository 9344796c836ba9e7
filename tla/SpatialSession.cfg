SPECIFICATION FairSpec
CONSTANTS
  listener = listener
  source = source
  Listener <- listener
  Sources <- BoundSources
  MaxUpdates <- BoundUpdates
  MaxPrepares <- BoundPrepares
  MaxFaults <- BoundFaults
CHECK_DEADLOCK FALSE
INVARIANTS
  RenderGraphExclusive
  PreparedIsCurrent
  BlockIsOneTruth
PROPERTIES
  OneUpdateIsAbsorbed
  SilenceEnds
