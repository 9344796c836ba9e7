SPECIFICATION FairSpec
CONSTANTS
  SourceCount <- BoundSources
  Place <- Places
  ActiveIn <- Actives
  Cadence <- SmallCadence
  SequenceModulus <- SmallModulus
  MaxUpdates <- BoundUpdates
  MaxFailures <- BoundFailures
INVARIANTS
  DescribedIr
  JumpForcesPass
PROPERTIES
  StopCompletes
  CurrentIrIsHeard
