SPECIFICATION FairSpec
CONSTANTS
  g1 = g1
  g2 = g2
  g3 = g3
  g4 = g4
  None = None
  First = g1
  Generations <- MCGenerations
  RequestedWarmup <- MCRequestedWarmup
  MaxWarmupBlocks <- MCMaxWarmupBlocks
  FadeBlocks <- MCFadeBlocks
INVARIANTS
  GraphOwnedOnce
  AdmittedAlone
  SimulationOutlivesGraph
PROPERTIES
  DrivenWhileAudible
  LifecycleOrder
  SwapSettles
  ImplementsAuthority
