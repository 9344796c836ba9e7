SPECIFICATION FairSpec
CONSTANTS
  Capacity <- SmallCapacity
  TagModulus <- SmallTagModulus
  TargetFrames <- SmallTarget
  ExcessFrames <- SmallExcess
  FadeFrames <- SmallFade
  MaxPulls <- BoundPulls
  MaxFrames <- BoundFrames
INVARIANTS
  LossesCounted
PROPERTIES
  ImplementsStream
  GainMovesInSteps
  PlaysAgain
