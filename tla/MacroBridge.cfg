SPECIFICATION FairSpec
CONSTANTS
  Events = {1, 2, 3}
  Roles = {0, 1}
  Role <- MCRole
  Group <- MCGroup
  Frame <- MCFrame
  Deadline <- MCDeadline
  LocalDelays = {1}
  Capacity = 2
  BlockSize = 2
  MaxFrame = 8
  MaxDirect = 2
  MaxTokens = 2
  None = None
INVARIANTS
  CommitCannotFail
  AwaitedOnce
  FinalizeAccepted
PROPERTIES
  PlayedWhenRendered
  CommittedSettles
