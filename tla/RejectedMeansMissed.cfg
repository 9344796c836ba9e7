SPECIFICATION Spec
CONSTANTS
  Events = {1, 2, 3}
  Roles = {0, 1}
  Role <- MCRole
  Group <- MCGroup
  Frame <- MCFrame
  Deadline <- MCDeadline
  LocalDelays = {3}
  Capacity = 2
  BlockSize = 2
  MaxFrame = 8
  MaxDirect = 1
  MaxTokens = 1
  None = None
PROPERTIES
  RejectedMeansMissed
