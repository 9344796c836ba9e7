SPECIFICATION Spec
CONSTANTS
  Events = {1, 2, 3, 4}
  Roles = {0, 1}
  Role <- MCRole
  Group <- MCGroup
  Frame <- MCFrame
  Deadline <- MCDeadline
  EchoRoles = {1}
  Anchors = {"off", "a"}
  NoAnchor = "off"
  LocalDelays = {0, 1}
  Capacity = 3
  MaxFrame = 4
  None = 0
INVARIANTS
  OneBatch
  TailsMatchVoices
PROPERTIES
  ImplementsStage
