SPECIFICATION Spec
CONSTANTS
  Slack = 12
  PageExtra = 1
  TagsPerPage = 2
  MaxCount = 2
  MaxRuntime = 1
  MaxEvents = 3
INVARIANTS
  HandoffMapIsCurrent
  MapFitsBuffer
PROPERTY HandoffTerminates
CHECK_DEADLOCK FALSE
