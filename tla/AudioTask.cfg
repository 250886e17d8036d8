SPECIFICATION Spec
CONSTANTS
  Sizes = {3, 4}
  Largest = 4
  ScratchSize = 3
  Lists = 3
  QueueMax = 1
  Contents <- MCContents
  None = None
INVARIANTS
  TypeOK
  RunsOwnCommands
  BlamesFirst
  AlarmsTrue
PROPERTIES
  HangsAnnounced
  TasksComplete
CHECK_DEADLOCK FALSE
