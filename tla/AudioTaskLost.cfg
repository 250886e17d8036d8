SPECIFICATION Spec
CONSTANTS
  Sizes = {3, 4}
  Largest = 4
  ScratchSize = 3
  Lists = 3
  QueueMax = 1
  Contents <- MCContents
  None = None
PROPERTY
  HangsReported
CHECK_DEADLOCK FALSE
