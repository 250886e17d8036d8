SPECIFICATION Spec
CONSTANTS
  a = a
  b = b
  None = None
  Ids <- MCIds
  builtin_class <- MCBuiltin
  Edits <- MCEdits
  Tests <- MCTests
  ReadFaults = {"start"}
  Classes = {0, 1}
  Cap = 1
VIEW MCView
INVARIANTS
  TypeOK
  ShownWhole
  Remembered
PROPERTIES
  AnswersCurrent
