SPECIFICATION FairSpec
CONSTANTS
  NumFiles = 3
  DataIds <- MCData
  Vram <- MCVram
  Size <- MCSize
  Funcs <- MCFuncs
  Dests <- MCDests
  Addr <- MCAddr
  None = None
INVARIANTS TypeOK RegisteredDisjoint MapExact ResidentResolves
PROPERTIES ImplementsCodeMap LoadsEnd
