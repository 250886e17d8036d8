SPECIFICATION Spec
CONSTANTS
  Lists <- MCLists
  Main = 0
  Frames <- MCFrames
  Textures <- MCTextures
  Settings = {0, 1, 2}
  Tags <- MCTags
  MaxDepth = 2
  ScratchSize = 50
  None = None
INVARIANT MovesWhole
